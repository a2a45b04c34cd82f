---------------------------- MODULE ScenarioScope ----------------------------
(***************************************************************************)
(* Which scenario a request runs in (app/_middleware.py): its header, else *)
(* the user's preference, else the operator's default, each looked up on   *)
(* disk.  The scope built from it, the parsed scenario.yaml and the agents *)
(* block are cached in three layers that nothing invalidates: an LRU cache *)
(* of manifests, a FIFO cache of scopes and a smaller one of agents blocks;*)
(* the capability catalogue and the agents the chat has built are the same *)
(* for all scenarios.                                                      *)
(* Packs and deployment records change on disk while requests run.         *)
(***************************************************************************)
EXTENDS Integers, Sequences

CONSTANTS Packs,        \* names of scenario packs; "" and "unknown" are none of them
          WithFiles,    \* packs whose manifest names a tour, highlights and a replay
          Localized,    \* those that have them in other languages, too
          Default,      \* settings.scenario_name: a pack, or ""
          Users, Swaps, \* users, and their requests
          ScopeMax,     \* _SCOPE_CACHE_MAX and lru_cache(maxsize)
          AgentsMax,    \* _CACHE_MAX of agents/_config.py
          MaxEdits      \* bound: changes on disk

ASSUME ScopeAssumption == /\ {"", "unknown", "none"} \cap Packs = {}
                          /\ Localized \subseteq WithFiles /\ WithFiles \subseteq Packs
                          /\ Default \in Packs \cup {""}
                          /\ ScopeMax \in Nat \ {0} /\ AgentsMax \in Nat \ {0}
                          /\ MaxEdits \in Nat

VARIABLES disk,      \* per pack its manifest's version: 0 without a folder, -1 unreadable
          registry,  \* the deployment registry's version, -1 while it is half written
          edits,
          manifests, \* _load_scenario_yaml_cached
          scopes,    \* _scope_cache
          blocks,    \* _agents_config_cache
          catalog,   \* _catalog_cache of capability/build.py: the manifests and packs
                     \* its entries come from
          agentCache,\* _agent_cache of AgentFrameworkService, for one agent id, model and
                     \* language: the agents block the agent was built from
          preferences,
          swaps      \* per request its phase, user, scenario, scope, agents block,
                     \* and the manifests and files its answer was read from

scopeVars == <<disk, registry, edits, manifests, scopes, blocks, catalog, agentCache,
               preferences, swaps>>

\* A parsed manifest is of a pack and a version; no manifest is the empty dict.
Manifest(name, version) == [of |-> name, version |-> version]
NoManifest == Manifest("none", 0)
NoUrl == [scenario |-> "none", localized |-> FALSE]
Unbuilt == {Manifest("unbuilt", 0)}
Entry(key, value) == [key |-> key, value |-> value]

OnDisk(name) == name \in Packs /\ disk[name] # 0
Parsed(name) == IF OnDisk(name) /\ disk[name] > 0 THEN Manifest(name, disk[name]) ELSE NoManifest

(***************************************************************************)
(* The caches: sequences of entries, next to be evicted first              *)
(***************************************************************************)
Has(cache, key) == \E i \in DOMAIN cache : cache[i].key = key
Position(cache, key) == CHOOSE i \in DOMAIN cache : cache[i].key = key
At(cache, key) == cache[Position(cache, key)].value
Without(cache, i) == SubSeq(cache, 1, i - 1) \o SubSeq(cache, i + 1, Len(cache))
Room(cache, max) == IF Len(cache) >= max THEN Tail(cache) ELSE cache

\* Mutated: keyed by what the caller passed, which is nothing inside a request.
KeyAsPassed(name, explicit) == IF explicit THEN name ELSE "none"

\* load_scenario_yaml resolves a name it is not given before it asks the cache.
Key(name, explicit) == name

LoadYaml(name, explicit) ==
  LET key == Key(name, explicit)
      value == IF Has(manifests, key) THEN At(manifests, key) ELSE Parsed(name)
      kept == IF Has(manifests, key) THEN Without(manifests, Position(manifests, key))
              ELSE Room(manifests, ScopeMax)
  IN [value |-> value, cache |-> Append(kept, Entry(key, value))]

(***************************************************************************)
(* The middleware                                                          *)
(***************************************************************************)
Preferred(user) == IF preferences[user] # "" THEN preferences[user] ELSE Default

\* A header that names no pack falls to the default, not to the preference.
Resolved(header, user) ==
  IF header # "" THEN IF OnDisk(header) THEN header ELSE Default
  ELSE IF user # "none" /\ OnDisk(Preferred(user)) THEN Preferred(user) ELSE Default

\* The oid of the token, unchecked; none without a token that can be decoded.
Oids == Users \cup {"none"}

\* A request that is over leaves what its answer was made of; one that failed, nothing.
Answer(r, scenario, read, url) ==
  swaps' = [swaps EXCEPT ![r] = [at |-> "done", scenario |-> scenario, read |-> read, url |-> url]]
Fail(r) == swaps' = [swaps EXCEPT ![r] = [at |-> "failed"]]

\* build_request_scope: what is extracted from the manifest and the deployment record.
Scope(scenario, yaml) == [scenario |-> scenario, yaml |-> yaml, registry |-> registry]

\* The context and the scope of the request, all before its first await.  Reading the
\* deployment registry raises while it is half written; the manifest stays cached then.
Enters(r) ==
  /\ swaps[r].at = "new"
  /\ \E user \in Oids, header \in Packs \cup {"", "unknown"} :
       LET scenario == Resolved(header, user)
           yaml == IF scenario = "" THEN [value |-> NoManifest, cache |-> manifests]
                   ELSE LoadYaml(scenario, TRUE)
           scope == Scope(scenario, yaml.value)
           begin(s) == [at |-> "running", user |-> user,
                        scenario |-> scenario, scope |-> s, agents |-> NoManifest]
       IN \/ /\ Has(scopes, scenario)
             /\ swaps' = [swaps EXCEPT ![r] = begin(At(scopes, scenario))]
             /\ UNCHANGED <<manifests, scopes>>
          \/ /\ ~Has(scopes, scenario) /\ (registry >= 0 \/ scenario = "")
             /\ swaps' = [swaps EXCEPT ![r] = begin(scope)]
             /\ manifests' = yaml.cache
             /\ scopes' = Append(Room(scopes, ScopeMax), Entry(scenario, scope))
          \/ /\ ~Has(scopes, scenario) /\ registry < 0 /\ scenario # ""
             /\ Fail(r) /\ manifests' = yaml.cache /\ UNCHANGED scopes
  /\ UNCHANGED <<disk, registry, edits, blocks, catalog, agentCache, preferences>>

\* POST /api/scenarios/select, after authentication.
Selects(r) ==
  /\ swaps[r].at = "running" /\ swaps[r].user # "none"
  /\ \E pack \in Packs \cup {"unknown"} :
       preferences' = IF OnDisk(pack) THEN [preferences EXCEPT ![swaps[r].user] = pack]
                      ELSE preferences
  /\ Answer(r, swaps[r].scenario, {}, NoUrl)
  /\ UNCHANGED <<disk, registry, edits, manifests, scopes, blocks, catalog, agentCache>>

\* load_agents_block: from its cache, else from the scope's manifest, else from a fresh
\* load of the scope's scenario; without one it raises.
AgentsBlock(scope) ==
  LET cached == Has(blocks, scope.scenario)
      yaml == IF scope.yaml # NoManifest \/ cached
              THEN [value |-> scope.yaml, cache |-> manifests]
              ELSE LoadYaml(scope.scenario, FALSE)
      block == IF cached THEN At(blocks, scope.scenario) ELSE yaml.value
  IN [value |-> block, manifests |-> yaml.cache,
      cache |-> IF cached \/ block = NoManifest THEN blocks
                ELSE Append(Room(blocks, AgentsMax), Entry(scope.scenario, block))]

LoadsAgents(r) ==
  /\ swaps[r].at = "running"
  /\ LET agents == AgentsBlock(swaps[r].scope) IN
       /\ manifests' = agents.manifests /\ blocks' = agents.cache
       /\ IF agents.value = NoManifest THEN Fail(r)
          ELSE swaps' = [swaps EXCEPT ![r].agents = agents.value]
  /\ UNCHANGED <<disk, registry, edits, scopes, catalog, agentCache, preferences>>

\* The chat's run of an agent (services/llm/agent.py): the one it has built under this
\* agent id, model and language, whichever scenario's that was, else a new one, built
\* from the agents block and the prompts in the pack's folder and kept.
RunsAgent(r) ==
  /\ swaps[r].at = "running"
  /\ LET agents == AgentsBlock(swaps[r].scope)
         run(agent) == swaps' = [swaps EXCEPT ![r] = [at |-> "ran", agent |-> agent,
                                                      scenario |-> swaps[r].scenario]]
     IN \/ /\ agentCache # NoManifest /\ run(agentCache)
           /\ UNCHANGED <<manifests, blocks, agentCache>>
        \/ /\ agentCache = NoManifest
           /\ manifests' = agents.manifests /\ blocks' = agents.cache
           /\ IF agents.value = NoManifest \/ ~OnDisk(swaps[r].scope.scenario)
              THEN Fail(r) /\ UNCHANGED agentCache
              ELSE run(agents.value) /\ agentCache' = agents.value
  /\ UNCHANGED <<disk, registry, edits, scopes, catalog, preferences>>

(***************************************************************************)
(* The capability catalogue (capability/build.py): built by the first      *)
(* request that asks, and kept.                                            *)
(***************************************************************************)
\* _discover_skills and _discover_recipes read the operator's pack, not the request's,
\* unless the operator has none.
DiscoversIn(scope) == IF Default # "" THEN Default ELSE scope.scenario

\* The agents and tools of the request's scenario, and what is discovered on disk;
\* without agents, no entry at all.  Either way it is kept.
build_catalog(agents, scope) ==
  IF agents = NoManifest THEN {NoManifest}
  ELSE {agents} \cup {Manifest(name, disk[name]) :
                        name \in {n \in {DiscoversIn(scope)} : OnDisk(n)}}

\* GET /api/catalog and /api/catalog/search, and the tool find_capability of an agent.
AsksCatalog(r) ==
  /\ swaps[r].at = "running"
  /\ LET agents == AgentsBlock(swaps[r].scope) IN
       IF catalog # Unbuilt THEN UNCHANGED <<manifests, blocks, catalog>>
       ELSE /\ manifests' = agents.manifests /\ blocks' = agents.cache
            /\ catalog' = build_catalog(agents.value, swaps[r].scope)
  /\ swaps' = [swaps EXCEPT ![r] = [at |-> "found", scenario |-> swaps[r].scenario,
                                    entries |-> catalog']]
  /\ UNCHANGED <<disk, registry, edits, scopes, agentCache, preferences>>

(***************************************************************************)
(* Showing a scenario (scenario/_metadata.py, routers/scenario.py): parts  *)
(* come from the cached manifest, parts from the pack's files of now.      *)
(***************************************************************************)
\* get_scenario_file, load_topology: the pack's file of now.
get_scenario_file(name) == IF OnDisk(name) THEN Manifest(name, disk[name]) ELSE NoManifest

\* _load_replay_tour_variant: the file the manifest names if there is one that parses,
\* else the steps the manifest holds; and their images.
Tour(meta, name) == IF meta.of \in WithFiles /\ Parsed(name) # NoManifest
                    THEN Parsed(name) ELSE meta

\* _load_replay_highlights: the same, tried first in the user's language.
Highlights(meta, name, localized) ==
  IF localized /\ meta.of \in Localized /\ Parsed(name) # NoManifest
  THEN Parsed(name) ELSE Tour(meta, name)

\* _load_graph_schema_summary: from the pack alone.
GraphSchema(name) == Parsed(name)

\* build_scenario_asset_url: the file's path, and the scenario it was found in.
AssetUrl(name, localized) == [scenario |-> name, localized |-> localized]

\* _resolve_locale_replay_url: the recording in the user's language, else the plain one.
ReplayUrl(meta, name, localized) ==
  IF meta.of \in WithFiles /\ get_scenario_file(name) # NoManifest
  THEN AssetUrl(name, localized /\ name \in Localized) ELSE NoUrl

Shows(r, meta, files, url) == Answer(r, swaps[r].scenario, {meta} \cup files, url)

\* GET /api/scenario.  The deployment record is read anew, and raises when half written.
ReadsScenario(r) ==
  /\ swaps[r].at = "running"
  /\ LET name == swaps[r].scope.scenario
         yaml == LoadYaml(name, FALSE)
         meta == yaml.value
     IN /\ manifests' = yaml.cache
        /\ IF meta = NoManifest THEN Shows(r, meta, {}, NoUrl)
           ELSE IF registry < 0 THEN Fail(r)
           ELSE \E localized \in BOOLEAN :
                  Shows(r, meta, {GraphSchema(name), Tour(meta, name),
                                    Highlights(meta, name, localized)},
                          ReplayUrl(meta, name, localized))
  /\ UNCHANGED <<disk, registry, edits, scopes, blocks, catalog, agentCache, preferences>>

\* GET /api/scenario/health and /topology: prompts and topology of the pack of now,
\* checked beside the cached manifest.
ReadsHealth(r) ==
  /\ swaps[r].at = "running"
  /\ LET yaml == LoadYaml(swaps[r].scope.scenario, FALSE) IN
       /\ manifests' = yaml.cache
       /\ Shows(r, yaml.value, {get_scenario_file(swaps[r].scope.scenario)}, NoUrl)
  /\ UNCHANGED <<disk, registry, edits, scopes, blocks, catalog, agentCache, preferences>>

\* The browser follows a URL another request was answered with: an image or a recording
\* is asked for without the header, so the scope may be that of another scenario.
FetchesAsset(r, s) ==
  /\ swaps[r].at = "running"
  /\ s # r /\ swaps[s].at = "done" /\ swaps[s].url # NoUrl
  /\ LET url == swaps[s].url
         from == IF url.scenario = "none" THEN swaps[r].scope.scenario ELSE url.scenario
     IN Answer(r, swaps[s].scenario, {get_scenario_file(from)}, NoUrl)
  /\ UNCHANGED <<disk, registry, edits, manifests, scopes, blocks, catalog, agentCache, preferences>>

(***************************************************************************)
(* What changes around the requests                                        *)
(***************************************************************************)
Edits(pack) ==
  /\ edits < MaxEdits /\ edits' = edits + 1
  /\ disk' \in {[disk EXCEPT ![pack] = v] : v \in {0, -1, edits + 2}}
  /\ UNCHANGED <<registry, manifests, scopes, blocks, catalog, agentCache, preferences, swaps>>
Deploys ==
  /\ edits < MaxEdits /\ edits' = edits + 1
  /\ registry' = IF registry < 0 THEN edits + 1 ELSE -1
  /\ UNCHANGED <<disk, manifests, scopes, blocks, catalog, agentCache, preferences, swaps>>

\* A restart drops the caches, the preferences and every request under way.
RestartsApp ==
  /\ edits < MaxEdits /\ edits' = edits + 1
  /\ manifests' = <<>> /\ scopes' = <<>> /\ blocks' = <<>> /\ catalog' = Unbuilt
  /\ agentCache' = NoManifest
  /\ preferences' = [u \in Users |-> ""]
  /\ swaps' = [r \in Swaps |-> IF swaps[r].at = "running" THEN [at |-> "failed"] ELSE swaps[r]]
  /\ UNCHANGED <<disk, registry>>

ScopeInit ==
  /\ disk \in [Packs -> {1, -1}] /\ registry = 0 /\ edits = 0
  /\ manifests = <<>> /\ scopes = <<>> /\ blocks = <<>> /\ catalog = Unbuilt
  /\ agentCache = NoManifest
  /\ preferences = [u \in Users |-> ""]
  /\ swaps = [r \in Swaps |-> [at |-> "new"]]

ScopeNext == \/ \E r \in Swaps : Enters(r) \/ Selects(r) \/ LoadsAgents(r) \/ RunsAgent(r)
             \/ \E r \in Swaps : AsksCatalog(r) \/ ReadsScenario(r) \/ ReadsHealth(r)
             \/ \E r, s \in Swaps : FetchesAsset(r, s)
             \/ \E p \in Packs : Edits(p)
             \/ Deploys \/ RestartsApp

ScopeSpec == ScopeInit /\ [][ScopeNext]_scopeVars

(***************************************************************************)
(* Properties                                                              *)
(***************************************************************************)
Of(manifest, scenario) == manifest.of \in {scenario, "none"}

\* _reader.py:108-110, "prevents a no-scope startup call from poisoning the cache": the
\* scope of a request, the manifest and the agents block it loads and the files it is
\* answered with are of its own scenario, an asset is of the scenario whose page named
\* it, whoever else swaps scenarios, evicts entries or edits packs meanwhile; and no
\* cache outgrows its bound.  The agent a chat runs and the catalogue are kept without
\* a scenario and are not meant here: they have AgentsFollowScenario and
\* CatalogFollowsScenario below.
ScenariosDoNotMix ==
  /\ \A r \in Swaps : swaps[r].at = "running" =>
       /\ swaps[r].scope.scenario = swaps[r].scenario
       /\ Of(swaps[r].scope.yaml, swaps[r].scenario)
       /\ Of(swaps[r].agents, swaps[r].scenario)
  /\ \A r \in Swaps : swaps[r].at = "done" =>
       \A m \in swaps[r].read : Of(m, swaps[r].scenario)
  /\ Len(manifests) <= ScopeMax /\ Len(scopes) <= ScopeMax /\ Len(blocks) <= AgentsMax


\* capability/build.py:5-6, "The catalog is cached per process and rebuilt on scenario
\* change": what a request finds is of its scenario.  It is not: nothing calls
\* invalidate_catalog, so every scenario is answered with the agents of the request
\* that asked first, and skills and recipes are the operator's from the start.
CatalogFollowsScenario ==
  \A r \in Swaps : swaps[r].at = "found" => \A m \in swaps[r].entries : Of(m, swaps[r].scenario)
=============================================================================
