---------------------------- MODULE AgentCatalog ----------------------------
(***************************************************************************)
(* How an agent comes to be from configuration that changes on disk: the   *)
(* two caches of agentkit/core/config_loader.py, the registry with its     *)
(* clients, instructions and tools (registry.py, builder.py, prompt_loader *)
(* .py, tool_resolver.py), the cache of built agents in prepare_agent      *)
(* (agent_builder.py); and the app's own registry (agents/), whose agents  *)
(* block is read once, and which passes over what cannot be resolved.      *)
(* All of it is synchronous code of one event loop.                        *)
(***************************************************************************)
EXTENDS Integers, Sequences, FiniteSets

CONSTANTS Names,      \* agent ids
          Guests,     \* users that agents are prepared for
          MaxVersions,\* bound: versions of the configuration
          MaxMade,\* bound: clients made
          MaxAgents   \* bound: agent objects made

ASSUME CatalogAssumption == {MaxVersions, MaxMade, MaxAgents} \subseteq Nat

VARIABLES house,    \* "agentkit", or "app" for the app's own registry
          config,   \* the file: its version, whether it parses, its agents
          parsed,   \* _cached_configs
          block,    \* _cached_agents_blocks
          factory,  \* the registry's client factory: none, one client for all, one each
          clientOf, \* _clients, 0 for none
          made,     \* every client ever made: open, and its max_iterations
          agents,   \* every agent object prepare_agent knows: name, version, providers
          prepared, \* agent_cache of prepare_agent, 0 for none
          held,     \* the agent each guest's request runs, 0 for none
          last      \* the last build: its outcome, and what it read

files == <<house, config>>
caches == <<parsed, block>>
clientVars == <<factory, clientOf, made>>
built == <<agents, prepared, held, last>>
catalogVars == <<files, caches, clientVars, built>>

\* What a version may say of an agent: "limited" sets max_iterations; "tool" does so and
\* names a tool outside the allowed prefixes or one that is missing; "mute" does so and
\* has no prompt text.
Settings == {"absent", "plain", "limited", "tool", "mute"}
NoContent == [version |-> 0, agents |-> [n \in Names |-> "absent"]]
Content == [version |-> config.version, agents |-> config.agents]
OwnLimit == 10  \* the client's own max_iterations
Limit == 3     \* a limited agent's

(***************************************************************************)
(* The configuration                                                       *)
(***************************************************************************)
\* load_agent_config: by the file's mtime.  It raises for a file that does not parse.
Reads == config.parses \/ parsed.version = config.version
Loaded == IF Reads THEN Content ELSE parsed

\* Mutated: a configuration read anew leaves the agents block cached.
PoppedNever(cached) == cached
Popped(cached) == IF parsed.version = config.version THEN cached ELSE NoContent

\* load_agents_block: the cached one, without a look at the file.  The app's own comes
\* from the manifest and stays.
BlockNow == IF block.version # 0 THEN block ELSE Loaded
HasBlock == block.version # 0 \/ Reads

\* What else reads the configuration: tool names, the default agent.
ReadsConfig ==
  /\ house = "agentkit" /\ Reads
  /\ parsed' = Content /\ block' = Popped(block)
  /\ UNCHANGED <<files, clientVars, built>>

\* list_definitions, get_reflection_settings.
ReadsBlock ==
  /\ HasBlock /\ block' = BlockNow
  /\ parsed' = IF block.version # 0 THEN parsed ELSE Content
  /\ UNCHANGED <<files, clientVars, built>>

\* An edit may come in the middle of a write, and be unreadable then.
EditsConfig ==
  /\ config.version < MaxVersions
  /\ \E parses \in BOOLEAN, changed \in [Names -> Settings] :
       config' = [version |-> config.version + 1, parses |-> parses, agents |-> changed]
  /\ UNCHANGED <<house, caches, clientVars, built>>

(***************************************************************************)
(* The registry's clients                                                  *)
(***************************************************************************)
Cached == {clientOf[n] : n \in Names} \ {0}

\* _close_cached_clients_locked, best effort: a client without a close is passed over, one
\* that raises is logged, and of an async close only the coroutine is closed, unawaited.
\* So any of them may stay open.  The app's registry only forgets its clients.
Closed(shut) == IF house = "app" THEN made
                ELSE [c \in DOMAIN made |-> IF c \in shut THEN [made[c] EXCEPT !.open = FALSE] ELSE made[c]]
ForgetsClients == /\ \E shut \in SUBSET Cached : made' = Closed(shut)
                  /\ clientOf' = [n \in Names |-> 0]

Configures(one) ==
  /\ factory = "none" /\ factory' = one /\ ForgetsClients
  /\ UNCHANGED <<files, caches, built>>

\* invalidate_clients, and invalidate in the app's registry, which clears the block only.
Invalidates ==
  /\ IF house = "app" THEN UNCHANGED <<parsed, clientOf, made>>
     ELSE parsed' = NoContent /\ ForgetsClients
  /\ block' = NoContent
  /\ UNCHANGED <<files, factory, built>>

\* _get_client: a factory that holds one client hands that out, closed or not.
Shared == factory = "shared" /\ made # <<>>
ClientFor(n) == CASE clientOf[n] # 0 -> clientOf[n]
                  [] clientOf[n] = 0 /\ Shared -> 1
                  [] OTHER -> Len(made) + 1
WithClient(c) == IF c \in DOMAIN made THEN made ELSE Append(made, [open |-> TRUE, limit |-> OwnLimit])

(***************************************************************************)
(* Building                                                                *)
(***************************************************************************)
\* The app's resolve_tools leaves out what it cannot resolve.
Lenient == house = "app"

\* agentkit refuses an agent without text or with a tool it cannot resolve.
Buildable(setting) == Lenient \/ setting \in {"plain", "limited"}

Agent(n, version) == [name |-> n, version |-> version, providers |-> {"static"}]

\* max_iterations is set before the agent is built, and set back in any case.
Limited(clients, c, setting) ==
  [clients EXCEPT ![c].limit = IF setting = "plain" THEN @ ELSE Limit]
\* Mutated: set back only when the build succeeds.
RestoredOnSuccess(clients, c, setting) ==
  [Limited(clients, c, setting) EXCEPT ![c].limit = IF Buildable(setting) THEN OwnLimit ELSE @]
Restored(clients, c, setting) == [Limited(clients, c, setting) EXCEPT ![c].limit = OwnLimit]

Outcome(o, used) == last' = [outcome |-> o, used |-> used, disk |-> config.version,
                             known |-> parsed.version]

\* resolve_agent_cfg: nothing to read, or no such agent; the block stays cached then.
Unresolved(n) ==
  \/ ~HasBlock /\ Outcome("error", 0) /\ UNCHANGED caches
  \/ /\ HasBlock /\ BlockNow.agents[n] = "absent" /\ Outcome("unknown", BlockNow.version)
     /\ block' = BlockNow /\ parsed' = IF block.version # 0 THEN parsed ELSE Content

\* get_prompts_dir reads the configuration again, which drops an old block behind the
\* agent's back; the app has no such call.
ReadsAgain(n) ==
  /\ HasBlock /\ BlockNow.agents[n] # "absent"
  /\ IF house = "agentkit" /\ Reads THEN parsed' = Content /\ block' = Popped(BlockNow)
     ELSE block' = BlockNow /\ UNCHANGED parsed
Refused == factory = "none" \/ (house = "agentkit" /\ ~Reads)

\* The client, and the agent if its text and its tools are there.
Clients(n) ==
  /\ ClientFor(n) <= MaxMade
  /\ clientOf' = [clientOf EXCEPT ![n] = ClientFor(n)]
  /\ made' = Restored(WithClient(ClientFor(n)), ClientFor(n), BlockNow.agents[n])
  /\ UNCHANGED factory

\* The steps of build up to the agent; "Succeeds" holds when there is one.
Succeeds(n) == HasBlock /\ ~Refused /\ Buildable(BlockNow.agents[n]) /\ BlockNow.agents[n] # "absent"
BuildSteps(n) ==
  \/ Unresolved(n) /\ UNCHANGED clientVars
  \/ ReadsAgain(n) /\ Refused /\ Outcome("error", BlockNow.version) /\ UNCHANGED clientVars
  \/ /\ ReadsAgain(n) /\ ~Refused /\ Clients(n)
     /\ Outcome(IF Succeeds(n) THEN "built" ELSE "error", BlockNow.version)

BuildsAgent(n) == BuildSteps(n) /\ UNCHANGED <<files, agents, prepared, held>>

(***************************************************************************)
(* prepare_agent                                                           *)
(***************************************************************************)
\* A shallow copy with the providers of the request.
ForGuest(kept, a, g) ==
  /\ Len(kept) < MaxAgents
  /\ agents' = Append(kept, [kept[a] EXCEPT !.providers = @ \cup {g}])
  /\ held' = [held EXCEPT ![g] = Len(kept) + 1]

\* What was built is kept for its id, whatever the configuration says later.
Prepares(n, g) ==
  /\ house = "agentkit" /\ held[g] = 0
  /\ \/ /\ prepared[n] # 0 /\ ForGuest(agents, prepared[n], g)
        /\ UNCHANGED <<caches, clientVars, prepared, last>>
     \/ /\ prepared[n] = 0 /\ BuildSteps(n)
        /\ IF Succeeds(n)
           THEN /\ prepared' = [prepared EXCEPT ![n] = Len(agents) + 1]
                /\ ForGuest(Append(agents, Agent(n, BlockNow.version)), Len(agents) + 1, g)
           ELSE UNCHANGED <<agents, prepared, held>>
  /\ UNCHANGED files

CatalogInit ==
  /\ house \in {"agentkit", "app"}
  /\ config = [version |-> 1, parses |-> TRUE, agents |-> [n \in Names |-> "plain"]]
  /\ parsed = NoContent /\ block = NoContent /\ factory = "none"
  /\ clientOf = [n \in Names |-> 0] /\ made = <<>> /\ agents = <<>>
  /\ prepared = [n \in Names |-> 0] /\ held = [g \in Guests |-> 0]
  /\ last = [outcome |-> "none", used |-> 0, disk |-> 0, known |-> 0]

CatalogNext ==
  \/ ReadsConfig \/ ReadsBlock \/ EditsConfig \/ Invalidates
  \/ \E one \in {"shared", "each"} : Configures(one)
  \/ \E n \in Names : BuildsAgent(n) \/ \E g \in Guests : Prepares(n, g)

(***************************************************************************)
(* Properties                                                              *)
(***************************************************************************)
\* agentkit follows its configuration: an agent is built from the present file, or at
\* most once from the one before, and then nothing had read the file since its change.
\* What runs for a guest carries nobody else's providers; agents share a client only
\* when there is one for all; a client keeps its own limit; and, unless there is one for
\* all, the registry never hands out a client it has closed.  Not said: that a client it
\* has forgotten is closed (_close_cached_clients_locked is best effort).
CatalogFollowsConfig ==
  /\ house = "agentkit" /\ last.outcome = "built" /\ last.used < last.disk =>
       last.known < last.disk
  /\ \A g \in Guests : held[g] # 0 => agents[held[g]].providers = {"static", g}
  /\ \A m, n \in Names : m # n /\ clientOf[m] = clientOf[n] => clientOf[m] = 0 \/ factory = "shared"
  /\ \A c \in DOMAIN made : made[c].limit = OwnLimit
  /\ house = "agentkit" /\ factory # "shared" =>
       \A c \in Cached : made[c].open
=============================================================================
