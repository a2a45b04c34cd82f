------------------------------ MODULE Platform ------------------------------
(***************************************************************************)
(* The parts of the server that meet only in its process: what a request   *)
(* passes through before and behind its turn (authentication, scenario     *)
(* scope, agents, context, tools, passes of the answer), the sessions it   *)
(* works on, and what watches it (broadcasts, health).  They share no      *)
(* variable, and no step of one reads another, so a behaviour follows the  *)
(* part chosen at its start while the others keep one of their first       *)
(* states.                                                                 *)
(***************************************************************************)
EXTENDS UserSeeding, Channels, ServiceHealth, Auth, TurnContext, ScenarioScope,
        ToolAdapters, RunEngine, SessionsApi, AgentCatalog,
        LlmServices, OperatorTools

VARIABLE side   \* the part this behaviour follows

Sides == {"seeding", "channels", "health", "auth", "context", "scope", "adapters",
          "engine", "sessions", "catalog", "llm", "operator"}

platformVars == <<side, vars, channelVars, healthVars, authVars, contextVars, scopeVars,
                  adapterVars, engineVars, apiVars, catalogVars, llmVars, operatorVars>>

\* A part the behaviour does not follow keeps one of its first states.
Or(part, A) == IF side = part THEN TRUE ELSE A

PlatformInit ==
  /\ side \in Sides
  /\ Or("seeding", manual = FALSE) /\ Init
  /\ Or("channels", form = "log") /\ ChannelInit
  /\ Or("health", live = [s \in Services |-> "connected"]) /\ HealthInit
  /\ Or("auth", published = Kids /\ tenantId = "common" /\ authEnabled = TRUE) /\ AuthInit
  /\ Or("context", durable = TRUE /\ stored = <<>>) /\ ContextInit
  /\ Or("scope", disk = [pack \in Packs |-> 1]) /\ ScopeInit
  /\ Or("adapters", kind = "search") /\ AdapterInit
  /\ EngineInit /\ Or("engine", ~engine.reflecting /\ ~engine.resolver)
  /\ ApiInit /\ Or("sessions", Len(objects) = 1)
  /\ Or("catalog", house = "app") /\ CatalogInit
  /\ Or("llm", provider = "mock" /\ aborting = FALSE) /\ LlmInit
  /\ OperatorInit

\* A step of the part that is followed, and no other part moves.
Step(part, A) == side = part /\ A

PlatformNext ==
  /\ \/ Step("seeding", Next) \/ Step("channels", ChannelNext) \/ Step("health", HealthNext)
     \/ Step("auth", AuthNext) \/ Step("context", ContextNext) \/ Step("scope", ScopeNext)
     \/ Step("adapters", AdapterNext) \/ Step("engine", EngineNext)
     \/ Step("sessions", ApiNext) \/ Step("catalog", CatalogNext)
     \/ Step("llm", LlmNext) \/ Step("operator", OperatorNext)
  /\ Or("seeding", UNCHANGED vars) /\ Or("channels", UNCHANGED channelVars)
  /\ Or("health", UNCHANGED healthVars) /\ Or("auth", UNCHANGED authVars)
  /\ Or("context", UNCHANGED contextVars) /\ Or("scope", UNCHANGED scopeVars)
  /\ Or("adapters", UNCHANGED adapterVars) /\ Or("engine", UNCHANGED engineVars)
  /\ Or("sessions", UNCHANGED apiVars) /\ Or("catalog", UNCHANGED catalogVars)
  /\ Or("llm", UNCHANGED llmVars) /\ Or("operator", UNCHANGED operatorVars)
  /\ UNCHANGED side

PlatformSpec == PlatformInit /\ [][PlatformNext]_platformVars
=============================================================================
