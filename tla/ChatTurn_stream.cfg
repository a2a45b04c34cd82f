\* One request with a store, an LLM and a client that may do anything; two agents, so
\* that an abort of the specialist falls back on the orchestrator.
SPECIFICATION Spec
CONSTANTS
    Sends = {s1}
    Agents = {orchestrator, investigator}
    Orchestrator = orchestrator
    None = none
    MaxTokens = 3
    ScenarioResolved = TRUE
    LLMOpsConfigured = FALSE
    InputGuardrails = TRUE
    OutputGuardrails = TRUE
PROPERTY QuietAfterStop
PROPERTY TurnsImplementLifecycle
PROPERTY GenerationEnds
PROPERTY StopEndsGeneration
\* Every request may be over.
CHECK_DEADLOCK FALSE
