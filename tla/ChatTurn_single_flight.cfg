SPECIFICATION Spec
CONSTANTS
    Sends = {s1, s2}
    Agents = {orchestrator}
    Orchestrator = orchestrator
    None = none
    MaxTokens = 1
    ScenarioResolved = TRUE
    LLMOpsConfigured = FALSE
    InputGuardrails = FALSE
    OutputGuardrails = FALSE
INVARIANT SingleFlight
\* Every request may be over.
CHECK_DEADLOCK FALSE
