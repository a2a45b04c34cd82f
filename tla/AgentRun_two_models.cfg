\* A queue with one fallback model. The run ends.
SPECIFICATION AgentSpec
CONSTANTS
    AgentModels = 2
    AgentRetries = 4
    AgentUpdates = 1
INVARIANT DoneMeansAnswered
CHECK_DEADLOCK FALSE
