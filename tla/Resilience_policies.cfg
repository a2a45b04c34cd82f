\* Three callers, the threshold of every breaker in the code (3), a cooldown that
\* doubles twice and then meets its cap at no power of two; the provider's default
\* queue of one model with its four retries; a loop over three models with two retries
\* and two revivals.  No symmetry, because liveness is checked.
SPECIFICATION ResilienceSpec
CONSTANTS
    Calls = {c1, c2, c3}
    Threshold = 3
    BaseCooldown = 1
    MaxCooldown = 5
    AgentModels = 1
    AgentRetries = 4
    AgentUpdates = 4
    Models = 3
    MaxRetries = 2
    MaxRevivals = 2
    MaxUpdates = 2
    BlockTools = TRUE
INVARIANTS HalfOpenHasProbe CallsClosed
PROPERTIES Recovers RunImplementsRetries LoopImplementsFallback LoopEnds
\* The provider's run and the loop end.
CHECK_DEADLOCK FALSE
