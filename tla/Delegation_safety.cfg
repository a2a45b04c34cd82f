\* Two delegations at once, the three attempts of the code. The calls end.
SPECIFICATION Spec
CONSTANTS
    Tasks = {t1, t2}
    MaxRetries = 3
    StoreFails = TRUE
SYMMETRY TaskSymmetry
INVARIANT AnswerIsOneAttempt
CHECK_DEADLOCK FALSE
