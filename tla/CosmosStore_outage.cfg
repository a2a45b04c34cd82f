\* A turn with the code's two retries, a rename, a reader and a delete in an outage.
SPECIFICATION FairSpec
CONSTANTS
    Turns = {t1}
    Renames = {r1}
    Reads = {g1}
    Deletes = {d1}
    SessionDoc = SessionDoc
    MaxRetries = 2
    Faults = TRUE
    Cancels = TRUE
    Threshold = 3
    BaseCooldown = 1
    MaxCooldown = 2
INVARIANTS CountNeverAhead AckedIsStored
PROPERTIES WritesEnd
