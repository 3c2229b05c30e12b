SPECIFICATION FairSessionSpec
CONSTANTS
    PIPELINE_FAILURE_THRESHOLD = 2
    MAX_TRANSFER_RETRIES = 1
    Fallbacks = {"CALLBACK", "RETRY", "AI_RESUME"}
    PolicyLevels = {"G1", "G3"}
    CtiAnswers = {"ACCEPTED", "FAILED"}
    StoreErrors = {"mongo", "redis"}
    MaxConnects = 2
    MaxCrashes = 1
INVARIANT NoDanglingTurn
INVARIANT EndedNeverResumed
INVARIANT AcceptedIsFinal
PROPERTY HandlersReturn
CHECK_DEADLOCK FALSE
