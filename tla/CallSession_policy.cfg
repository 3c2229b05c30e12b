SPECIFICATION SessionSpec
CONSTANTS
    PIPELINE_FAILURE_THRESHOLD = 3
    MAX_TRANSFER_RETRIES = 1
    Fallbacks = {"CALLBACK"}
    PolicyLevels = {"G4"}
    CtiAnswers = {"FAILED"}
    StoreErrors = {}
    MaxConnects = 1
    MaxCrashes = 0
INVARIANT PolicyBlockTransfers
CHECK_DEADLOCK FALSE
