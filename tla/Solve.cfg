SPECIFICATION Spec
CONSTANTS MaxAttempts = 2 MaxIterations = 3 LlmTries = 2 Renames = 2 Campaigns = 2
INVARIANTS NothingStale CountsOnlyFullTries JournalHasResults
CHECK_DEADLOCK FALSE
