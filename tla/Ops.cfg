SPECIFICATION FairSpec
CONSTANTS Attempts = 2 MaxIterations = 1 MaxFaults = 2 Campaigns = 2
CONSTANT Tasks <- BenchTasks
INVARIANTS SeededStart RestoredTruth VerdictsAreTrue CampaignAccount
PROPERTIES EveryAttemptEnds
CHECK_DEADLOCK FALSE
