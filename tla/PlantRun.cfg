SPECIFICATION FairSpec
CONSTANTS
    MaxPending = 1
    PipeSize = 1
    Steps = 2
    MaxLines = 1
    MaxOut = 3
INVARIANTS LinesInOrder NoLostWakeup UsedAnswersAreFirst
PROPERTIES LoopMeetsDeadline AbortedRunReturns
