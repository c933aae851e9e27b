SPECIFICATION FairSpec
CONSTANTS
    MaxPending = 1
    PipeSize = 1
    Steps = 2
    MaxLines = 1
    MaxOut = 2
PROPERTY RunReturns
