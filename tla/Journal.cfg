\* Two writers, three archived parts, so that the oldest part is thrown away with
\* the fifth event; one writer or one write may fail.
SPECIFICATION JournalFairSpec
CONSTANTS
    Writers = {w1, w2}
    MaxFiles = 3
    MaxLines = 1
    MaxEvents = 5
    MaxFaults = 1
    NoWriter = NoWriter
    Missing = Missing
    Torn = Torn
INVARIANTS ChainIsNewestEvents
PROPERTIES LockComesFree
CHECK_DEADLOCK FALSE
