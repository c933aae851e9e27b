\* Two callers on one connection and two files, with one reset between.
SPECIFICATION Spec
CONSTANTS
    Callers = {c1, c2}
    Files = {f1, f2}
    MaxBytes = 2
    MaxFiles = 2
    MaxCalls = 1
    Period = 2
    Idle = 1
    MaxTime = 3
    MaxOps = 3
    MaxSessions = 2
    NIL = NIL
INVARIANTS OneLiveSession QuotaKept
PROPERTIES DenialsAreEarned
CHECK_DEADLOCK FALSE
