\* Two agents, one serial connection with one reader, fair threads.
SPECIFICATION FairSpec
CONSTANTS
    Agents = {a1, a2}
    Names = {n1}
    Transports = {t1}
    Readers = {r1}
    Kinds = {"serial"}
    MaxConns = 1
    MaxRx = 1
    NIL = NIL
PROPERTIES CloseCompletes DroppedReaderEnds
