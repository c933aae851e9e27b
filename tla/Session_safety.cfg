\* Two agents on two names of two kinds, of which one at a time may be open.
SPECIFICATION Spec
CONSTANTS
    Agents = {a1, a2}
    Names = {n1, n2}
    Transports = {t1, t2}
    Readers = {r1, r2}
    Kinds = {"serial", "mqtt"}
    MaxConns = 1
    MaxRx = 1
    NIL = NIL
SYMMETRY Symmetry
INVARIANTS RegistriesAgree OneReadOwner RegistrationsAreLive NoThief NoLostPort
