--------------------------- MODULE SessionProofs ---------------------------
(***************************************************************************)
(* Session, proved for every number of agents, names, transports and       *)
(* readers, every kind and every connection limit.                         *)
(***************************************************************************)
EXTENDS Session, FiniteSetTheorems, TLAPS

-----------------------------------------------------------------------------
(* Calls. *)

\* A call that names a connection names one of Names.
LEMMA CallFields ==
  ASSUME TypeOK, NEW a \in Agents
  PROVE  /\ call[a].op \in Ops \cup {"none"}
         /\ call[a].op \notin {"none", "close"} =>
               /\ call[a].conn \in Names
               /\ call[a].kind \in Kinds
         /\ call[a] \in Call
<1>1. call[a] \in Call
  BY DEF TypeOK
<1>2. CASE call[a] \in [op : Ops \ {"close"}, conn : Names, kind : Kinds]
  BY <1>1, <1>2
<1>3. CASE call[a] \in {NoCall, CloseCall}
  BY <1>1, <1>3 DEF NoCall, CloseCall, Ops
<1>4. QED
  BY <1>1, <1>2, <1>3 DEF Call

\* Whoever works on a port has captured one.
PortCaptured == \A a \in Agents :
    /\ pc[a] \in {"io", "wait_io", "close_port"} => tr[a] # NIL
    /\ pc[a] = "join" /\ call[a].op # "reader_stop" => tr[a] # NIL
    /\ pc[a] = "wait_io" => rd[a] # NIL

Closing == {"close_typed", "close_transport"}
Owns    == {"transfer", "monitor"}

\* The session lock is kept exactly by the agent that joins a reader under it;
\* until it lets go, the reader it stops stays attached, and a name it closes
\* gets no new one.
LockHeldToJoin == \A a \in Agents : pc[a] = "join" <=> slock = a
JoinUnderLock == \A a \in Agents : pc[a] = "join" =>
    /\ call[a].op \in Closing \cup {"reader_stop"}
    /\ call[a].op = "reader_stop" => rd[a] # NIL /\ readers[call[a].conn] = rd[a]
    /\ call[a].op \in Closing => readers[call[a].conn] = NIL

\* Only writes and resets queue for an io_lock, only an exchange has to leave.
CallInStep == \A a \in Agents :
    /\ pc[a] = "wait_io" => call[a].op \in {"write", "reset"}
    /\ pc[a] = "leave" => call[a].op \in Owns

\* A transport object is opened once and serves one name; a reader drains a
\* transport that was opened, and is attached only after its start.
OpenedOnce ==
    /\ \A n \in Names : transports[n] # NIL => port[transports[n]] # "new"
    /\ \A n, m \in Names : transports[n] # NIL /\ transports[n] = transports[m] => n = m
    /\ \A a \in Agents : pc[a] \in {"io", "wait_io"} => port[tr[a]] # "new"
StartedOnce ==
    /\ \A r \in Readers : rpc[r] = "new" <=> rbase[r] = NIL
    /\ \A r \in Readers : rbase[r] # NIL => port[rbase[r]] # "new"
    /\ \A n \in Names : readers[n] # NIL => rpc[readers[n]] # "new"

\* An exchange works on the port of the name it registered, if anyone's.
ExchangeOnOwnName == \A a \in Agents, n \in Names :
    pc[a] = "io" /\ call[a].op \in Owns /\ transports[n] = tr[a] => n = call[a].conn

\* A reader thread that still runs on the port of an open name is that name's
\* reader, or the name is being closed under the lock.
LiveReaderAttached == \A r \in Readers, n \in Names :
    rpc[r] \notin {"new", "dead"} /\ rbase[r] = transports[n] =>
       \/ readers[n] = r
       \/ \E a \in Agents : pc[a] = "join" /\ call[a].op \in Closing /\ call[a].conn = n

LEMMA TypeStep ==
  ASSUME TypeOK, PortCaptured, [Next]_vars
  PROVE  TypeOK'
<1> USE DEF TypeOK, maps, gates, threads, sweep, ports, captured
<1>1. ASSUME NEW a \in Agents, Begin(a) PROVE TypeOK'
  <2>1. call' \in [Agents -> Call]
    <3>1. \A o \in Ops : KindsOf(o) \subseteq Kinds
      BY SessionAssumption DEF KindsOf
    <3>2. PICK o \in Ops \ {"close"}, n \in Names : \E k \in KindsOf(o) :
             call' = [call EXCEPT ![a] = [op |-> o, conn |-> n, kind |-> k]]
      BY <1>1 DEF Begin
    <3>3. QED
      BY <3>1, <3>2 DEF Call
  <2>2. pc' \in [Agents -> {"idle", "gate", "wait_io", "io", "leave", "join",
                          "close_port", "sweep", "sweep_join"}]
    BY <1>1 DEF Begin, GoTo
  <2>3. QED
    BY <1>1, <2>1, <2>2 DEF Begin
<1>2. ASSUME NEW a \in Agents, BeginClose(a) PROVE TypeOK'
  BY <1>2 DEF BeginClose, GoTo, Call
<1>3. ASSUME NEW a \in Agents, Refuse(a) PROVE TypeOK'
  BY <1>3 DEF Refuse, Return, Call
<1>4. ASSUME NEW a \in Agents, Open(a) PROVE TypeOK'
  BY <1>4, CallFields DEF Open, Return, Call, AtGate
<1>5. ASSUME NEW a \in Agents, OpenFails(a) PROVE TypeOK'
  BY <1>5 DEF OpenFails, Return, Call
<1>6. ASSUME NEW a \in Agents, NEW o \in {"write", "reset"}, WriteGate(a, o) PROVE TypeOK'
  BY <1>6, CallFields DEF WriteGate, AtGate, Capture, GoTo
<1>7. ASSUME NEW a \in Agents, AcquireIo(a) PROVE TypeOK'
  BY <1>7 DEF AcquireIo, GoTo
<1>8. ASSUME NEW a \in Agents, ReadGate(a) PROVE TypeOK'
  BY <1>8, CallFields DEF ReadGate, AtGate, Capture, GoTo
<1>9. ASSUME NEW a \in Agents, TransferGate(a) \/ MonitorGate(a) PROVE TypeOK'
  BY <1>9, CallFields, SMTT(40) DEF TransferGate, MonitorGate, AtGate, Capture, GoTo
<1>10. ASSUME NEW a \in Agents, EndIo(a) PROVE TypeOK'
  BY <1>10 DEF EndIo, ReleaseIo, Return, GoTo, Call
<1>11. ASSUME NEW a \in Agents, Leave(a) PROVE TypeOK'
  BY <1>11 DEF Leave, Return, Call
<1>12. ASSUME NEW a \in Agents, StartReader(a) PROVE TypeOK'
  BY <1>12, CallFields DEF StartReader, AtGate, SpareReaders, Return, Call
<1>13. ASSUME NEW a \in Agents, StopReader(a) PROVE TypeOK'
  BY <1>13, CallFields DEF StopReader, AtGate, Capture, GoTo
<1>14. ASSUME NEW a \in Agents, StopReturns(a) PROVE TypeOK'
  BY <1>14 DEF StopReturns, PopIfConfirmed, PopReader, Return, Call
<1>15. ASSUME NEW a \in Agents, CloseGate(a) PROVE TypeOK'
  BY <1>15, CallFields DEF CloseGate, AtGate, Capture, GoTo
<1>16. ASSUME NEW a \in Agents, CloseDrops(a) PROVE TypeOK'
  <2>1. /\ transports' \in [Names -> Transports \cup {NIL}]
        /\ kinds' \in [Names -> Kinds \cup {NIL}]
        /\ serial_base' \in [Names -> Transports \cup {NIL}]
        /\ slock' = NIL
    BY <1>16 DEF CloseDrops, Drop, DropName
  <2>2. CASE call[a].op = "close_typed"
    <3>1. port' \in [Transports -> {"new", "open", "lost", "stuck", "closed"}]
      BY <1>16, <2>2 DEF CloseDrops, Drop, ClosePort
    <3>2. /\ pc' \in [Agents -> {"idle", "gate", "wait_io", "io", "leave", "join",
                               "close_port", "sweep", "sweep_join"}]
          /\ call' \in [Agents -> Call]
          /\ tr' \in [Agents -> Transports \cup {NIL}]
          /\ rd' \in [Agents -> Readers \cup {NIL}]
      BY <1>16, <2>2 DEF CloseDrops, Drop, Return, Call
    <3>3. QED
      BY <1>16, <2>1, <3>1, <3>2 DEF CloseDrops
  <2>3. CASE call[a].op # "close_typed"
    BY <1>16, <2>1, <2>3 DEF CloseDrops, Drop, GoTo
  <2>4. QED
    BY <2>2, <2>3
<1>17. ASSUME NEW a \in Agents, CloseTransportEnds(a) PROVE TypeOK'
  BY <1>17, ZenonT(40) DEF CloseTransportEnds, ClosePort, Return, Call
<1>18. ASSUME NEW a \in Agents, CloseSnapshot(a) PROVE TypeOK'
  BY <1>18 DEF CloseSnapshot, Attached, GoTo
<1>19. ASSUME NEW a \in Agents, SweepStops(a) \/ SweepJoined(a) PROVE TypeOK'
  <2>1. CASE SweepStops(a)
    BY <2>1 DEF SweepStops, GoTo
  <2>2. CASE SweepJoined(a)
    BY <2>2 DEF SweepJoined, GoTo
  <2>3. QED
    BY <1>19, <2>1, <2>2
<1>20. ASSUME NEW a \in Agents, SweepCloses(a) PROVE TypeOK'
  BY <1>20 DEF SweepCloses, ClosePort
<1>21. ASSUME NEW a \in Agents, CloseReturns(a) PROVE TypeOK'
  BY <1>21 DEF CloseReturns, Return, Call
<1>22. ASSUME NEW r \in Readers, ReaderPolls(r) PROVE TypeOK'
  BY <1>22 DEF ReaderPolls
<1>23. ASSUME NEW r \in Readers, ReaderLocks(r) PROVE TypeOK'
  BY <1>23 DEF ReaderLocks
<1>24. ASSUME NEW r \in Readers, ReaderReads(r) PROVE TypeOK'
  BY <1>24, SessionAssumption DEF ReaderReads
<1>25. ASSUME NEW t \in Transports, Unplug(t) PROVE TypeOK'
  BY <1>25 DEF Unplug
<1>26. CASE UNCHANGED vars
  BY <1>26 DEF vars
<1>27. QED
  BY <1>1, <1>2, <1>3, <1>4, <1>5, <1>6, <1>7, <1>8, <1>9, <1>10, <1>11, <1>12, <1>13,
     <1>14, <1>15, <1>16, <1>17, <1>18, <1>19, <1>20, <1>21, <1>22, <1>23, <1>24,
     <1>25, <1>26
  DEF Next, AgentStep, ReaderStep

-----------------------------------------------------------------------------
(* Each part of the invariant over a step. *)

SessionInv ==
    /\ TypeOK
    /\ PortCaptured
    /\ LockHeldToJoin
    /\ JoinUnderLock
    /\ CallInStep
    /\ OpenedOnce
    /\ StartedOnce
    /\ ExchangeOnOwnName
    /\ LiveReaderAttached
    /\ RegistriesAgree
    /\ OneReadOwner
    /\ RegistrationsAreLive
    /\ NoThief

\* The steps that neither move an agent nor touch a registry.
ThreadOrPortStep == (\E r \in Readers : ReaderStep(r)) \/ (\E t \in Transports : Unplug(t))

LEMMA ThreadFrame ==
  ASSUME ThreadOrPortStep
  PROVE  UNCHANGED <<closed, slock, maps, gates, pc, captured, sweep, rbase, rstop>>
<1>1. ASSUME NEW r \in Readers, ReaderPolls(r) \/ ReaderLocks(r) \/ ReaderReads(r)
      PROVE  UNCHANGED <<closed, slock, maps, gates, pc, captured, sweep, rbase, rstop>>
  BY <1>1 DEF ReaderPolls, ReaderLocks, ReaderReads
<1>2. ASSUME NEW t \in Transports, Unplug(t)
      PROVE  UNCHANGED <<closed, slock, maps, gates, pc, captured, sweep, rbase, rstop>>
  BY <1>2 DEF Unplug, threads
<1>3. QED
  BY <1>1, <1>2 DEF ThreadOrPortStep, ReaderStep

LEMMA CallStep ==
  ASSUME SessionInv, [Next]_vars
  PROVE  PortCaptured' /\ CallInStep'
<1> DEFINE P == PortCaptured /\ CallInStep
<1> USE DEF TypeOK, PortCaptured, CallInStep, Owns, Closing
<1> TypeOK /\ PortCaptured /\ CallInStep
  BY DEF SessionInv
<1>1. ASSUME NEW a \in Agents, Begin(a) \/ BeginClose(a) PROVE P'
  BY <1>1 DEF Begin, BeginClose, GoTo
<1>2. ASSUME NEW a \in Agents, Refuse(a) \/ Open(a) \/ OpenFails(a) \/ StartReader(a) PROVE P'
  BY <1>2 DEF Refuse, Open, OpenFails, StartReader, Return
<1>3. ASSUME NEW a \in Agents, NEW o \in {"write", "reset"}, WriteGate(a, o) PROVE P'
  <2>1. tr'[a] # NIL
    BY <1>3, CallFields DEF WriteGate, AtGate, Capture, MayWrite, IsSerial, IsOpen
  <2>2. QED
    BY <1>3, <2>1 DEF WriteGate, AtGate, Capture, GoTo
<1>4. ASSUME NEW a \in Agents, AcquireIo(a) PROVE P'
  BY <1>4 DEF AcquireIo, GoTo, captured
<1>5. ASSUME NEW a \in Agents, ReadGate(a) PROVE P'
  BY <1>5, CallFields DEF ReadGate, AtGate, Capture, GoTo, MayRead, MayWrite, IsSerial, IsOpen,
     MayClose
<1>6. ASSUME NEW a \in Agents, TransferGate(a) \/ MonitorGate(a) PROVE P'
  BY <1>6, CallFields DEF TransferGate, MonitorGate, AtGate, Capture, GoTo, MayOwn, IsOpen
<1>7. ASSUME NEW a \in Agents, EndIo(a) PROVE P'
  BY <1>7 DEF EndIo, GoTo, Return, captured
<1>8. ASSUME NEW a \in Agents, Leave(a) \/ StopReturns(a) PROVE P'
  BY <1>8 DEF Leave, StopReturns, Return
<1>9. ASSUME NEW a \in Agents, StopReader(a) PROVE P'
  BY <1>9 DEF StopReader, AtGate, Capture, GoTo
<1>10. ASSUME NEW a \in Agents, CloseGate(a) PROVE P'
  BY <1>10, CallFields DEF CloseGate, AtGate, MayClose, IsOpen, Capture, GoTo
<1>11. ASSUME NEW a \in Agents, CloseDrops(a) PROVE P'
  BY <1>11 DEF CloseDrops, Drop, Return, GoTo, captured
<1>12. ASSUME NEW a \in Agents, CloseTransportEnds(a) \/ CloseReturns(a) PROVE P'
  BY <1>12 DEF CloseTransportEnds, CloseReturns, Return
<1>13. ASSUME NEW a \in Agents, CloseSnapshot(a) PROVE P'
  BY <1>13 DEF CloseSnapshot, GoTo, captured
<1>14. ASSUME NEW a \in Agents, SweepStops(a) \/ SweepJoined(a) PROVE P'
  BY <1>14 DEF SweepStops, SweepJoined, GoTo
<1>15. ASSUME NEW a \in Agents, SweepCloses(a) PROVE P'
  BY <1>15 DEF SweepCloses, captured
<1>16. CASE ThreadOrPortStep
  BY <1>16, ThreadFrame DEF captured
<1>17. CASE UNCHANGED vars
  BY <1>17 DEF vars, captured
<1>18. QED
  BY <1>1, <1>2, <1>3, <1>4, <1>5, <1>6, <1>7, <1>8, <1>9, <1>10, <1>11, <1>12, <1>13,
     <1>14, <1>15, <1>16, <1>17
  DEF Next, AgentStep, ThreadOrPortStep

LEMMA JoinStep ==
  ASSUME SessionInv, [Next]_vars
  PROVE  LockHeldToJoin' /\ JoinUnderLock'
<1> DEFINE P == LockHeldToJoin /\ JoinUnderLock
<1> USE SessionAssumption DEF TypeOK, LockHeldToJoin, JoinUnderLock, Closing
<1> TypeOK /\ LockHeldToJoin /\ JoinUnderLock
  BY DEF SessionInv
<1>1. ASSUME NEW a \in Agents, Begin(a) \/ BeginClose(a) PROVE P'
  BY <1>1 DEF Begin, BeginClose, GoTo, maps
<1>2. ASSUME NEW a \in Agents, Refuse(a) \/ Open(a) \/ OpenFails(a) PROVE P'
  BY <1>2 DEF Refuse, Open, OpenFails, AtGate, Return, maps
<1>3. ASSUME NEW a \in Agents, StartReader(a) PROVE P'
  BY <1>3 DEF StartReader, AtGate, Return
<1>4. ASSUME NEW a \in Agents, NEW o \in {"write", "reset"}, WriteGate(a, o) PROVE P'
  BY <1>4 DEF WriteGate, AtGate, Capture, GoTo, maps
<1>5. ASSUME NEW a \in Agents, AcquireIo(a) PROVE P'
  BY <1>5 DEF AcquireIo, GoTo, captured, maps
<1>6. ASSUME NEW a \in Agents, ReadGate(a) \/ TransferGate(a) \/ MonitorGate(a) PROVE P'
  BY <1>6 DEF ReadGate, TransferGate, MonitorGate, AtGate, Capture, GoTo, maps
<1>7. ASSUME NEW a \in Agents, EndIo(a) PROVE P'
  BY <1>7 DEF EndIo, InIo, GoTo, Return, captured, maps
<1>8. ASSUME NEW a \in Agents, Leave(a) PROVE P'
  BY <1>8 DEF Leave, Return, maps
<1>9. ASSUME NEW a \in Agents, StopReader(a) PROVE P'
  BY <1>9 DEF StopReader, AtGate, Capture, GoTo, maps
<1>10. ASSUME NEW a \in Agents, StopReturns(a) PROVE P'
  BY <1>10 DEF StopReturns, PopIfConfirmed, PopReader, Return
<1>11. ASSUME NEW a \in Agents, CloseGate(a) PROVE P'
  BY <1>11, CallFields DEF CloseGate, AtGate, Capture, GoTo
<1>12. ASSUME NEW a \in Agents, CloseDrops(a) PROVE P'
  BY <1>12 DEF CloseDrops, Drop, DropName, Return, GoTo, captured
<1>13. ASSUME NEW a \in Agents, CloseTransportEnds(a) \/ CloseReturns(a) PROVE P'
  BY <1>13 DEF CloseTransportEnds, CloseReturns, Return, maps
<1>14. ASSUME NEW a \in Agents, CloseSnapshot(a) PROVE P'
  BY <1>14 DEF CloseSnapshot, AtGate, GoTo, captured
<1>15. ASSUME NEW a \in Agents, SweepStops(a) \/ SweepJoined(a) PROVE P'
  BY <1>15 DEF SweepStops, SweepJoined, GoTo, maps
<1>16. ASSUME NEW a \in Agents, SweepCloses(a) PROVE P'
  BY <1>16 DEF SweepCloses, captured, maps
<1>17. CASE ThreadOrPortStep
  BY <1>17, ThreadFrame DEF captured, maps
<1>18. CASE UNCHANGED vars
  BY <1>18 DEF vars, captured, maps
<1>19. QED
  BY <1>1, <1>2, <1>3, <1>4, <1>5, <1>6, <1>7, <1>8, <1>9, <1>10, <1>11, <1>12, <1>13,
     <1>14, <1>15, <1>16, <1>17, <1>18
  DEF Next, AgentStep, ThreadOrPortStep

\* What a step may do to a port: open a new one, close one or unplug one.
LEMMA PortsStayOpened ==
  ASSUME TypeOK, [Next]_vars, NEW t \in Transports, port[t] # "new"
  PROVE  port'[t] # "new"
<1> USE DEF TypeOK, ports, ClosePort
<1>1. ASSUME NEW a \in Agents, Begin(a) \/ BeginClose(a) PROVE port'[t] # "new"
  BY <1>1 DEF Begin, BeginClose
<1>2. ASSUME NEW a \in Agents, AgentStep(a) PROVE port'[t] # "new"
  <2>1. CASE Open(a)
    BY <2>1 DEF Open
  <2>2. CASE CloseDrops(a)
    BY <2>2 DEF CloseDrops, Drop
  <2>3. CASE CloseTransportEnds(a) \/ SweepCloses(a)
    BY <2>3 DEF CloseTransportEnds, SweepCloses
  <2>4. QED
    BY <1>2, <2>1, <2>2, <2>3
    DEF AgentStep, Refuse, OpenFails, WriteGate, AcquireIo, ReadGate, TransferGate,
        MonitorGate, EndIo, Leave, StartReader, StopReader, StopReturns, CloseGate,
        CloseSnapshot, SweepStops, SweepJoined, CloseReturns
<1>3. ASSUME NEW r \in Readers, ReaderStep(r) PROVE port'[t] # "new"
  BY <1>3 DEF ReaderStep, ReaderPolls, ReaderLocks, ReaderReads
<1>4. ASSUME NEW u \in Transports, Unplug(u) PROVE port'[t] # "new"
  BY <1>4 DEF Unplug
<1>5. CASE UNCHANGED vars
  BY <1>5 DEF vars
<1>6. QED
  BY <1>1, <1>2, <1>3, <1>4, <1>5 DEF Next

\* The steps that touch a registry.
Registering(a) ==
    \/ Open(a) \/ TransferGate(a) \/ MonitorGate(a) \/ Leave(a) \/ StartReader(a)
    \/ StopReturns(a) \/ CloseGate(a) \/ CloseDrops(a) \/ CloseSnapshot(a)

LEMMA RegistryOverStep ==
  ASSUME [Next]_vars
  PROVE  UNCHANGED <<maps, gates, rbase>> \/ \E a \in Agents : Registering(a)
<1>1. ASSUME NEW a \in Agents, Begin(a) \/ BeginClose(a) PROVE UNCHANGED <<maps, gates, rbase>>
  BY <1>1 DEF Begin, BeginClose, threads
<1>2. ASSUME NEW a \in Agents, AgentStep(a), ~Registering(a)
      PROVE  UNCHANGED <<maps, gates, rbase>>
  BY <1>2
  DEF AgentStep, Registering, Refuse, OpenFails, WriteGate, AcquireIo, ReadGate, EndIo,
      StopReader, CloseTransportEnds, SweepStops, SweepJoined, SweepCloses, CloseReturns,
      threads
<1>3. CASE ThreadOrPortStep
  BY <1>3, ThreadFrame
<1>4. CASE UNCHANGED vars
  BY <1>4 DEF vars, threads
<1>5. QED
  BY <1>1, <1>2, <1>3, <1>4 DEF Next, ThreadOrPortStep

\* The registered transports: a step leaves them alone, drops some, or adds one
\* that is newly opened.
LEMMA TransportsOverStep ==
  ASSUME TypeOK, [Next]_vars
  PROVE  \/ \A n \in Names : transports'[n] \in {transports[n], NIL}
         \/ \E a \in Agents, n \in Names, t \in Transports :
               /\ Open(a) /\ call[a].conn = n /\ ~IsOpen(n) /\ port[t] = "new"
               /\ transports' = [transports EXCEPT ![n] = t]
<1> DEFINE Shrinks == \A n \in Names : transports'[n] \in {transports[n], NIL}
<1> USE DEF TypeOK, maps
<1>1. ASSUME NEW a \in Agents, Open(a)
      PROVE  \E n \in Names, t \in Transports :
               /\ call[a].conn = n /\ ~IsOpen(n) /\ port[t] = "new"
               /\ transports' = [transports EXCEPT ![n] = t]
  <2>1. call[a].conn \in Names /\ ~IsOpen(call[a].conn)
    BY <1>1, CallFields DEF Open, AtGate, MayOpen
  <2>2. PICK t \in Transports :
           port[t] = "new" /\ transports' = [transports EXCEPT ![call[a].conn] = t]
    BY <1>1 DEF Open
  <2>3. QED
    BY <2>1, <2>2, Zenon
<1>2. ASSUME NEW a \in Agents, CloseDrops(a) \/ CloseSnapshot(a) PROVE Shrinks
  BY <1>2 DEF CloseDrops, Drop, DropName, CloseSnapshot
<1>3. ASSUME NEW a \in Agents, Registering(a), ~Open(a), ~CloseDrops(a), ~CloseSnapshot(a)
      PROVE  Shrinks
  BY <1>3 DEF Registering, TransferGate, MonitorGate, Leave, StartReader, StopReturns, CloseGate
<1>4. QED
  BY <1>1, <1>2, <1>3, RegistryOverStep

\* The reader threads: a step starts one, or starts none, revives none and
\* attaches none.
LEMMA ReadersOverStep ==
  ASSUME TypeOK, [Next]_vars
  PROVE  \/ /\ rbase' = rbase
            /\ \A r \in Readers : /\ rpc'[r] = "new" <=> rpc[r] = "new"
                                  /\ rpc[r] = "dead" => rpc'[r] = "dead"
            /\ \A n \in Names : readers'[n] \in {readers[n], NIL}
         \/ \E a \in Agents : StartReader(a)
<1> USE DEF TypeOK, maps, threads
<1>1. ASSUME NEW r \in Readers, ReaderStep(r)
      PROVE  /\ UNCHANGED <<readers, rbase>>
             /\ \A s \in Readers : /\ rpc'[s] = "new" <=> rpc[s] = "new"
                                   /\ rpc[s] = "dead" => rpc'[s] = "dead"
  BY <1>1 DEF ReaderStep, ReaderPolls, ReaderLocks, ReaderReads
<1>2. ASSUME NEW a \in Agents, Begin(a) \/ BeginClose(a) PROVE UNCHANGED <<rpc, rbase, readers>>
  BY <1>2 DEF Begin, BeginClose
<1>3. ASSUME NEW a \in Agents, AgentStep(a), ~StartReader(a)
      PROVE  UNCHANGED <<rpc, rbase>> /\ \A n \in Names : readers'[n] \in {readers[n], NIL}
  <2>1. CASE StopReturns(a)
    BY <2>1 DEF StopReturns, PopIfConfirmed, PopReader
  <2>2. CASE CloseGate(a) \/ CloseDrops(a) \/ CloseSnapshot(a)
    BY <2>2 DEF CloseGate, CloseDrops, CloseSnapshot
  <2>3. QED
    BY <1>3, <2>1, <2>2
    DEF AgentStep, Refuse, Open, OpenFails, WriteGate, AcquireIo, ReadGate, TransferGate,
        MonitorGate, EndIo, Leave, StopReader, CloseTransportEnds, SweepStops, SweepJoined,
        SweepCloses, CloseReturns
<1>4. ASSUME NEW t \in Transports, Unplug(t) PROVE UNCHANGED <<rpc, rbase, readers>>
  BY <1>4 DEF Unplug
<1>5. CASE UNCHANGED vars
  BY <1>5 DEF vars
<1>6. QED
  BY <1>1, <1>2, <1>3, <1>4, <1>5 DEF Next

\* A port is captured from the registry and kept.
LEMMA CapturesRegistered ==
  ASSUME TypeOK, [Next]_vars, NEW b \in Agents, pc'[b] \in {"io", "wait_io"}
  PROVE  \/ pc[b] \in {"io", "wait_io"} /\ tr'[b] = tr[b] /\ call'[b] = call[b]
         \/ \E n \in Names : /\ transports[n] # NIL /\ tr'[b] = transports[n]
                             /\ slock = NIL
                             /\ call'[b] = call[b] /\ call[b].conn = n
                             /\ pc[b] = "gate"
                             /\ call[b].op \in Owns => MayOwn(n)
<1> DEFINE Keeps == pc[b] \in {"io", "wait_io"} /\ tr'[b] = tr[b] /\ call'[b] = call[b]
           Takes == \E n \in Names : /\ transports[n] # NIL /\ tr'[b] = transports[n]
                                     /\ slock = NIL
                                     /\ call'[b] = call[b] /\ call[b].conn = n
                                     /\ pc[b] = "gate"
                                     /\ call[b].op \in Owns => MayOwn(n)
<1> USE DEF TypeOK
<1>1. ASSUME NEW a \in Agents, Begin(a) \/ BeginClose(a) PROVE Keeps
  BY <1>1 DEF Begin, BeginClose, GoTo
<1>2. ASSUME NEW a \in Agents, NEW o \in {"write", "reset"}, WriteGate(a, o)
      PROVE  Keeps \/ Takes
  BY <1>2, CallFields
  DEF WriteGate, AtGate, Capture, GoTo, MayWrite, IsSerial, IsOpen, Owns
<1>3. ASSUME NEW a \in Agents, ReadGate(a) PROVE Keeps \/ Takes
  BY <1>3, CallFields
  DEF ReadGate, AtGate, Capture, GoTo, MayRead, MayWrite, IsSerial, IsOpen, MayClose, Owns
<1>4. ASSUME NEW a \in Agents, TransferGate(a) \/ MonitorGate(a) PROVE Keeps \/ Takes
  BY <1>4, CallFields
  DEF TransferGate, MonitorGate, AtGate, Capture, GoTo, MayOwn, IsOpen, Owns
<1>5. ASSUME NEW a \in Agents, AcquireIo(a) \/ SweepCloses(a) PROVE Keeps
  BY <1>5 DEF AcquireIo, SweepCloses, GoTo, captured
<1>6. ASSUME NEW a \in Agents, Refuse(a) \/ Open(a) \/ OpenFails(a) \/ StartReader(a)
                               \/ Leave(a) \/ StopReturns(a) \/ CloseTransportEnds(a)
                               \/ CloseReturns(a)
      PROVE  Keeps
  BY <1>6 DEF Refuse, Open, OpenFails, StartReader, Leave, StopReturns, CloseTransportEnds,
     CloseReturns, Return
<1>7. ASSUME NEW a \in Agents, EndIo(a) PROVE Keeps
  BY <1>7 DEF EndIo, Return, GoTo, captured
<1>8. ASSUME NEW a \in Agents, StopReader(a) \/ CloseGate(a) PROVE Keeps
  BY <1>8 DEF StopReader, CloseGate, Capture, GoTo
<1>9. ASSUME NEW a \in Agents, CloseDrops(a) PROVE Keeps
  BY <1>9 DEF CloseDrops, Drop, Return, GoTo, captured
<1>10. ASSUME NEW a \in Agents, CloseSnapshot(a) \/ SweepStops(a) \/ SweepJoined(a) PROVE Keeps
  BY <1>10 DEF CloseSnapshot, SweepStops, SweepJoined, GoTo, captured
<1>11. CASE ThreadOrPortStep
  BY <1>11, ThreadFrame DEF captured
<1>12. CASE UNCHANGED vars
  BY <1>12 DEF vars, captured
<1>13. QED
  BY <1>1, <1>2, <1>3, <1>4, <1>5, <1>6, <1>7, <1>8, <1>9, <1>10, <1>11, <1>12
  DEF Next, AgentStep, ThreadOrPortStep

LEMMA OpenedStep ==
  ASSUME SessionInv, [Next]_vars
  PROVE  OpenedOnce'
<1> TypeOK /\ OpenedOnce /\ PortCaptured
  BY DEF SessionInv
<1> USE DEF TypeOK, OpenedOnce
<1>1. /\ \A n \in Names : transports'[n] # NIL => port'[transports'[n]] # "new"
      /\ \A n, m \in Names : transports'[n] # NIL /\ transports'[n] = transports'[m] => n = m
  <2>1. CASE \A n \in Names : transports'[n] \in {transports[n], NIL}
    <3>1. \A n \in Names : transports'[n] # NIL =>
            transports'[n] \in Transports /\ port[transports'[n]] # "new"
      BY <2>1
    <3>2. QED
      BY <2>1, <3>1, PortsStayOpened
  <2>2. ASSUME NEW a \in Agents, NEW n \in Names, NEW t \in Transports,
               Open(a), call[a].conn = n, ~IsOpen(n), port[t] = "new",
               transports' = [transports EXCEPT ![n] = t]
        PROVE  <1>1!1 /\ <1>1!2
    <3>1. port' = [port EXCEPT ![t] = "open"]
      <4>1. PICK u \in Transports : /\ port' = [port EXCEPT ![u] = "open"]
                                    /\ transports' = [transports EXCEPT ![n] = u]
        BY <2>2 DEF Open
      <4>2. u = t
        BY <4>1, <2>2
      <4>3. QED
        BY <4>1, <4>2
    <3>2. \A m \in Names : transports[m] # t \/ transports[m] = NIL
      BY <2>2
    <3>3. QED
      BY <2>2, <3>1, <3>2
  <2>3. QED
    BY <2>1, <2>2, TransportsOverStep
<1>2. \A a \in Agents : pc'[a] \in {"io", "wait_io"} => port'[tr'[a]] # "new"
  <2>1. \A a \in Agents : pc'[a] \in {"io", "wait_io"} =>
          /\ tr'[a] # NIL
          /\ port[tr'[a]] # "new"
    <3>1. ASSUME NEW b \in Agents, pc'[b] \in {"io", "wait_io"} PROVE port[tr'[b]] # "new"
      <4>1. CASE pc[b] \in {"io", "wait_io"} /\ tr'[b] = tr[b]
        BY <4>1
      <4>2. CASE \E n \in Names : transports[n] # NIL /\ tr'[b] = transports[n]
        BY <4>2
      <4>3. QED
        BY <3>1, <4>1, <4>2, CapturesRegistered
    <3>2. QED
      BY <3>1, CallStep DEF PortCaptured
  <2>2. tr' \in [Agents -> Transports \cup {NIL}]
    BY TypeStep DEF SessionInv
  <2>3. QED
    BY <2>1, <2>2, PortsStayOpened
<1>3. QED
  BY <1>1, <1>2

LEMMA StartedStep ==
  ASSUME SessionInv, [Next]_vars
  PROVE  StartedOnce'
<1> TypeOK /\ StartedOnce /\ OpenedOnce /\ RegistriesAgree
  BY DEF SessionInv
<1> USE DEF TypeOK, StartedOnce
<1>1. CASE /\ rbase' = rbase
           /\ \A r \in Readers : rpc'[r] = "new" <=> rpc[r] = "new"
           /\ \A n \in Names : readers'[n] \in {readers[n], NIL}
  BY <1>1, PortsStayOpened
<1>2. ASSUME NEW a \in Agents, StartReader(a) PROVE StartedOnce'
  <2> DEFINE n == call[a].conn
  <2>1. n \in Names /\ serial_base[n] # NIL /\ serial_base[n] = transports[n]
    BY <1>2, CallFields DEF StartReader, AtGate, MayStartReader, RegistriesAgree
  <2>2. port[serial_base[n]] # "new" /\ serial_base[n] \in Transports
    BY <2>1 DEF OpenedOnce
  <2>3. PICK r \in SpareReaders : /\ readers' = [readers EXCEPT ![n] = r]
                                  /\ rbase' = [rbase EXCEPT ![r] = serial_base[n]]
                                  /\ rpc' = [rpc EXCEPT ![r] = "poll"]
    BY <1>2 DEF StartReader
  <2>4. port' = port
    BY <1>2 DEF StartReader, ports
  <2>5. r \in Readers
    BY DEF SpareReaders
  <2> HIDE DEF n
  <2>6. QED
    BY <2>1, <2>2, <2>3, <2>4, <2>5
<1>3. QED
  BY <1>1, <1>2, ReadersOverStep

LEMMA ExchangeStep ==
  ASSUME SessionInv, [Next]_vars
  PROVE  ExchangeOnOwnName'
<1> TypeOK /\ OpenedOnce /\ PortCaptured /\ CallInStep /\ ExchangeOnOwnName
  BY DEF SessionInv
<1> USE DEF TypeOK
<1> SUFFICES ASSUME NEW b \in Agents, NEW n \in Names, pc'[b] = "io", call'[b].op \in Owns,
                    transports'[n] = tr'[b]
             PROVE  n = call'[b].conn
  BY DEF ExchangeOnOwnName
<1>1. tr'[b] # NIL
  BY CallStep DEF PortCaptured
<1>2. port[tr'[b]] # "new" =>  transports'[n] = transports[n]
  BY <1>1, TransportsOverStep
<1>3. CASE pc[b] \in {"io", "wait_io"} /\ tr'[b] = tr[b] /\ call'[b] = call[b]
  <2>1. pc[b] = "io" /\ port[tr[b]] # "new"
    BY <1>3 DEF CallInStep, Owns, OpenedOnce
  <2>2. QED
    BY <1>2, <1>3, <2>1 DEF ExchangeOnOwnName
<1>4. ASSUME NEW m \in Names, transports[m] # NIL, tr'[b] = transports[m], call'[b] = call[b],
             call[b].conn = m
      PROVE  n = call'[b].conn
  BY <1>2, <1>4 DEF OpenedOnce
<1>5. QED
  BY <1>3, <1>4, CapturesRegistered

\* RegistriesAgree, over a step.
LEMMA RegistriesStep ==
  ASSUME SessionInv, [Next]_vars
  PROVE  RegistriesAgree'
<1> TypeOK /\ RegistriesAgree /\ StartedOnce /\ JoinUnderLock
  BY DEF SessionInv
<1> USE SessionAssumption DEF TypeOK, RegistriesAgree
<1>1. CASE UNCHANGED <<maps, gates, rbase>>
  BY <1>1 DEF maps
<1>2. ASSUME NEW a \in Agents, Open(a) PROVE RegistriesAgree'
  <2> DEFINE n == call[a].conn
             k == call[a].kind
  <2>1. n \in Names /\ transports[n] = NIL /\ k \in Kinds
    BY <1>2, CallFields DEF Open, AtGate, MayOpen, IsOpen
  <2>2. kinds[n] = NIL /\ serial_base[n] = NIL /\ readers[n] = NIL /\ NIL # "serial"
    BY <2>1
  <2>3. PICK t \in Transports :
          /\ transports' = [transports EXCEPT ![n] = t]
          /\ kinds' = [kinds EXCEPT ![n] = k]
          /\ serial_base' = [serial_base EXCEPT ![n] = IF k = "serial" THEN t ELSE @]
    BY <1>2 DEF Open
  <2>4. UNCHANGED <<readers, rbase>>
    BY <1>2 DEF Open, threads
  <2> HIDE DEF n, k
  <2>5. QED
    BY <2>1, <2>2, <2>3, <2>4
<1>3. ASSUME NEW a \in Agents, TransferGate(a) \/ MonitorGate(a) \/ Leave(a)
      PROVE  RegistriesAgree'
  BY <1>3 DEF TransferGate, MonitorGate, Leave, maps, threads
<1>4. ASSUME NEW a \in Agents, StartReader(a) PROVE RegistriesAgree'
  <2> DEFINE n == call[a].conn
  <2>1. n \in Names /\ serial_base[n] # NIL
    BY <1>4, CallFields DEF StartReader, AtGate, MayStartReader
  <2>2. PICK r \in SpareReaders : /\ readers' = [readers EXCEPT ![n] = r]
                                  /\ rbase' = [rbase EXCEPT ![r] = serial_base[n]]
    BY <1>4 DEF StartReader
  <2>3. r \in Readers /\ \A m \in Names : readers[m] # r
    BY DEF SpareReaders, StartedOnce
  <2>4. UNCHANGED <<transports, kinds, serial_base>>
    BY <1>4 DEF StartReader
  <2> HIDE DEF n
  <2>5. QED
    BY <2>1, <2>2, <2>3, <2>4
<1>5. ASSUME NEW a \in Agents, StopReturns(a) \/ CloseGate(a) PROVE RegistriesAgree'
  BY <1>5 DEF StopReturns, PopIfConfirmed, PopReader, CloseGate, threads
<1>6. ASSUME NEW a \in Agents, CloseDrops(a) PROVE RegistriesAgree'
  <2>1. readers[call[a].conn] = NIL
    BY <1>6 DEF CloseDrops, JoinUnderLock, Closing
  <2>2. NIL # "serial"
    BY <1>6
  <2>3. QED
    BY <1>6, <2>1, <2>2 DEF CloseDrops, Drop, DropName, threads
<1>7. ASSUME NEW a \in Agents, CloseSnapshot(a) PROVE RegistriesAgree'
  BY <1>7 DEF CloseSnapshot, threads
<1>8. QED
  BY <1>1, <1>2, <1>3, <1>4, <1>5, <1>6, <1>7, RegistryOverStep DEF Registering

\* OneReadOwner, over a step.
LEMMA OwnerStep ==
  ASSUME SessionInv, [Next]_vars
  PROVE  OneReadOwner'
<1> TypeOK /\ OneReadOwner
  BY DEF SessionInv
<1> USE DEF TypeOK, OneReadOwner, maps, gates
<1>1. CASE UNCHANGED <<maps, gates, rbase>>
  BY <1>1
<1>2. ASSUME NEW a \in Agents, Open(a) \/ CloseDrops(a) \/ Leave(a) PROVE OneReadOwner'
  BY <1>2 DEF Open, CloseDrops, Leave
<1>3. ASSUME NEW a \in Agents, TransferGate(a) PROVE OneReadOwner'
  BY <1>3 DEF TransferGate, MayOwn
<1>4. ASSUME NEW a \in Agents, MonitorGate(a) PROVE OneReadOwner'
  BY <1>4 DEF MonitorGate, MayOwn
<1>5. ASSUME NEW a \in Agents, StartReader(a) PROVE OneReadOwner'
  BY <1>5 DEF StartReader, MayStartReader
<1>6. ASSUME NEW a \in Agents, StopReturns(a) \/ CloseGate(a) \/ CloseSnapshot(a)
      PROVE  OneReadOwner'
  BY <1>6 DEF StopReturns, PopIfConfirmed, PopReader, CloseGate, CloseSnapshot
<1>7. QED
  BY <1>1, <1>2, <1>3, <1>4, <1>5, <1>6, RegistryOverStep DEF Registering

\* RegistrationsAreLive, over a step.
LEMMA RegistrationsStep ==
  ASSUME SessionInv, [Next]_vars
  PROVE  RegistrationsAreLive'
<1> DEFINE P == RegistrationsAreLive
           SameOwners == \A b \in Agents, o \in Owns, n \in Names :
                            Owning(b, o, n)' <=> Owning(b, o, n)
<1> TypeOK /\ RegistrationsAreLive /\ CallInStep
  BY DEF SessionInv
<1> USE DEF TypeOK, Owning, Owns, gates
<1>1. ASSUME UNCHANGED gates, SameOwners PROVE P'
  BY <1>1 DEF RegistrationsAreLive
<1>2. ASSUME NEW a \in Agents, Begin(a) \/ BeginClose(a) PROVE P'
  <2>1. SameOwners
    BY <1>2 DEF Begin, BeginClose, GoTo
  <2>2. QED
    BY <1>1, <1>2, <2>1 DEF Begin, BeginClose
<1>3. ASSUME NEW a \in Agents, Refuse(a) \/ Open(a) \/ OpenFails(a) \/ StartReader(a)
                               \/ StopReturns(a) \/ CloseTransportEnds(a) \/ CloseReturns(a)
      PROVE  P'
  <2>1. SameOwners
    BY <1>3 DEF Refuse, Open, OpenFails, StartReader, StopReturns, CloseTransportEnds,
       CloseReturns, AtGate, Return
  <2>2. QED
    BY <1>1, <1>3, <2>1 DEF Refuse, Open, OpenFails, StartReader, StopReturns,
       CloseTransportEnds, CloseReturns
<1>4. ASSUME NEW a \in Agents, NEW o \in {"write", "reset"}, WriteGate(a, o) PROVE P'
  <2>1. SameOwners
    BY <1>4 DEF WriteGate, AtGate, Capture, GoTo
  <2>2. QED
    BY <1>1, <1>4, <2>1 DEF WriteGate
<1>5. ASSUME NEW a \in Agents, AcquireIo(a) PROVE P'
  <2>1. SameOwners
    BY <1>5 DEF AcquireIo, GoTo, captured, CallInStep
  <2>2. QED
    BY <1>1, <1>5, <2>1 DEF AcquireIo
<1>6. ASSUME NEW a \in Agents, ReadGate(a) PROVE P'
  <2>1. SameOwners
    BY <1>6 DEF ReadGate, AtGate, Capture, GoTo
  <2>2. QED
    BY <1>1, <1>6, <2>1 DEF ReadGate
<1>7. ASSUME NEW a \in Agents, TransferGate(a) PROVE P'
  BY <1>7, CallFields
  DEF TransferGate, AtGate, MayOwn, Capture, GoTo, RegistrationsAreLive
<1>8. ASSUME NEW a \in Agents, MonitorGate(a) PROVE P'
  BY <1>8, CallFields
  DEF MonitorGate, AtGate, MayOwn, Capture, GoTo, RegistrationsAreLive
<1>9. ASSUME NEW a \in Agents, EndIo(a) PROVE P'
  <2>1. SameOwners
    BY <1>9 DEF EndIo, InIo, GoTo, Return, captured
  <2>2. QED
    BY <1>1, <1>9, <2>1 DEF EndIo
<1>10. ASSUME NEW a \in Agents, Leave(a) PROVE P'
  BY <1>10 DEF Leave, Return, RegistrationsAreLive, CallInStep
<1>11. ASSUME NEW a \in Agents, StopReader(a) \/ CloseGate(a) PROVE P'
  <2>1. SameOwners
    BY <1>11 DEF StopReader, CloseGate, AtGate, Capture, GoTo
  <2>2. QED
    BY <1>1, <1>11, <2>1 DEF StopReader, CloseGate
<1>12. ASSUME NEW a \in Agents, CloseDrops(a) PROVE P'
  <2>1. SameOwners
    BY <1>12 DEF CloseDrops, Drop, GoTo, Return, captured
  <2>2. QED
    BY <1>1, <1>12, <2>1 DEF CloseDrops
<1>13. ASSUME NEW a \in Agents, CloseSnapshot(a) \/ SweepStops(a) \/ SweepJoined(a)
                                \/ SweepCloses(a)
       PROVE  P'
  <2>1. SameOwners
    BY <1>13 DEF CloseSnapshot, SweepStops, SweepJoined, SweepCloses, AtGate, GoTo, captured
  <2>2. QED
    BY <1>1, <1>13, <2>1 DEF CloseSnapshot, SweepStops, SweepJoined, SweepCloses
<1>14. CASE ThreadOrPortStep
  BY <1>1, <1>14, ThreadFrame DEF captured
<1>15. CASE UNCHANGED vars
  BY <1>1, <1>15 DEF vars, captured
<1>16. QED
  BY <1>2, <1>3, <1>4, <1>5, <1>6, <1>7, <1>8, <1>9, <1>10, <1>11, <1>12, <1>13,
     <1>14, <1>15
  DEF Next, AgentStep, ThreadOrPortStep

\* A reader that runs and is attached stays attached over a step, or its name
\* goes, or an agent starts to close the name; and that agent holds on until it
\* does.
LEMMA AttachedOverStep ==
  ASSUME SessionInv, [Next]_vars, NEW n \in Names, readers[n] # NIL,
         rpc[readers[n]] # "dead"
  PROVE  \/ readers'[n] = readers[n]
         \/ transports'[n] = NIL
         \/ \E a \in Agents : pc'[a] = "join" /\ call'[a].op \in Closing /\ call'[a].conn = n
<1> TypeOK /\ JoinUnderLock
  BY DEF SessionInv
<1> USE DEF TypeOK, maps
<1>1. CASE UNCHANGED <<maps, gates, rbase>>
  BY <1>1
<1>2. ASSUME NEW a \in Agents,
             Open(a) \/ TransferGate(a) \/ MonitorGate(a) \/ Leave(a) \/ CloseDrops(a)
      PROVE  readers'[n] = readers[n]
  BY <1>2 DEF Open, TransferGate, MonitorGate, Leave, CloseDrops
<1>3. ASSUME NEW a \in Agents, StartReader(a) PROVE readers'[n] = readers[n]
  BY <1>3 DEF StartReader, MayStartReader
<1>4. ASSUME NEW a \in Agents, StopReturns(a) PROVE readers'[n] = readers[n]
  BY <1>4 DEF StopReturns, PopIfConfirmed, PopReader, JoinUnderLock
<1>5. ASSUME NEW a \in Agents, CloseGate(a), call[a].conn = n
      PROVE  pc'[a] = "join" /\ call'[a].op \in Closing /\ call'[a].conn = n
  BY <1>5 DEF CloseGate, AtGate, Capture, GoTo, Closing
<1>6. ASSUME NEW a \in Agents, CloseGate(a), call[a].conn # n PROVE readers'[n] = readers[n]
  BY <1>6 DEF CloseGate
<1>7. ASSUME NEW a \in Agents, CloseSnapshot(a) PROVE transports'[n] = NIL
  BY <1>7 DEF CloseSnapshot
<1>8. QED
  BY <1>1, <1>2, <1>3, <1>4, <1>5, <1>6, <1>7, RegistryOverStep DEF Registering

LEMMA ClosingOverStep ==
  ASSUME SessionInv, [Next]_vars, NEW b \in Agents, NEW n \in Names,
         pc[b] = "join", call[b].op \in Closing, call[b].conn = n
  PROVE  \/ pc'[b] = "join" /\ call'[b] = call[b]
         \/ transports'[n] = NIL
<1> DEFINE P == pc'[b] = "join" /\ call'[b] = call[b]
<1> TypeOK /\ LockHeldToJoin
  BY DEF SessionInv
<1>0. slock = b /\ slock # NIL
  BY SessionAssumption DEF LockHeldToJoin
<1> USE DEF TypeOK, Closing
<1>1. ASSUME NEW a \in Agents, Begin(a) \/ BeginClose(a) PROVE P
  BY <1>1 DEF Begin, BeginClose, GoTo
<1>2. ASSUME NEW a \in Agents, NEW o \in {"write", "reset"}, WriteGate(a, o) PROVE P
  BY <1>0, <1>2 DEF WriteGate, AtGate
<1>3. ASSUME NEW a \in Agents,
             Refuse(a) \/ Open(a) \/ OpenFails(a) \/ ReadGate(a) \/ TransferGate(a)
             \/ MonitorGate(a) \/ Leave(a) \/ StartReader(a) \/ StopReader(a) \/ CloseGate(a)
             \/ CloseSnapshot(a)
      PROVE  P
  BY <1>0, <1>3 DEF Refuse, Open, OpenFails, ReadGate, TransferGate, MonitorGate, Leave,
     StartReader, StopReader, CloseGate, CloseSnapshot, AtGate
<1>4. ASSUME NEW a \in Agents, AcquireIo(a) \/ SweepCloses(a) PROVE P
  BY <1>4 DEF AcquireIo, SweepCloses, GoTo, captured
<1>5. ASSUME NEW a \in Agents, EndIo(a) PROVE P
  BY <1>5 DEF EndIo, InIo, GoTo, Return, captured
<1>6. ASSUME NEW a \in Agents, StopReturns(a) PROVE P
  BY <1>6 DEF StopReturns, Return
<1>7. ASSUME NEW a \in Agents, CloseDrops(a) PROVE P \/ transports'[n] = NIL
  <2>1. a = b
    BY <1>0, <1>7 DEF CloseDrops, LockHeldToJoin
  <2>2. QED
    BY <1>7, <2>1 DEF CloseDrops, Drop, DropName
<1>8. ASSUME NEW a \in Agents, CloseTransportEnds(a) \/ CloseReturns(a) PROVE P
  BY <1>8 DEF CloseTransportEnds, CloseReturns, Return
<1>9. ASSUME NEW a \in Agents, SweepStops(a) \/ SweepJoined(a) PROVE P
  BY <1>9 DEF SweepStops, SweepJoined, GoTo
<1>10. CASE ThreadOrPortStep
  BY <1>10, ThreadFrame DEF captured
<1>11. CASE UNCHANGED vars
  BY <1>11 DEF vars, captured
<1>12. QED
  BY <1>1, <1>2, <1>3, <1>4, <1>5, <1>6, <1>7, <1>8, <1>9, <1>10, <1>11
  DEF Next, AgentStep, ThreadOrPortStep

LEMMA LiveReaderStep ==
  ASSUME SessionInv, [Next]_vars
  PROVE  LiveReaderAttached'
<1> TypeOK /\ LiveReaderAttached /\ StartedOnce /\ OpenedOnce /\ RegistriesAgree
    /\ LockHeldToJoin
  BY DEF SessionInv
<1> USE DEF TypeOK
<1> SUFFICES ASSUME NEW r \in Readers, NEW n \in Names, rpc'[r] \notin {"new", "dead"},
                    rbase'[r] = transports'[n]
             PROVE  \/ readers'[n] = r
                    \/ \E a \in Agents : /\ pc'[a] = "join" /\ call'[a].op \in Closing
                                         /\ call'[a].conn = n
  BY DEF LiveReaderAttached
<1>1. ASSUME rpc[r] \notin {"new", "dead"}, rbase'[r] = rbase[r]
      PROVE  \/ readers'[n] = r
             \/ \E a \in Agents : /\ pc'[a] = "join" /\ call'[a].op \in Closing
                                  /\ call'[a].conn = n
  <2>1. rbase[r] # NIL /\ port[rbase[r]] # "new" /\ transports'[n] # NIL
    BY <1>1 DEF StartedOnce
  <2>2. transports[n] = rbase[r]
    BY <1>1, <2>1, TransportsOverStep
  <2>3. CASE readers[n] = r
    <3>1. r # NIL
      BY SessionAssumption
    <3>2. QED
      BY <2>1, <2>3, <3>1, <1>1, AttachedOverStep
  <2>4. CASE \E a \in Agents : pc[a] = "join" /\ call[a].op \in Closing /\ call[a].conn = n
    BY <2>1, <2>4, ClosingOverStep
  <2>5. QED
    BY <1>1, <2>2, <2>3, <2>4 DEF LiveReaderAttached
<1>2. CASE /\ rbase' = rbase
           /\ \A s \in Readers : /\ rpc'[s] = "new" <=> rpc[s] = "new"
                                 /\ rpc[s] = "dead" => rpc'[s] = "dead"
  BY <1>1, <1>2
<1>3. ASSUME NEW a \in Agents, StartReader(a)
      PROVE  \/ readers'[n] = r
             \/ \E b \in Agents : /\ pc'[b] = "join" /\ call'[b].op \in Closing
                                  /\ call'[b].conn = n
  <2> DEFINE m == call[a].conn
  <2>1. /\ m \in Names /\ serial_base[m] # NIL /\ serial_base[m] = transports[m]
        /\ transports' = transports
    BY <1>3, CallFields DEF StartReader, AtGate, MayStartReader, RegistriesAgree
  <2>2. PICK s \in SpareReaders : /\ readers' = [readers EXCEPT ![m] = s]
                                  /\ rbase' = [rbase EXCEPT ![s] = serial_base[m]]
                                  /\ rpc' = [rpc EXCEPT ![s] = "poll"]
    BY <1>3 DEF StartReader
  <2>3. s \in Readers
    BY DEF SpareReaders
  <2> HIDE DEF m
  <2>4. CASE r = s
    <3>1. transports[n] = transports[m]
      BY <2>1, <2>2, <2>3, <2>4
    <3>2. n = m
      BY <3>1, <2>1 DEF OpenedOnce
    <3>3. QED
      BY <3>2, <2>1, <2>2, <2>4
  <2>5. CASE r # s
    BY <1>1, <2>2, <2>3, <2>5
  <2>6. QED
    BY <2>4, <2>5
<1>4. QED
  BY <1>2, <1>3, ReadersOverStep

\* NoThief, over a step.
LEMMA NoThiefStep ==
  ASSUME SessionInv, [Next]_vars
  PROVE  NoThief'
<1> TypeOK /\ NoThief /\ LiveReaderAttached /\ StartedOnce /\ RegistriesAgree
    /\ LockHeldToJoin /\ ExchangeOnOwnName /\ RegistrationsAreLive /\ PortCaptured
    /\ CallInStep
  BY DEF SessionInv
<1> USE DEF TypeOK
<1> SUFFICES ASSUME NEW b \in Agents, NEW r \in Readers, pc'[b] = "io",
                    call'[b].op \in Owns, rbase'[r] = tr'[b]
             PROVE  rpc'[r] = "dead"
  BY DEF NoThief, Owns
<1>1. CASE rbase' = rbase /\ \A s \in Readers : rpc[s] = "dead" => rpc'[s] = "dead"
  <2>1. CASE pc[b] \in {"io", "wait_io"} /\ tr'[b] = tr[b] /\ call'[b] = call[b]
    BY <1>1, <2>1 DEF NoThief, CallInStep, Owns
  <2>2. ASSUME NEW n \in Names, transports[n] # NIL, tr'[b] = transports[n], slock = NIL,
               call'[b] = call[b], call[b].op \in Owns => MayOwn(n)
        PROVE  rpc'[r] = "dead"
    <3>1. readers[n] = NIL
      BY <2>2 DEF MayOwn
    <3>2. \A a \in Agents : pc[a] # "join"
      BY <2>2, SessionAssumption DEF LockHeldToJoin
    <3>3. rpc[r] # "new"
      BY <1>1, <2>2 DEF StartedOnce
    <3>4. rpc[r] = "dead"
      BY <1>1, <2>2, <3>1, <3>2, <3>3, SessionAssumption DEF LiveReaderAttached
    <3>5. QED
      BY <1>1, <3>4
  <2>3. QED
    BY <2>1, <2>2, CapturesRegistered
<1>2. ASSUME NEW a \in Agents, StartReader(a) PROVE rpc'[r] = "dead"
  <2> DEFINE m == call[a].conn
  <2>1. /\ m \in Names /\ serial_base[m] # NIL /\ serial_base[m] = transports[m]
        /\ m \notin transfers /\ m \notin monitors
    BY <1>2, CallFields DEF StartReader, AtGate, MayStartReader, RegistriesAgree
  <2>2. PICK s \in SpareReaders : /\ rbase' = [rbase EXCEPT ![s] = serial_base[m]]
                                  /\ rpc' = [rpc EXCEPT ![s] = "poll"]
    BY <1>2 DEF StartReader
  <2>3. s \in Readers
    BY DEF SpareReaders
  <2>4. pc[b] = "io" /\ tr'[b] = tr[b] /\ call'[b] = call[b]
    BY <1>2 DEF StartReader, Return
  <2> HIDE DEF m
  <2>5. CASE r = s
    <3>1. m = call[b].conn
      BY <2>1, <2>2, <2>3, <2>4, <2>5 DEF ExchangeOnOwnName
    <3>2. QED
      BY <3>1, <2>1, <2>4 DEF RegistrationsAreLive, Owning, Owns
  <2>6. CASE r # s
    BY <2>2, <2>3, <2>4, <2>6 DEF NoThief, Owns
  <2>7. QED
    BY <2>5, <2>6
<1>3. QED
  BY <1>1, <1>2, ReadersOverStep

-----------------------------------------------------------------------------
(* The theorems. *)

LEMMA InitInv == Init => SessionInv
<1> SUFFICES ASSUME Init PROVE SessionInv
  OBVIOUS
<1> USE SessionAssumption DEF Init
<1>1. TypeOK
  <2>1. rx \in [Transports -> 0..MaxRx]
    OBVIOUS
  <2>2. closed \in BOOLEAN /\ rstop \in [Readers -> BOOLEAN]
    BY Zenon
  <2>3. call \in [Agents -> Call]
    BY DEF Call
  <2>4. QED
    BY <2>1, <2>2, <2>3 DEF TypeOK
<1>2. PortCaptured /\ LockHeldToJoin /\ JoinUnderLock /\ CallInStep
  BY DEF PortCaptured, LockHeldToJoin, JoinUnderLock, CallInStep
<1>3. OpenedOnce /\ StartedOnce /\ ExchangeOnOwnName /\ LiveReaderAttached
  BY DEF OpenedOnce, StartedOnce, ExchangeOnOwnName, LiveReaderAttached
<1>4. RegistriesAgree /\ OneReadOwner /\ RegistrationsAreLive /\ NoThief
  BY DEF RegistriesAgree, OneReadOwner, RegistrationsAreLive, NoThief, Owning
<1>5. QED
  BY <1>1, <1>2, <1>3, <1>4 DEF SessionInv

LEMMA NextInv == SessionInv /\ [Next]_vars => SessionInv'
<1> SUFFICES ASSUME SessionInv, [Next]_vars PROVE SessionInv'
  OBVIOUS
<1>1. TypeOK'
  BY TypeStep DEF SessionInv
<1>2. QED
  BY <1>1, CallStep, JoinStep, OpenedStep, StartedStep, ExchangeStep, LiveReaderStep,
     RegistriesStep, OwnerStep, RegistrationsStep, NoThiefStep
  DEF SessionInv

\* Whatever the threads do, every step of the session keeps the invariant.
THEOREM SessionInvariant == Spec => []SessionInv
<1>1. QED
  BY InitInv, NextInv, PTL DEF Spec

\* The four dictionaries of the session agree whenever its lock is free.
THEOREM Lockstep == Spec => []RegistriesAgree
<1>1. SessionInv => RegistriesAgree
  BY DEF SessionInv
<1>2. QED
  BY <1>1, SessionInvariant, PTL

\* The gates of serial_put, serial_get, serial_monitor and serial_reader_start
\* never register two owners of one read side.
THEOREM SingleOwner == Spec => []OneReadOwner
<1>1. SessionInv => OneReadOwner
  BY DEF SessionInv
<1>2. QED
  BY <1>1, SessionInvariant, PTL

\* A name in _transfers or _monitors is one call's, for as long as it runs.
THEOREM LiveRegistrations == Spec => []RegistrationsAreLive
<1>1. SessionInv => RegistrationsAreLive
  BY DEF SessionInv
<1>2. QED
  BY <1>1, SessionInvariant, PTL

\* No background reader takes a byte of an exchange's answer.
THEOREM NoByteThief == Spec => []NoThief
<1>1. SessionInv => NoThief
  BY DEF SessionInv
<1>2. QED
  BY <1>1, SessionInvariant, PTL

-----------------------------------------------------------------------------
(* No port is lost. *)

\* A close that waits for a reader holds, under the lock, the very transport the
\* name is registered with; only a close that is sweeping has transports to sweep.
HandleKept == \A a \in Agents :
    pc[a] = "join" /\ call[a].op \in Closing => transports[call[a].conn] = tr[a]
SweepEmptied == \A a \in Agents : pc[a] \notin {"sweep", "sweep_join"} => sweepT[a] = {}
LostInv == HandleKept /\ SweepEmptied /\ NoLostPort

LEMMA HandleStep ==
  ASSUME TypeOK, LockHeldToJoin, HandleKept, [Next]_vars
  PROVE  HandleKept'
<1> USE SessionAssumption DEF TypeOK, LockHeldToJoin, HandleKept, Closing
<1>1. ASSUME NEW a \in Agents, Open(a) \/ CloseSnapshot(a) PROVE HandleKept'
  <2>1. \A b \in Agents : pc'[b] # "join"
    BY <1>1 DEF Open, CloseSnapshot, AtGate, Return, GoTo
  <2>2. QED
    BY <2>1
<1>2. ASSUME NEW a \in Agents, CloseDrops(a) PROVE HandleKept'
  <2>1. \A b \in Agents : pc'[b] # "join"
    BY <1>2 DEF CloseDrops, Drop, Return, GoTo
  <2>2. QED
    BY <2>1
<1>3. ASSUME NEW a \in Agents, CloseGate(a) PROVE HandleKept'
  BY <1>3, CallFields DEF CloseGate, AtGate, Capture, GoTo
<1>4. ASSUME NEW a \in Agents, StopReader(a) PROVE HandleKept'
  BY <1>4 DEF StopReader, AtGate, Capture, GoTo
<1>5. ASSUME NEW a \in Agents, Begin(a) \/ BeginClose(a) PROVE HandleKept'
  BY <1>5 DEF Begin, BeginClose, GoTo, maps
<1>6. ASSUME NEW a \in Agents, Refuse(a) \/ OpenFails(a) \/ StartReader(a) PROVE HandleKept'
  BY <1>6 DEF Refuse, OpenFails, StartReader, Return, maps
<1>7. ASSUME NEW a \in Agents, NEW o \in {"write", "reset"}, WriteGate(a, o) PROVE HandleKept'
  BY <1>7 DEF WriteGate, Capture, GoTo, maps
<1>8. ASSUME NEW a \in Agents, AcquireIo(a) PROVE HandleKept'
  BY <1>8 DEF AcquireIo, GoTo, captured, maps
<1>9. ASSUME NEW a \in Agents, ReadGate(a) \/ TransferGate(a) \/ MonitorGate(a) PROVE HandleKept'
  BY <1>9 DEF ReadGate, TransferGate, MonitorGate, Capture, GoTo, maps
<1>10. ASSUME NEW a \in Agents, EndIo(a) PROVE HandleKept'
  BY <1>10 DEF EndIo, GoTo, Return, captured, maps
<1>11. ASSUME NEW a \in Agents, Leave(a) \/ StopReturns(a) PROVE HandleKept'
  BY <1>11 DEF Leave, StopReturns, Return, maps
<1>12. ASSUME NEW a \in Agents, CloseTransportEnds(a) \/ CloseReturns(a) PROVE HandleKept'
  BY <1>12 DEF CloseTransportEnds, CloseReturns, Return, maps
<1>13. ASSUME NEW a \in Agents, SweepStops(a) \/ SweepJoined(a) PROVE HandleKept'
  BY <1>13 DEF SweepStops, SweepJoined, GoTo, maps
<1>14. ASSUME NEW a \in Agents, SweepCloses(a) PROVE HandleKept'
  BY <1>14 DEF SweepCloses, captured, maps
<1>15. CASE ThreadOrPortStep
  BY <1>15, ThreadFrame DEF captured, maps
<1>16. CASE UNCHANGED vars
  BY <1>16 DEF vars, captured, maps
<1>17. QED
  BY <1>1, <1>2, <1>3, <1>4, <1>5, <1>6, <1>7, <1>8, <1>9, <1>10, <1>11, <1>12, <1>13,
     <1>14, <1>15, <1>16
  DEF Next, AgentStep, ThreadOrPortStep

LEMMA SweepStep ==
  ASSUME TypeOK, SweepEmptied, [Next]_vars
  PROVE  SweepEmptied'
<1> USE DEF TypeOK, SweepEmptied, sweep
<1>1. ASSUME NEW a \in Agents, Begin(a) \/ BeginClose(a) PROVE SweepEmptied'
  BY <1>1 DEF Begin, BeginClose, GoTo
<1>2. ASSUME NEW a \in Agents, CloseSnapshot(a) PROVE SweepEmptied'
  BY <1>2 DEF CloseSnapshot, AtGate, GoTo
<1>3. ASSUME NEW a \in Agents, SweepStops(a) \/ SweepJoined(a) PROVE SweepEmptied'
  BY <1>3 DEF SweepStops, SweepJoined, GoTo
<1>4. ASSUME NEW a \in Agents, SweepCloses(a) \/ CloseReturns(a) PROVE SweepEmptied'
  BY <1>4 DEF SweepCloses, CloseReturns, Return
<1>5. ASSUME NEW a \in Agents, CloseDrops(a) PROVE SweepEmptied'
  BY <1>5 DEF CloseDrops, Drop, Return, GoTo
<1>6. ASSUME NEW a \in Agents, NEW o \in {"write", "reset"}, WriteGate(a, o) PROVE SweepEmptied'
  BY <1>6 DEF WriteGate, AtGate, GoTo
<1>7. ASSUME NEW a \in Agents, ReadGate(a) \/ TransferGate(a) \/ MonitorGate(a) PROVE SweepEmptied'
  BY <1>7 DEF ReadGate, TransferGate, MonitorGate, AtGate, GoTo
<1>8. ASSUME NEW a \in Agents, Refuse(a) \/ Open(a) \/ OpenFails(a) \/ Leave(a) \/ StartReader(a)
                               \/ StopReturns(a) \/ CloseTransportEnds(a)
      PROVE  SweepEmptied'
  <2>1. pc[a] \notin {"sweep", "sweep_join"} /\ Return(a) /\ UNCHANGED sweepT
    BY <1>8 DEF Refuse, Open, OpenFails, Leave, StartReader, StopReturns, CloseTransportEnds,
                AtGate
  <2>2. QED
    BY <2>1 DEF Return
<1>9. ASSUME NEW a \in Agents, AcquireIo(a) \/ EndIo(a) PROVE SweepEmptied'
  BY <1>9 DEF AcquireIo, EndIo, InIo, GoTo, Return
<1>10. ASSUME NEW a \in Agents, StopReader(a) \/ CloseGate(a) PROVE SweepEmptied'
  BY <1>10 DEF StopReader, CloseGate, AtGate, GoTo
<1>11. CASE ThreadOrPortStep
  BY <1>11, ThreadFrame
<1>12. CASE UNCHANGED vars
  BY <1>12 DEF vars
<1>13. QED
  BY <1>1, <1>2, <1>3, <1>4, <1>5, <1>6, <1>7, <1>8, <1>9, <1>10, <1>11, <1>12
  DEF Next, AgentStep, ThreadOrPortStep

\* The steps that move a transport, or change who holds it.
Holding(a) ==
    \/ Open(a) \/ CloseDrops(a) \/ CloseTransportEnds(a) \/ CloseSnapshot(a) \/ SweepCloses(a)

\* Every other step leaves the ports as they are, and the transports where they
\* are held.
LEMMA HoldersOverStep ==
  ASSUME TypeOK, [Next]_vars, \A a \in Agents : ~Holding(a)
  PROVE  /\ transports' = transports /\ sweepT' = sweepT
         /\ \A a \in Agents : pc[a] = "close_port" => pc'[a] = "close_port" /\ tr'[a] = tr[a]
         /\ \A t \in Transports : port'[t] \in {"open", "lost"} => port[t] \in {"open", "lost"}
<1> DEFINE P ==
         /\ transports' = transports /\ sweepT' = sweepT
         /\ \A a \in Agents : pc[a] = "close_port" => pc'[a] = "close_port" /\ tr'[a] = tr[a]
         /\ \A t \in Transports : port'[t] \in {"open", "lost"} => port[t] \in {"open", "lost"}
<1> USE DEF TypeOK, maps, sweep, ports, captured
<1>1. ASSUME NEW a \in Agents, Begin(a) \/ BeginClose(a) PROVE P
  BY <1>1 DEF Begin, BeginClose, GoTo
<1>2. ASSUME NEW a \in Agents, Refuse(a) \/ OpenFails(a) \/ Leave(a) \/ StartReader(a)
                               \/ StopReturns(a) \/ CloseReturns(a)
      PROVE  P
  <2>1. pc[a] # "close_port" /\ Return(a) /\ UNCHANGED <<transports, sweepT, port>>
    BY <1>2 DEF Refuse, OpenFails, Leave, StartReader, StopReturns, CloseReturns, AtGate
  <2>2. QED
    BY <2>1 DEF Return
<1>3. ASSUME NEW a \in Agents, NEW o \in {"write", "reset"}, WriteGate(a, o) PROVE P
  BY <1>3 DEF WriteGate, AtGate, Capture, GoTo
<1>4. ASSUME NEW a \in Agents, AcquireIo(a) \/ EndIo(a) PROVE P
  BY <1>4 DEF AcquireIo, EndIo, InIo, GoTo, Return
<1>5. ASSUME NEW a \in Agents, ReadGate(a) \/ TransferGate(a) \/ MonitorGate(a) PROVE P
  BY <1>5 DEF ReadGate, TransferGate, MonitorGate, AtGate, Capture, GoTo
<1>6. ASSUME NEW a \in Agents, StopReader(a) \/ CloseGate(a) PROVE P
  BY <1>6 DEF StopReader, CloseGate, AtGate, Capture, GoTo
<1>7. ASSUME NEW a \in Agents, SweepStops(a) \/ SweepJoined(a) PROVE P
  BY <1>7 DEF SweepStops, SweepJoined, GoTo
<1>8. ASSUME NEW r \in Readers, ReaderStep(r) PROVE P
  BY <1>8 DEF ReaderStep, ReaderPolls, ReaderLocks, ReaderReads
<1>9. ASSUME NEW t \in Transports, Unplug(t) PROVE P
  BY <1>9 DEF Unplug
<1>10. CASE UNCHANGED vars
  BY <1>10 DEF vars
<1>11. QED
  BY <1>1, <1>2, <1>3, <1>4, <1>5, <1>6, <1>7, <1>8, <1>9, <1>10
  DEF Next, AgentStep, Holding

Held(t) ==
    \/ \E n \in Names : transports[n] = t
    \/ \E a \in Agents : t \in sweepT[a] \/ (pc[a] = "close_port" /\ tr[a] = t)

LEMMA NoLostStep ==
  ASSUME SessionInv, LostInv, [Next]_vars
  PROVE  NoLostPort'
<1> USE SessionAssumption DEF TypeOK
<1> TypeOK /\ HandleKept /\ SweepEmptied /\ NoLostPort
  BY DEF SessionInv, LostInv
<1> SUFFICES ASSUME NEW t \in Transports, port'[t] \in {"open", "lost"}
             PROVE  Held(t)'
  BY DEF NoLostPort, Held
<1>1. port[t] \in {"open", "lost"} => Held(t)
  BY DEF NoLostPort, Held
<1>2. ASSUME NEW a \in Agents, Open(a) PROVE Held(t)'
  <2> DEFINE m == call[a].conn
  <2>1. m \in Names /\ transports[m] = NIL
    BY <1>2, CallFields DEF Open, AtGate, MayOpen, IsOpen
  <2>2. PICK u \in Transports : /\ port' = [port EXCEPT ![u] = "open"]
                                /\ transports' = [transports EXCEPT ![m] = u]
    BY <1>2 DEF Open
  <2>3. sweepT' = sweepT /\ \A b \in Agents : pc[b] = "close_port" => pc'[b] = pc[b] /\ tr'[b] = tr[b]
    BY <1>2 DEF Open, AtGate, Return, sweep
  <2> HIDE DEF m
  <2>4. CASE t = u
    BY <2>1, <2>2, <2>4 DEF Held
  <2>5. CASE t # u
    <3>1. Held(t)
      BY <1>1, <2>2, <2>5
    <3>2. ASSUME NEW n \in Names, transports[n] = t PROVE transports'[n] = t
      BY <2>1, <2>2, <3>2
    <3>3. QED
      BY <2>3, <3>1, <3>2 DEF Held
  <2>6. QED
    BY <2>4, <2>5
<1>3. ASSUME NEW a \in Agents, CloseDrops(a) PROVE Held(t)'
  <2> DEFINE m == call[a].conn
  <2>1. /\ pc[a] = "join" /\ call[a].op \in Closing
        /\ transports[m] = tr[a] /\ tr[a] \in Transports
    BY <1>3 DEF CloseDrops, Closing, HandleKept, PortCaptured, SessionInv
  <2>2. sweepT' = sweepT /\ \A b \in Agents \ {a} : pc'[b] = pc[b] /\ tr'[b] = tr[b]
    BY <1>3 DEF CloseDrops, Drop, Return, GoTo, captured, sweep
  <2>3. \A n \in Names : n # m => transports'[n] = transports[n]
    BY <1>3 DEF CloseDrops, Drop, DropName
  <2>4. port[t] \in {"open", "lost"}
    BY <1>3 DEF CloseDrops, Drop, ClosePort
  <2>5. t = tr[a] => pc'[a] = "close_port" /\ tr'[a] = t
    <3>1. CASE call[a].op = "close_typed"
      BY <1>3, <3>1, <2>1 DEF CloseDrops, Drop, ClosePort
    <3>2. CASE call[a].op # "close_typed"
      BY <1>3, <3>2 DEF CloseDrops, Drop, GoTo, captured
    <3>3. QED
      BY <3>1, <3>2
  <2> HIDE DEF m
  <2>6. CASE t = tr[a]
    BY <2>5, <2>6 DEF Held
  <2>7. CASE t # tr[a]
    <3>1. ASSUME NEW n \in Names, transports[n] = t PROVE transports'[n] = t
      BY <2>1, <2>3, <2>7, <3>1
    <3>2. ASSUME NEW b \in Agents, t \in sweepT[b] \/ (pc[b] = "close_port" /\ tr[b] = t)
          PROVE  t \in sweepT'[b] \/ (pc'[b] = "close_port" /\ tr'[b] = t)
      BY <2>1, <2>2, <3>2
    <3>3. QED
      BY <1>1, <2>4, <3>1, <3>2 DEF Held
  <2>8. QED
    BY <2>6, <2>7
<1>4. ASSUME NEW a \in Agents, CloseTransportEnds(a) PROVE Held(t)'
  <2>1. pc[a] = "close_port" /\ tr[a] \in Transports
    BY <1>4 DEF CloseTransportEnds, PortCaptured, SessionInv
  <2>2. t # tr[a] /\ port[t] \in {"open", "lost"}
    BY <1>4, <2>1 DEF CloseTransportEnds, ClosePort
  <2>3. /\ transports' = transports /\ sweepT' = sweepT
        /\ \A b \in Agents \ {a} : pc'[b] = pc[b] /\ tr'[b] = tr[b]
    BY <1>4 DEF CloseTransportEnds, Return, maps, sweep
  <2>4. QED
    BY <1>1, <2>2, <2>3 DEF Held
<1>5. ASSUME NEW a \in Agents, CloseSnapshot(a) PROVE Held(t)'
  <2>1. sweepT[a] = {} /\ pc[a] = "gate"
    BY <1>5 DEF CloseSnapshot, AtGate, SweepEmptied
  <2>2. sweepT' = [sweepT EXCEPT ![a] = {transports[n] : n \in Names} \ {NIL}]
    BY <1>5 DEF CloseSnapshot
  <2>3. port' = port /\ \A b \in Agents : b # a => pc'[b] = pc[b] /\ tr'[b] = tr[b]
    BY <1>5 DEF CloseSnapshot, GoTo, captured, ports
  <2>4. ASSUME NEW n \in Names, transports[n] = t PROVE t \in sweepT'[a]
    BY <2>2, <2>4
  <2>5. ASSUME NEW b \in Agents, t \in sweepT[b] \/ (pc[b] = "close_port" /\ tr[b] = t)
        PROVE  t \in sweepT'[b] \/ (pc'[b] = "close_port" /\ tr'[b] = t)
    BY <2>1, <2>2, <2>3, <2>5
  <2>6. QED
    BY <1>1, <2>3, <2>4, <2>5 DEF Held
<1>6. ASSUME NEW a \in Agents, SweepCloses(a) PROVE Held(t)'
  <2>1. PICK u \in sweepT[a] : ClosePort(u) /\ sweepT' = [sweepT EXCEPT ![a] = @ \ {u}]
    BY <1>6 DEF SweepCloses
  <2>2. t # u /\ port[t] \in {"open", "lost"}
    BY <2>1 DEF ClosePort
  <2>3. UNCHANGED <<transports, pc, tr>>
    BY <1>6 DEF SweepCloses, maps, captured
  <2>4. \A b \in Agents : t \in sweepT[b] => t \in sweepT'[b]
    BY <2>1, <2>2
  <2>5. QED
    BY <1>1, <2>2, <2>3, <2>4 DEF Held
<1>7. CASE \A a \in Agents : ~Holding(a)
  <2>1. port[t] \in {"open", "lost"}
    BY <1>7, HoldersOverStep
  <2>2. /\ transports' = transports /\ sweepT' = sweepT
        /\ \A a \in Agents : pc[a] = "close_port" => pc'[a] = "close_port" /\ tr'[a] = tr[a]
    BY <1>7, HoldersOverStep
  <2>3. QED
    BY <1>1, <2>1, <2>2 DEF Held
<1>8. QED
  BY <1>2, <1>3, <1>4, <1>5, <1>6, <1>7 DEF Holding

\* A second open of a name in use, a close that forgets its handle, and a close of
\* the session between the two would each lose a port: none of them does.
THEOREM NoPortIsLost == Spec => []NoLostPort
<1>1. Init => LostInv
  BY DEF Init, LostInv, HandleKept, SweepEmptied, NoLostPort
<1>2. SessionInv /\ LostInv /\ [Next]_vars => LostInv'
  BY HandleStep, SweepStep, NoLostStep DEF LostInv, SessionInv
<1>3. LostInv => NoLostPort
  BY DEF LostInv
<1>4. QED
  BY <1>1, <1>2, <1>3, SessionInvariant, PTL DEF Spec

-----------------------------------------------------------------------------
(* The connection limit. *)

LEMMA LimitStep ==
  ASSUME TypeOK, LimitHolds, [Next]_vars
  PROVE  LimitHolds'
<1> DEFINE After == {m \in Names : transports'[m] # NIL}
<1>1. IsFiniteSet(InUse) /\ IsFiniteSet(After)
  <2>1. InUse \subseteq Names /\ After \subseteq Names
    BY DEF InUse
  <2>2. QED
    BY <2>1, SessionAssumption, FS_Subset
<1>2. Cardinality(InUse) \in Nat /\ Cardinality(After) \in Nat /\ MaxConns \in Nat
  BY <1>1, FS_CardinalityType, SessionAssumption
<1>3. CASE \A m \in Names : transports'[m] \in {transports[m], NIL}
  <2>1. After \subseteq InUse
    BY <1>3 DEF InUse, IsOpen
  <2>2. Cardinality(After) <= Cardinality(InUse)
    BY <1>1, <2>1, FS_Subset
  <2>3. QED
    BY <1>2, <2>2 DEF LimitHolds, InUse, IsOpen
<1>4. ASSUME NEW a \in Agents, NEW n \in Names, NEW t \in Transports,
             Open(a), call[a].conn = n, ~IsOpen(n),
             transports' = [transports EXCEPT ![n] = t]
      PROVE  LimitHolds'
  <2>1. Cardinality(InUse) < MaxConns
    BY <1>4 DEF Open, MayOpen
  <2>2. After \subseteq InUse \cup {n}
    BY <1>4 DEF InUse, IsOpen, TypeOK
  <2>3. n \notin InUse
    BY <1>4 DEF InUse
  <2>4. IsFiniteSet(InUse \cup {n}) /\ Cardinality(InUse \cup {n}) = Cardinality(InUse) + 1
    BY <1>1, <2>3, FS_AddElement
  <2>5. Cardinality(After) <= Cardinality(InUse \cup {n})
    BY <2>2, <2>4, FS_Subset
  <2> HIDE DEF After
  <2>6. Cardinality(After) <= MaxConns
    BY <1>2, <2>1, <2>4, <2>5
  <2>7. QED
    BY <2>6 DEF LimitHolds, InUse, IsOpen, After
<1>5. QED
  BY <1>3, <1>4, TransportsOverStep

\* The check under the lock of the insert: opens made in parallel never pass
\* the max_connections policy, however many there are.
THEOREM Limit == Spec => []LimitHolds
<1>1. Init => LimitHolds
  <2>1. Init => InUse = {}
    BY DEF Init, InUse, IsOpen
  <2>2. QED
    BY <2>1, FS_EmptySet, SessionAssumption DEF LimitHolds
<1>2. SessionInv => TypeOK
  BY DEF SessionInv
<1>3. TypeOK /\ LimitHolds /\ [Next]_vars => LimitHolds'
  BY LimitStep
<1>4. QED
  BY <1>1, <1>2, <1>3, SessionInvariant, PTL DEF Spec

=============================================================================
