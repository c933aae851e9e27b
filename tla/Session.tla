------------------------------ MODULE Session ------------------------------
(***************************************************************************)
(* The transport registry of io_core's Session (session.py) under several  *)
(* agent threads, with the background reader threads (serial_reader.py)    *)
(* that its serial connections may carry.                                  *)
(*                                                                         *)
(* The code decides under the session lock and does I/O outside it: every  *)
(* call enters a gate (registry checks and updates, atomic under _lock),   *)
(* keeps the transport and the reader it saw there, and works on those     *)
(* after the lock is released.  A gate is therefore one action, and what   *)
(* follows it is separate actions that any other thread may interleave     *)
(* with.  Only a join on a reader thread is made with the lock held.       *)
(*                                                                         *)
(* Refusals that touch no state (bad hex, sizes and timeouts out of        *)
(* bounds, access policy, journal events) are left out.                    *)
(***************************************************************************)
EXTENDS Naturals, FiniteSets

CONSTANTS Agents,      \* threads that call the session
          Names,       \* connection names
          Transports,  \* transport objects; bound: each is opened at most once
          Readers,     \* SerialReader objects; bound: each is started at most once
          Kinds,       \* kinds of connection in use, "serial" among them
          MaxConns,    \* the max_connections policy
          MaxRx,       \* bound: chunks the device behind one port ever prints
          NIL

ASSUME SessionAssumption ==
    /\ IsFiniteSet(Names)
    /\ "serial" \in Kinds /\ Kinds \subseteq {"serial", "modbus", "mqtt"}
    /\ MaxConns \in Nat \ {0}
    /\ MaxRx \in Nat
    /\ NIL \notin Agents \cup Transports \cup Readers \cup Kinds
    /\ Agents \cap Readers = {}

VARIABLES
    closed,       \* _closed
    slock,        \* the agent that keeps _lock over a join, or NIL
    transports,   \* _transports: name -> transport object or NIL
    kinds,        \* _kinds
    serial_base,  \* _serial_base: name -> the raw serial transport
    readers,      \* _readers: name -> SerialReader
    transfers,    \* _transfers: names with a serial_put/get in flight
    monitors,     \* _monitors: names with a monitor window in flight
    port,         \* transport object -> state of its port
    rx,           \* transport object -> chunks the device has yet to print
    rpc,          \* reader thread -> where it is
    rstop,        \* reader -> its _stop event
    rbase,        \* reader -> the raw transport it drains
    io_lock,      \* reader -> holder of its io_lock, or NIL
    pc,           \* agent -> where its call is
    call,         \* agent -> the call it makes
    tr,           \* agent -> transport object captured at the gate
    rd,           \* agent -> reader captured at the gate
    sweepR,       \* agent inside close(): readers still to stop
    sweepT        \* agent inside close(): transports still to close

maps     == <<transports, kinds, serial_base, readers>>
gates    == <<transfers, monitors>>
threads  == <<rpc, rstop, rbase, io_lock>>
sweep    == <<sweepR, sweepT>>
ports    == <<port, rx>>
captured == <<call, tr, rd>>
vars     == <<closed, slock, maps, gates, ports, threads, pc, captured, sweep>>

Ops == {"open", "write", "read", "reset", "transfer", "monitor", "net",
        "reader_start", "reader_stop", "close_typed", "close_transport", "close"}
CheckedOps == {"open", "transfer", "monitor"}  \* the ones that call _check_open
NoCall    == [op |-> "none", conn |-> NIL, kind |-> NIL]
CloseCall == [op |-> "close", conn |-> NIL, kind |-> NIL]
Call      == [op : Ops \ {"close"}, conn : Names, kind : Kinds] \cup {NoCall, CloseCall}

\* The kinds a call names: open and close pick a method per kind, a network
\* call is a modbus or an mqtt one, every other call is a serial one.
KindsOf(o) ==
    IF o \in {"open", "close_typed"} THEN Kinds
    ELSE IF o = "net" THEN Kinds \ {"serial"} ELSE {"serial"}

TypeOK ==
    /\ closed \in BOOLEAN
    /\ slock \in Agents \cup {NIL}
    /\ transports \in [Names -> Transports \cup {NIL}]
    /\ kinds \in [Names -> Kinds \cup {NIL}]
    /\ serial_base \in [Names -> Transports \cup {NIL}]
    /\ readers \in [Names -> Readers \cup {NIL}]
    /\ transfers \subseteq Names
    /\ monitors \subseteq Names
    /\ port \in [Transports -> {"new", "open", "lost", "stuck", "closed"}]
    /\ rx \in [Transports -> 0..MaxRx]
    /\ rpc \in [Readers -> {"new", "poll", "want", "reading", "dead"}]
    /\ rstop \in [Readers -> BOOLEAN]
    /\ rbase \in [Readers -> Transports \cup {NIL}]
    /\ io_lock \in [Readers -> Agents \cup Readers \cup {NIL}]
    /\ pc \in [Agents -> {"idle", "gate", "wait_io", "io", "leave", "join",
                          "close_port", "sweep", "sweep_join"}]
    /\ call \in [Agents -> Call]
    /\ tr \in [Agents -> Transports \cup {NIL}]
    /\ rd \in [Agents -> Readers \cup {NIL}]
    /\ sweepR \in [Agents -> SUBSET Readers]
    /\ sweepT \in [Agents -> SUBSET Transports]

Init ==
    /\ closed = FALSE
    /\ slock = NIL
    /\ transports = [n \in Names |-> NIL]
    /\ kinds = [n \in Names |-> NIL]
    /\ serial_base = [n \in Names |-> NIL]
    /\ readers = [n \in Names |-> NIL]
    /\ transfers = {}
    /\ monitors = {}
    /\ port = [t \in Transports |-> "new"]
    /\ rx = [t \in Transports |-> MaxRx]
    /\ rpc = [r \in Readers |-> "new"]
    /\ rstop = [r \in Readers |-> FALSE]
    /\ rbase = [r \in Readers |-> NIL]
    /\ io_lock = [r \in Readers |-> NIL]
    /\ pc = [a \in Agents |-> "idle"]
    /\ call = [a \in Agents |-> NoCall]
    /\ tr = [a \in Agents |-> NIL]
    /\ rd = [a \in Agents |-> NIL]
    /\ sweepR = [a \in Agents |-> {}]
    /\ sweepT = [a \in Agents |-> {}]

-----------------------------------------------------------------------------
(* The gates: what each call requires of the registry. *)

IsOpen(n)   == transports[n] # NIL
IsSerial(n) == IsOpen(n) /\ kinds[n] = "serial"
InUse       == {n \in Names : IsOpen(n)}

\* Slips of the gates below, for the mutants: two exchanges at once, a reader
\* under a transfer.
MayOwnTwice(n)           == IsOpen(n) /\ readers[n] = NIL /\ n \notin monitors
MayStartReaderAnytime(n) == serial_base[n] # NIL /\ readers[n] = NIL

MayOpen(n)        == ~IsOpen(n) /\ Cardinality(InUse) < MaxConns
MayWrite(n)       == IsSerial(n) /\ n \notin transfers /\ n \notin monitors
MayRead(n)        == MayWrite(n) /\ readers[n] = NIL
MayOwn(n)         == /\ IsOpen(n)  \* serial_put, serial_get and serial_monitor
                     /\ readers[n] = NIL
                     /\ n \notin transfers
                     /\ n \notin monitors
MayStartReader(n) == /\ serial_base[n] # NIL
                     /\ readers[n] = NIL
                     /\ n \notin transfers
                     /\ n \notin monitors
MayClose(n, k)    == IsOpen(n) /\ kinds[n] = k

SpareReaders == {r \in Readers : rpc[r] = "new"}

Refused(c) ==
    \/ c.op = "open" /\ ~MayOpen(c.conn)
    \/ c.op = "write" /\ ~MayWrite(c.conn)
    \/ c.op = "read" /\ ~MayRead(c.conn)
    \/ c.op = "reset" /\ ~IsSerial(c.conn)
    \/ c.op \in {"transfer", "monitor"} /\ ~MayOwn(c.conn)
    \/ c.op = "net" /\ ~MayClose(c.conn, c.kind)
    \/ c.op = "reader_start" /\ (~MayStartReader(c.conn) \/ SpareReaders = {})  \* bound
    \/ c.op = "reader_stop" /\ readers[c.conn] = NIL
    \/ c.op = "close_typed" /\ ~MayClose(c.conn, c.kind)
    \/ c.op = "close_transport" /\ ~IsOpen(c.conn)

\* The agent's call is over: it holds nothing and remembers nothing.
Return(a) ==
    /\ pc' = [pc EXCEPT ![a] = "idle"]
    /\ call' = [call EXCEPT ![a] = NoCall]
    /\ tr' = [tr EXCEPT ![a] = NIL]
    /\ rd' = [rd EXCEPT ![a] = NIL]

AtGate(a, o) == pc[a] = "gate" /\ call[a].op = o /\ slock = NIL
GoTo(a, l)   == pc' = [pc EXCEPT ![a] = l]
Capture(a, t, r) ==
    /\ tr' = [tr EXCEPT ![a] = t]
    /\ rd' = [rd EXCEPT ![a] = r]
    /\ UNCHANGED call

\* A call begins.  _check_open reads the flag here, before and outside the
\* lock; the calls that do not make that check begin on a closed session too.
Begin(a) ==
    /\ pc[a] = "idle"
    /\ \E o \in Ops \ {"close"}, n \in Names : \E k \in KindsOf(o) :
          /\ o \in CheckedOps => ~closed
          /\ call' = [call EXCEPT ![a] = [op |-> o, conn |-> n, kind |-> k]]
    /\ GoTo(a, "gate")
    /\ UNCHANGED <<closed, slock, maps, gates, ports, threads, tr, rd, sweep>>

\* Session.close raises the flag first, without the lock.
BeginClose(a) ==
    /\ pc[a] = "idle"
    /\ closed' = TRUE
    /\ call' = [call EXCEPT ![a] = CloseCall]
    /\ GoTo(a, "gate")
    /\ UNCHANGED <<slock, maps, gates, ports, threads, tr, rd, sweep>>

Refuse(a) ==
    /\ pc[a] = "gate"
    /\ slock = NIL
    /\ Refused(call[a])
    /\ Return(a)
    /\ UNCHANGED <<closed, slock, maps, gates, ports, threads, sweep>>

-----------------------------------------------------------------------------
(* Opening: check, open and insert in one locked block. *)

Open(a) ==
    LET n == call[a].conn  k == call[a].kind IN
    /\ AtGate(a, "open")
    /\ MayOpen(n)
    /\ \E t \in Transports :
          /\ port[t] = "new"
          /\ port' = [port EXCEPT ![t] = "open"]
          /\ transports' = [transports EXCEPT ![n] = t]
          /\ kinds' = [kinds EXCEPT ![n] = k]
          /\ serial_base' = [serial_base EXCEPT ![n] = IF k = "serial" THEN t ELSE @]
    /\ Return(a)
    /\ UNCHANGED <<closed, slock, readers, gates, rx, threads, sweep>>

\* t.open() raises: the locked block ends before any insert.
OpenFails(a) ==
    /\ AtGate(a, "open")
    /\ MayOpen(call[a].conn)
    /\ Return(a)
    /\ UNCHANGED <<closed, slock, maps, gates, ports, threads, sweep>>

-----------------------------------------------------------------------------
(* I/O on an open connection, outside the session lock. *)

\* serial_write and serial_reset: with a reader attached at the gate the
\* operation goes through that reader's io_lock, otherwise straight to the port.
WriteGate(a, o) ==
    LET n == call[a].conn IN
    /\ AtGate(a, o)
    /\ IF o = "write" THEN MayWrite(n) ELSE IsSerial(n)
    /\ Capture(a, transports[n], readers[n])
    /\ GoTo(a, IF readers[n] = NIL THEN "io" ELSE "wait_io")
    /\ UNCHANGED <<closed, slock, maps, gates, ports, threads, sweep>>

AcquireIo(a) ==
    /\ pc[a] = "wait_io"
    /\ io_lock[rd[a]] = NIL
    /\ io_lock' = [io_lock EXCEPT ![rd[a]] = a]
    /\ GoTo(a, "io")
    /\ UNCHANGED <<closed, slock, maps, gates, ports, rpc, rstop, rbase, captured, sweep>>

\* serial_read, serial_read_line and the modbus/mqtt operations.
ReadGate(a) ==
    LET n == call[a].conn IN
    /\ \/ AtGate(a, "read") /\ MayRead(n)
       \/ AtGate(a, "net") /\ MayClose(n, call[a].kind)
    /\ Capture(a, transports[n], NIL)
    /\ GoTo(a, "io")
    /\ UNCHANGED <<closed, slock, maps, gates, ports, threads, sweep>>

\* serial_put and serial_get: the name is registered for the whole exchange.
TransferGate(a) ==
    LET n == call[a].conn IN
    /\ AtGate(a, "transfer")
    /\ MayOwn(n)
    /\ transfers' = transfers \cup {n}
    /\ Capture(a, transports[n], NIL)
    /\ GoTo(a, "io")
    /\ UNCHANGED <<closed, slock, maps, monitors, ports, threads, sweep>>

MonitorGate(a) ==
    LET n == call[a].conn IN
    /\ AtGate(a, "monitor")
    /\ MayOwn(n)
    /\ monitors' = monitors \cup {n}
    /\ Capture(a, transports[n], NIL)
    /\ GoTo(a, "io")
    /\ UNCHANGED <<closed, slock, maps, transfers, ports, threads, sweep>>

\* Slip: the operation keeps the io_lock.
InIo(a)      == pc[a] = "io"
KeepIo(a)    == UNCHANGED io_lock
ReleaseIo(a) == io_lock' = IF rd[a] = NIL THEN io_lock
                           ELSE [io_lock EXCEPT ![rd[a]] = NIL]

\* The operation on the port ends, with its result or with an exception (a
\* port closed or lost meanwhile).  A captured io_lock is released on both.
EndIo(a) ==
    /\ InIo(a)
    /\ ReleaseIo(a)
    /\ IF call[a].op \in {"transfer", "monitor"}
       THEN GoTo(a, "leave") /\ UNCHANGED captured
       ELSE Return(a)
    /\ UNCHANGED <<closed, slock, maps, gates, ports, rpc, rstop, rbase, sweep>>

\* The finally block of a transfer or of a monitor, under the lock again.
Leave(a) ==
    /\ pc[a] = "leave"
    /\ slock = NIL
    /\ transfers' = IF call[a].op = "transfer" THEN transfers \ {call[a].conn} ELSE transfers
    /\ monitors' = IF call[a].op = "monitor" THEN monitors \ {call[a].conn} ELSE monitors
    /\ Return(a)
    /\ UNCHANGED <<closed, slock, maps, ports, threads, sweep>>

-----------------------------------------------------------------------------
(* The background reader: start, stop, and its own thread. *)

StartReader(a) ==
    LET n == call[a].conn IN
    /\ AtGate(a, "reader_start")
    /\ MayStartReader(n)
    /\ \E r \in SpareReaders :
          /\ readers' = [readers EXCEPT ![n] = r]
          /\ rbase' = [rbase EXCEPT ![r] = serial_base[n]]
          /\ rpc' = [rpc EXCEPT ![r] = "poll"]
    /\ Return(a)
    /\ UNCHANGED <<closed, slock, transports, kinds, serial_base, gates, ports, rstop,
                   io_lock, sweep>>

\* serial_reader_stop keeps the lock while it joins the thread.
StopReader(a) ==
    LET n == call[a].conn IN
    /\ AtGate(a, "reader_stop")
    /\ readers[n] # NIL
    /\ slock' = a
    /\ rstop' = [rstop EXCEPT ![readers[n]] = TRUE]
    /\ Capture(a, NIL, readers[n])
    /\ GoTo(a, "join")
    /\ UNCHANGED <<closed, maps, gates, ports, rpc, rbase, io_lock, sweep>>

\* Slip: the reader is deregistered whatever the join said.
PopReader(a)       == readers' = [readers EXCEPT ![call[a].conn] = NIL]
PopIfConfirmed(a)  == IF rpc[rd[a]] = "dead" THEN PopReader(a) ELSE UNCHANGED readers

\* The join ends when the thread is dead, or after its timeout.  Only a reader
\* confirmed dead is deregistered: a later stop finishes the job.
StopReturns(a) ==
    /\ pc[a] = "join"
    /\ call[a].op = "reader_stop"
    /\ PopIfConfirmed(a)
    /\ slock' = NIL
    /\ Return(a)
    /\ UNCHANGED <<closed, transports, kinds, serial_base, gates, ports, threads, sweep>>

Silent(t) == port[t] \in {"closed", "lost"}  \* in_waiting and read() raise

\* Slip: a loop that does not look at _stop.
NeverTold(r) == FALSE
Told(r)      == rstop[r]

\* The loop head.  With nothing waiting the thread sleeps and comes back here;
\* a dead port goes on to read(), which raises the real error.
ReaderPolls(r) ==
    /\ rpc[r] = "poll"
    /\ \/ Told(r) /\ rpc' = [rpc EXCEPT ![r] = "dead"]
       \/ /\ ~Told(r)
          /\ Silent(rbase[r]) \/ rx[rbase[r]] > 0
          /\ rpc' = [rpc EXCEPT ![r] = "want"]
    /\ UNCHANGED <<closed, slock, maps, gates, ports, rstop, rbase, io_lock, pc, captured, sweep>>

\* The thread takes the io_lock and looks at _stop once more.
ReaderLocks(r) ==
    /\ rpc[r] = "want"
    /\ io_lock[r] = NIL
    /\ IF rstop[r]
       THEN rpc' = [rpc EXCEPT ![r] = "dead"] /\ UNCHANGED io_lock
       ELSE /\ rpc' = [rpc EXCEPT ![r] = "reading"]
            /\ io_lock' = [io_lock EXCEPT ![r] = r]
    /\ UNCHANGED <<closed, slock, maps, gates, ports, rstop, rbase, pc, captured, sweep>>

ReaderReads(r) ==
    LET t == rbase[r] IN
    /\ rpc[r] = "reading"
    /\ io_lock' = [io_lock EXCEPT ![r] = NIL]
    /\ IF Silent(t)
       THEN rpc' = [rpc EXCEPT ![r] = "dead"] /\ UNCHANGED rx
       ELSE /\ rpc' = [rpc EXCEPT ![r] = "poll"]
            /\ rx' = [rx EXCEPT ![t] = IF @ > 0 THEN @ - 1 ELSE 0]
    /\ UNCHANGED <<closed, slock, maps, gates, port, rstop, rbase, pc, captured, sweep>>

-----------------------------------------------------------------------------
(* Closing one connection. *)

\* Slip: the handle is dropped and never closed.
DropPort(t) == UNCHANGED port

\* t.close(): it may raise, and the port then stays half open.
ClosePort(t) == \E s \in {"closed", "stuck"} : port' = [port EXCEPT ![t] = s]

\* Slip: the kind of a closed name is forgotten.
DropNameKeepKind(n) ==
    /\ transports' = [transports EXCEPT ![n] = NIL]
    /\ serial_base' = [serial_base EXCEPT ![n] = NIL]
    /\ UNCHANGED kinds

\* The three dels of a close, with the handle the caller goes on to close.
DropName(n) ==
    /\ transports' = [transports EXCEPT ![n] = NIL]
    /\ kinds' = [kinds EXCEPT ![n] = NIL]
    /\ serial_base' = [serial_base EXCEPT ![n] = NIL]

\* _close_typed closes the port before it gives the lock back, close_transport after.
Drop(a, n, t) ==
    /\ DropName(n)
    /\ slock' = NIL
    /\ IF call[a].op = "close_typed"
       THEN ClosePort(t) /\ Return(a)
       ELSE UNCHANGED <<port, captured>> /\ GoTo(a, "close_port")

CloseGate(a) ==
    LET n == call[a].conn  r == readers[n] IN
    /\ \/ AtGate(a, "close_typed") /\ MayClose(n, call[a].kind)
       \/ AtGate(a, "close_transport") /\ IsOpen(n)
    /\ readers' = [readers EXCEPT ![n] = NIL]
    /\ rstop' = IF r = NIL THEN rstop ELSE [rstop EXCEPT ![r] = TRUE]
    /\ slock' = a
    /\ Capture(a, transports[n], r)
    /\ GoTo(a, "join")
    /\ UNCHANGED <<closed, transports, kinds, serial_base, gates, ports, rpc, rbase, io_lock, sweep>>

\* The implicit stop is over - thread dead or join timed out - and the name goes.
CloseDrops(a) ==
    /\ pc[a] = "join"
    /\ call[a].op \in {"close_typed", "close_transport"}
    /\ Drop(a, call[a].conn, tr[a])
    /\ UNCHANGED <<closed, readers, gates, rx, threads, sweep>>

CloseTransportEnds(a) ==
    /\ pc[a] = "close_port"
    /\ ClosePort(tr[a])
    /\ Return(a)
    /\ UNCHANGED <<closed, slock, maps, gates, rx, threads, sweep>>

-----------------------------------------------------------------------------
(* Closing the session. *)

Attached        == {readers[n] : n \in Names} \ {NIL}
ReadersSwept(a) == sweepR[a] = {}

\* Under the lock: snapshot and clear; transfers and monitors keep their names.
CloseSnapshot(a) ==
    /\ AtGate(a, "close")
    /\ sweepR' = [sweepR EXCEPT ![a] = Attached]
    /\ sweepT' = [sweepT EXCEPT ![a] = {transports[n] : n \in Names} \ {NIL}]
    /\ transports' = [n \in Names |-> NIL]
    /\ kinds' = [n \in Names |-> NIL]
    /\ serial_base' = [n \in Names |-> NIL]
    /\ readers' = [n \in Names |-> NIL]
    /\ GoTo(a, "sweep")
    /\ UNCHANGED <<closed, slock, gates, ports, threads, captured>>

SweepStops(a) ==
    /\ pc[a] = "sweep"
    /\ \E r \in sweepR[a] :
          /\ rstop' = [rstop EXCEPT ![r] = TRUE]
          /\ rd' = [rd EXCEPT ![a] = r]
          /\ sweepR' = [sweepR EXCEPT ![a] = @ \ {r}]
    /\ GoTo(a, "sweep_join")
    /\ UNCHANGED <<closed, slock, maps, gates, ports, rpc, rbase, io_lock, call, tr, sweepT>>

SweepJoined(a) ==
    /\ pc[a] = "sweep_join"
    /\ GoTo(a, "sweep")
    /\ rd' = [rd EXCEPT ![a] = NIL]
    /\ UNCHANGED <<closed, slock, maps, gates, ports, threads, call, tr, sweep>>

\* One failing close does not keep the others open.
SweepCloses(a) ==
    /\ pc[a] = "sweep"
    /\ ReadersSwept(a)
    /\ \E t \in sweepT[a] :
          /\ ClosePort(t)
          /\ sweepT' = [sweepT EXCEPT ![a] = @ \ {t}]
    /\ UNCHANGED <<closed, slock, maps, gates, rx, threads, pc, captured, sweepR>>

CloseReturns(a) ==
    /\ pc[a] = "sweep"
    /\ sweepR[a] = {}
    /\ sweepT[a] = {}
    /\ Return(a)
    /\ UNCHANGED <<closed, slock, maps, gates, ports, threads, sweep>>

\* The cable is pulled: every later read raises.
Unplug(t) ==
    /\ port[t] = "open"
    /\ port' = [port EXCEPT ![t] = "lost"]
    /\ UNCHANGED <<closed, slock, maps, gates, rx, threads, pc, captured, sweep>>

-----------------------------------------------------------------------------
\* What an agent inside a call does next.
AgentStep(a) ==
    \/ Refuse(a)
    \/ Open(a) \/ OpenFails(a)
    \/ WriteGate(a, "write") \/ WriteGate(a, "reset") \/ AcquireIo(a)
    \/ ReadGate(a)
    \/ TransferGate(a) \/ MonitorGate(a)
    \/ EndIo(a) \/ Leave(a)
    \/ StartReader(a)
    \/ StopReader(a) \/ StopReturns(a)
    \/ CloseGate(a) \/ CloseDrops(a) \/ CloseTransportEnds(a)
    \/ CloseSnapshot(a) \/ SweepStops(a) \/ SweepJoined(a) \/ SweepCloses(a)
    \/ CloseReturns(a)

ReaderStep(r) == ReaderPolls(r) \/ ReaderLocks(r) \/ ReaderReads(r)

Next ==
    \/ \E a \in Agents : Begin(a) \/ BeginClose(a) \/ AgentStep(a)
    \/ \E r \in Readers : ReaderStep(r)
    \/ \E t \in Transports : Unplug(t)

Spec == Init /\ [][Next]_vars

\* Threads that are inside a call or inside the reader's loop keep running.
\* Nothing is assumed of the agents' choice to call, of the device, or of the
\* clock: a join is only forced to end once its thread is dead.
Joined(a) == pc[a] \in {"join", "sweep_join"} /\ rd[a] # NIL => rpc[rd[a]] = "dead"
Fairness ==
    /\ \A a \in Agents : WF_vars(AgentStep(a) /\ Joined(a))
    /\ \A r \in Readers :
          /\ WF_vars(ReaderPolls(r) /\ (rstop[r] \/ Silent(rbase[r])))
          /\ WF_vars(ReaderLocks(r))
          /\ WF_vars(ReaderReads(r))
FairSpec == Spec /\ Fairness

-----------------------------------------------------------------------------
(* Safety. *)

\* The dictionaries agree: a name is in all of them or in none, serial_base
\* holds exactly the serial connections, and a reader is attached only to an
\* open serial connection and drains that connection's own raw transport
\* (session.py: "keep the two registries in lockstep").
RegistriesAgree ==
    \A n \in Names :
       /\ transports[n] = NIL <=> kinds[n] = NIL
       /\ serial_base[n] = IF kinds[n] = "serial" THEN transports[n] ELSE NIL
       /\ readers[n] # NIL => /\ serial_base[n] # NIL
                              /\ rbase[readers[n]] = serial_base[n]

\* Opens made in parallel never pass the max_connections policy
\* (_check_connection_limit under the insert's lock).
LimitHolds == Cardinality(InUse) <= MaxConns

\* The read side of a connection has at most one registered owner: a
\* background reader, a raw REPL transfer or a monitor.
OneReadOwner ==
    \A n \in Names :
       /\ readers[n] # NIL => n \notin transfers /\ n \notin monitors
       /\ ~(n \in transfers /\ n \in monitors)

Owning(a, o, n) == pc[a] \in {"io", "leave"} /\ call[a].op = o /\ call[a].conn = n

\* A name is registered in _transfers or _monitors exactly while one call is
\* inside its exchange: a closed connection, a failed exchange or a reopened
\* name never leaves a registration behind (it would refuse every later read)
\* and never takes away another call's.
RegistrationsAreLive ==
    \A n \in Names :
       /\ n \in transfers <=> \E a \in Agents : Owning(a, "transfer", n)
       /\ n \in monitors <=> \E a \in Agents : Owning(a, "monitor", n)
       /\ \A a, b \in Agents, o \in {"transfer", "monitor"} :
             Owning(a, o, n) /\ Owning(b, o, n) => a = b

\* While a transfer or a monitor works on a port no background reader thread of
\* that port is alive: none attached, and none deregistered but still draining
\* (the zombie of serial_reader_stop's docstring).
NoThief ==
    \A a \in Agents, r \in Readers :
       /\ pc[a] = "io"
       /\ call[a].op \in {"transfer", "monitor"}
       /\ rbase[r] = tr[a]
       => rpc[r] = "dead"

\* A port that was opened and not closed is one the session can still close:
\* registered, or held by a close in progress.  A second open of a name in use
\* would lose the first port (the comment in serial_open), and so would a close
\* that forgets its handle.
NoLostPort ==
    \A t \in Transports : port[t] \in {"open", "lost"} =>
       \/ \E n \in Names : transports[n] = t
       \/ \E a \in Agents : t \in sweepT[a] \/ (pc[a] = "close_port" /\ tr[a] = t)

(* Liveness, under FairSpec. *)

\* Session.close gets through its sweep.
CloseCompletes == \A a \in Agents : pc[a] = "sweep" ~> pc[a] = "idle"

Registered(r) == \E n \in Names : readers[n] = r

\* A reader that was started and has left the registry ends: no thread goes on
\* draining a connection the session has dropped ("the dying port ends the thread").
DroppedReaderEnds ==
    \A r \in Readers : (rpc[r] # "new" /\ ~Registered(r)) ~> rpc[r] = "dead"

=============================================================================
