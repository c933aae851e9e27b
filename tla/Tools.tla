------------------------------- MODULE Tools -------------------------------
(***************************************************************************)
(* Parallel tool calls of the MCP server (mcp_server.py) on the lazily     *)
(* made Session, which reset_session may take away; on a connection behind *)
(* its rate limit and its inactivity deadline (limits.py); and on the      *)
(* files of the sandbox with their quotas (file_sandbox.py).               *)
(***************************************************************************)
EXTENDS Naturals, FiniteSets, Sequences

CONSTANTS
    Callers, Files,
    MaxBytes, MaxFiles,     \* the sandbox quotas
    MaxCalls, Period,       \* the rate limit: calls per window
    Idle,                   \* the inactivity deadline
    MaxTime, MaxOps,        \* bounds: the clock, and calls made
    MaxSessions,            \* bound: sessions ever built
    NIL

ASSUME ToolsAssumption ==
    /\ {MaxBytes, MaxFiles, Period, Idle, MaxTime, MaxOps, MaxSessions} \subseteq Nat
    /\ MaxCalls \in Nat \ {0}
    /\ IsFiniteSet(Files)
    /\ NIL \notin Nat \cup Callers

Sessions == 1..MaxSessions

VARIABLES
    current,        \* _session: a session, or 0 for None
    built, closed,  \* sessions built so far; those closed
    singleton,      \* who holds _session_lock in reset_session
    pc, op, mine,   \* per caller: its place, its tool, its session
    outcome,        \* per caller: how its last call ended
    link,           \* per session: its connection's limits
    now, ops,       \* the clock, and calls made
    size,           \* the sandbox tree: bytes of each file, or NIL
    fsLock          \* per session: who holds its sandbox's lock

server == <<current, built, closed, singleton>>
call == <<pc, op, mine, outcome>>
tree == <<size, fsLock>>
vars == <<server, call, link, now, ops, tree>>

(* A connection: its deadline's _started, its limiter's window and count.  *)
(* passes and oks are history: when calls passed the limiter, and when an  *)
(* operation last succeeded.                                               *)
NoLink == [open |-> FALSE, started |-> 0, window |-> NIL, used |-> 0,
           passes |-> <<>>, ok |-> 0]

Init ==
    /\ current = 0 /\ built = 0 /\ closed = {} /\ singleton = NIL
    /\ pc = [c \in Callers |-> "idle"] /\ op = [c \in Callers |-> NIL]
    /\ mine = [c \in Callers |-> 0] /\ outcome = [c \in Callers |-> "none"]
    /\ link = [s \in Sessions |-> NoLink]
    /\ now = 0 /\ ops = 0
    /\ size = [f \in Files |-> NIL] /\ fsLock = [s \in Sessions |-> NIL]

Tick ==
    /\ now < MaxTime
    /\ now' = now + 1
    /\ UNCHANGED <<server, call, link, ops, tree>>

Goto(c, place) == pc' = [pc EXCEPT ![c] = place] /\ UNCHANGED <<op, mine, outcome>>

(* A call ends: its caller forgets its session and its arguments. *)
Ends(c, how) ==
    /\ pc' = [pc EXCEPT ![c] = "idle"] /\ op' = [op EXCEPT ![c] = NIL]
    /\ mine' = [mine EXCEPT ![c] = 0] /\ outcome' = [outcome EXCEPT ![c] = how]

IsOpen(s) == s \notin closed

-----------------------------------------------------------------------------
(* The session of the server. *)

ToolCalls ==
    [tool : {"io"}] \cup [tool : {"file_write"}, file : Files, bytes : 1..MaxBytes]
    \cup [tool : {"file_delete"}, file : Files]

(* A call begins with the unlocked look at _session. *)
Call(c) ==
    /\ pc[c] = "idle" /\ ops < MaxOps
    /\ \E o \in ToolCalls : op' = [op EXCEPT ![c] = o]
    /\ ops' = ops + 1
    /\ pc' = [pc EXCEPT ![c] = IF current = 0 THEN "build" ELSE "take"]
    /\ UNCHANGED <<mine, outcome, server, link, now, tree>>

(* The locked second look, and the constructor.  (A slip: without it.) *)
BuildAnyway(c) ==
    /\ pc[c] = "build" /\ singleton = NIL /\ built < MaxSessions
    /\ built' = built + 1 /\ current' = built + 1
    /\ Goto(c, "take")
    /\ UNCHANGED <<closed, singleton, link, now, ops, tree>>

Build(c) ==
    /\ pc[c] = "build" /\ singleton = NIL
    /\ IF current # 0 THEN UNCHANGED <<built, current>>
       ELSE built < MaxSessions /\ built' = built + 1 /\ current' = built + 1
    /\ Goto(c, "take")
    /\ UNCHANGED <<closed, singleton, link, now, ops, tree>>

(* get_session returns what _session is by then: None, if a reset came     *)
(* between, and the tool fails on it.                                      *)
Take(c) ==
    /\ pc[c] = "take"
    /\ IF current = 0 THEN Ends(c, "crash")
       ELSE /\ mine' = [mine EXCEPT ![c] = current]
            /\ pc' = [pc EXCEPT ![c] = "gate"]
            /\ UNCHANGED <<op, outcome>>
    /\ UNCHANGED <<server, link, now, ops, tree>>

(* reset_session, under the lock: close, then forget. *)
ResetCloses(c) ==
    /\ pc[c] = "idle" /\ ops < MaxOps /\ singleton = NIL /\ built < MaxSessions
    /\ ops' = ops + 1
    /\ singleton' = c
    /\ closed' = IF current = 0 THEN closed ELSE closed \cup {current}
    /\ Goto(c, "forget")
    /\ UNCHANGED <<current, built, link, now, tree>>

ResetForgets(c) ==
    /\ pc[c] = "forget"
    /\ current' = 0 /\ singleton' = NIL
    /\ Goto(c, "idle")
    /\ UNCHANGED <<built, closed, link, now, ops, tree>>

-----------------------------------------------------------------------------
(* A call on the connection, through RateLimitedTransport and then         *)
(* DeadlineTransport; the first one opens it.                              *)

At(c, place, tool) == pc[c] = place /\ op[c].tool = tool

OpenLink(c) ==
    LET s == mine[c] IN
    /\ At(c, "gate", "io") /\ IsOpen(s) /\ ~link[s].open
    /\ link' = [link EXCEPT ![s] = [NoLink EXCEPT !.open = TRUE, !.started = now, !.ok = now]]
    /\ Ends(c, "ok")
    /\ UNCHANGED <<server, now, ops, tree>>

NoSession(c) ==
    /\ pc[c] = "gate" /\ ~IsOpen(mine[c])
    /\ Ends(c, "closed")
    /\ UNCHANGED <<server, link, now, ops, tree>>

(* RateLimiter.acquire: a new window once the old one is over. *)
NeverOver(l) == l.window = NIL
WindowOver(l) == l.window = NIL \/ now - l.window >= Period

Rated(l) == IF WindowOver(l) THEN [l EXCEPT !.window = now, !.used = 1]
                             ELSE [l EXCEPT !.used = @ + 1]

RateGate(c) ==
    LET s == mine[c]  l == Rated(link[s]) IN
    /\ At(c, "gate", "io") /\ IsOpen(s) /\ link[s].open
    /\ IF l.used > MaxCalls
       THEN link' = [link EXCEPT ![s] = l] /\ Ends(c, "rate")
       ELSE /\ link' = [link EXCEPT ![s] = [l EXCEPT !.passes = Append(@, now)]]
            /\ Goto(c, "deadline")
    /\ UNCHANGED <<server, now, ops, tree>>

Stale(l) == now - l.started > Idle

DeadlineGate(c) ==
    LET s == mine[c] IN
    /\ pc[c] = "deadline"
    /\ IF Stale(link[s]) THEN Ends(c, "stale") ELSE Goto(c, "device")
    /\ UNCHANGED <<server, link, now, ops, tree>>

(* Success, and only success, begins a new window of inactivity. *)
DeviceOk(c) ==
    LET s == mine[c] IN
    /\ pc[c] = "device" /\ IsOpen(s)
    /\ link' = [link EXCEPT ![s].started = now, ![s].ok = now]
    /\ Ends(c, "ok")
    /\ UNCHANGED <<server, now, ops, tree>>

DeviceFails(c) ==
    /\ pc[c] = "device"
    /\ Ends(c, "failed")
    /\ UNCHANGED <<server, link, now, ops, tree>>

-----------------------------------------------------------------------------
(* The sandbox. *)

Present == {f \in Files : size[f] # NIL}
Bytes(f) == IF size[f] = NIL THEN 0 ELSE size[f]
Stored == UNION {{f} \X (1..Bytes(f)) : f \in Present}  \* by file and offset
UsedBytes == Cardinality(Stored)

FileGate(c) ==
    /\ pc[c] = "gate" /\ op[c].tool # "io" /\ IsOpen(mine[c])
    /\ Goto(c, "lock")
    /\ UNCHANGED <<server, link, now, ops, tree>>

(* with self._lock.  (A slip: no lock.) *)
Unguarded(s, c) == UNCHANGED fsLock
Acquires(s, c) == fsLock[s] = NIL /\ fsLock' = [fsLock EXCEPT ![s] = c]
Releases(s) == fsLock' = [fsLock EXCEPT ![s] = NIL]

LockFiles(c) ==
    /\ pc[c] = "lock"
    /\ Acquires(mine[c], c)
    /\ Goto(c, "files")
    /\ UNCHANGED <<server, link, now, ops, size>>

(* _check_quota: an overwrite counts for what it adds. *)
Adds(o) == IF o.bytes > Bytes(o.file) THEN o.bytes - Bytes(o.file) ELSE 0
Fits(o) ==
    /\ UsedBytes + Adds(o) <= MaxBytes
    /\ Cardinality(Present \cup {o.file}) <= MaxFiles

CheckQuota(c) ==
    /\ At(c, "files", "file_write")
    /\ IF Fits(op[c]) THEN Goto(c, "put") /\ UNCHANGED fsLock
       ELSE Ends(c, "quota") /\ Releases(mine[c])
    /\ UNCHANGED <<server, link, now, ops, size>>

(* write_bytes truncates and writes; a full disk leaves a part. *)
Put(c) ==
    LET o == op[c] IN
    /\ pc[c] = "put"
    /\ \/ size' = [size EXCEPT ![o.file] = o.bytes] /\ Goto(c, "emit")
       \/ \E part \in 0..(o.bytes - 1) :
            size' = [size EXCEPT ![o.file] = part] /\ Ends(c, "failed")
    /\ Releases(mine[c])
    /\ UNCHANGED <<server, link, now, ops>>

Delete(c) ==
    LET f == op[c].file IN
    /\ At(c, "files", "file_delete")
    /\ IF size[f] = NIL THEN Ends(c, "failed") /\ UNCHANGED size
       ELSE Goto(c, "emit") /\ size' = [size EXCEPT ![f] = NIL]
    /\ Releases(mine[c])
    /\ UNCHANGED <<server, link, now, ops>>

(* The event is journaled after the lock: a session closed meanwhile has   *)
(* closed its journal, and the caller is told of an error.                 *)
Emit(c) ==
    /\ pc[c] = "emit"
    /\ Ends(c, IF IsOpen(mine[c]) THEN "ok" ELSE "unjournaled")
    /\ UNCHANGED <<server, link, now, ops, tree>>

-----------------------------------------------------------------------------
Step(c) ==
    \/ Build(c) \/ Take(c) \/ ResetForgets(c)
    \/ OpenLink(c) \/ NoSession(c) \/ RateGate(c) \/ DeadlineGate(c) \/ DeviceOk(c)
    \/ DeviceFails(c) \/ FileGate(c) \/ LockFiles(c) \/ CheckQuota(c) \/ Put(c)
    \/ Delete(c) \/ Emit(c)

Next == Tick \/ \E c \in Callers : Call(c) \/ ResetCloses(c) \/ Step(c)

Spec == Init /\ [][Next]_vars

-----------------------------------------------------------------------------
(* Properties. *)

(* Racing first calls build one session: two would split the events over   *)
(* two journals and leak a handle.                                         *)
OneLiveSession == Cardinality((1..built) \ closed) <= 1

(* Writers who all fit the quota one by one never break it together, and a *)
(* short write does not either.  Two sessions have two locks: the quota is *)
(* the promise of one.                                                     *)
QuotaKept ==
    built <= 1 => UsedBytes <= MaxBytes /\ Cardinality(Present) <= MaxFiles

Newly(c, how) == mine[c] # 0 /\ pc'[c] = "idle" /\ outcome'[c] = how

(* A call is denied by the rate limit only if the limit was used up within *)
(* the last Period (denied calls do not keep a window open), and as stale  *)
(* only if nothing succeeded within the last Idle, whoever called: both    *)
(* checks read what other calls may change before they are acted on.       *)
Earned ==
    \A c \in Callers :
        LET l == link[mine[c]] IN
        /\ Newly(c, "rate") =>
              Cardinality({k \in DOMAIN l.passes : l.passes[k] + Period > now}) >= MaxCalls
        /\ Newly(c, "stale") => now - l.ok > Idle
DenialsAreEarned == [][Earned]_vars
=============================================================================
