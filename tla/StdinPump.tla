----------------------------- MODULE StdinPump -----------------------------
(***************************************************************************)
(* The asynchronous stdin pump of the runners (_StdinWriter in             *)
(* runner_common.py): one thread writes lines and never blocks, a daemon   *)
(* thread puts them into the child's stdin pipe and blocks when it is full. *)
(*                                                                         *)
(* A line is the number of the write() that offered it, and every line has *)
(* length one: the cap counts lines.                                       *)
(***************************************************************************)
EXTENDS Naturals, Sequences

CONSTANTS MaxPending,  \* MAX_PENDING_BYTES, in lines
          PipeSize     \* lines the system's pipe holds

ASSUME PumpAssumption == MaxPending \in Nat /\ PipeSize \in Nat \ {0}

VARIABLES
    queue,     \* _queue
    pending,   \* _pending
    overflow,  \* _overflow
    broken,    \* _broken
    closing,   \* _closing
    wake,      \* _wake is set
    ppc,       \* where the pump thread is
    hand,      \* the line it has popped, as a sequence of at most one
    wpc,       \* the writing thread: out of write() and close(), or before its _wake.set()
    offered,   \* calls of write() so far
    pipe,      \* lines in the pipe
    got,       \* lines the child has read
    readable,  \* the child's end of the pipe is open
    stdin      \* the runner's end of the pipe is open

flags    == <<overflow, broken, closing>>
backlog  == <<queue, pending>>
channel  == <<pipe, got, readable, stdin>>
pumpVars == <<backlog, flags, wake, ppc, hand, wpc, offered, channel>>

PumpTypeOK ==
    /\ queue \in Seq(Nat) /\ hand \in Seq(Nat) /\ pipe \in Seq(Nat) /\ got \in Seq(Nat)
    /\ pending \in Nat /\ offered \in Nat
    /\ overflow \in BOOLEAN /\ broken \in BOOLEAN /\ closing \in BOOLEAN /\ wake \in BOOLEAN
    /\ ppc \in {"wait", "pop", "write", "blocked", "fail", "check", "dead"}
    /\ wpc \in {"out", "set"}
    /\ readable \in BOOLEAN /\ stdin \in BOOLEAN

PumpInit ==
    /\ queue = <<>> /\ pending = 0
    /\ overflow = FALSE /\ broken = FALSE /\ closing = FALSE
    /\ wake = FALSE
    /\ ppc = "wait" /\ hand = <<>>
    /\ wpc = "out" /\ offered = 0
    /\ pipe = <<>> /\ got = <<>>
    /\ readable = TRUE /\ stdin = TRUE

-----------------------------------------------------------------------------
(* The writing thread. *)

Refuses   == broken \/ overflow
Overflows == ~Refuses /\ pending + 1 > MaxPending

\* The locked block of write().
Write ==
    /\ wpc = "out"
    /\ offered' = offered + 1
    /\ overflow' = (overflow \/ Overflows)
    /\ IF Refuses \/ Overflows
       THEN UNCHANGED <<backlog, wpc>>
       ELSE /\ queue' = Append(queue, offered + 1)
            /\ pending' = pending + 1
            /\ wpc' = "set"
    /\ UNCHANGED <<broken, closing, wake, ppc, hand, channel>>

\* close() up to its _wake.set().
CloseWriter ==
    /\ wpc = "out"
    /\ closing' = TRUE
    /\ wpc' = "set"
    /\ UNCHANGED <<backlog, overflow, broken, wake, ppc, hand, offered, channel>>

\* _wake.set(), after the lock was released.
SetWake ==
    /\ wpc = "set"
    /\ wake' = TRUE
    /\ wpc' = "out"
    /\ UNCHANGED <<backlog, flags, ppc, hand, offered, channel>>

\* stdin.close() takes the stream's own lock: it waits for a write in progress.
StreamFree  == ppc # "blocked"
CloseStdin ==
    /\ StreamFree
    /\ stdin' = FALSE
    /\ UNCHANGED <<backlog, flags, wake, ppc, hand, wpc, offered, pipe, got, readable>>

-----------------------------------------------------------------------------
(* The pump thread. *)

PumpWakes ==
    /\ ppc = "wait"
    /\ wake
    /\ ppc' = "pop"
    /\ UNCHANGED <<backlog, flags, wake, hand, wpc, offered, channel>>

PumpPops ==
    /\ ppc = "pop"
    /\ IF queue = <<>>
       THEN ppc' = "check" /\ UNCHANGED <<backlog, hand>>
       ELSE /\ hand' = <<Head(queue)>>
            /\ queue' = Tail(queue)
            /\ pending' = pending - 1
            /\ ppc' = "write"
    /\ UNCHANGED <<flags, wake, wpc, offered, channel>>

Open == readable /\ stdin

\* stdin.write() and flush() go through ...
PumpWrites ==
    /\ ppc \in {"write", "blocked"}
    /\ Open
    /\ Len(pipe) < PipeSize
    /\ pipe' = pipe \o hand
    /\ hand' = <<>>
    /\ ppc' = "pop"
    /\ UNCHANGED <<backlog, flags, wake, wpc, offered, got, readable, stdin>>

\* ... or block, inside the stream's lock, until the child reads ...
PumpBlocks ==
    /\ ppc = "write"
    /\ Open
    /\ Len(pipe) >= PipeSize
    /\ ppc' = "blocked"
    /\ UNCHANGED <<backlog, flags, wake, hand, wpc, offered, channel>>

\* ... or raise: the child is gone, or the stream was closed.
PumpFails ==
    /\ ppc \in {"write", "blocked"}
    /\ ~Open
    /\ ppc' = "fail"
    /\ UNCHANGED <<backlog, flags, wake, hand, wpc, offered, channel>>

\* Slip: the backlog is dropped and nobody is told.
PumpGivesUp ==
    /\ ppc = "fail"
    /\ queue' = <<>>
    /\ pending' = 0
    /\ hand' = <<>>
    /\ ppc' = "dead"
    /\ UNCHANGED <<flags, wake, wpc, offered, channel>>

PumpLatches ==
    /\ ppc = "fail"
    /\ broken' = TRUE
    /\ queue' = <<>>
    /\ pending' = 0
    /\ hand' = <<>>
    /\ ppc' = "dead"
    /\ UNCHANGED <<overflow, closing, wake, wpc, offered, channel>>

\* Slip: the wake-up is cleared without looking at the queue.
Idle    == TRUE
Drained == queue = <<>>

\* The locked block at the end of the drain.
PumpChecks ==
    /\ ppc = "check"
    /\ IF Drained /\ closing
       THEN ppc' = "dead" /\ UNCHANGED wake
       ELSE /\ ppc' = "wait"
            /\ wake' = (wake /\ ~Drained)
    /\ UNCHANGED <<backlog, flags, hand, wpc, offered, channel>>

PumpStep == PumpWakes \/ PumpPops \/ PumpWrites \/ PumpBlocks \/ PumpFails
            \/ PumpLatches \/ PumpChecks

-----------------------------------------------------------------------------
(* The child's end of the pipe. *)

ChildReads ==
    /\ readable
    /\ pipe # <<>>
    /\ got' = Append(got, Head(pipe))
    /\ pipe' = Tail(pipe)
    /\ UNCHANGED <<backlog, flags, wake, ppc, hand, wpc, offered, readable, stdin>>

\* The child exits, is killed, or closes its stdin.
ChildLeaves ==
    /\ readable' = FALSE
    /\ UNCHANGED <<backlog, flags, wake, ppc, hand, wpc, offered, pipe, got, stdin>>

PumpNext == Write \/ CloseWriter \/ SetWake \/ CloseStdin \/ PumpStep \/ ChildReads \/ ChildLeaves
PumpSpec == PumpInit /\ [][PumpNext]_pumpVars

-----------------------------------------------------------------------------
(* Safety. *)

\* The lines of s are n + 1, n + 2, ...
Continues(s, n) == \A i \in 1..Len(s) : s[i] = n + i

\* What the child has read, what is in the pipe, in the pump's hand and in the
\* queue are the lines 1, 2, 3, ... in this order: none is skipped, doubled or
\* overtaken.  A line that is in none of them was lost in the open: overflow or
\* broken is set.  And the backlog is bounded ("turns that hang into a bounded
\* backlog").
LinesInOrder ==
    LET inPipe == Len(got)
        inHand == inPipe + Len(pipe)
        inQueue == inHand + Len(hand)
    IN  /\ Continues(got, 0)
        /\ Continues(pipe, inPipe)
        /\ Continues(hand, inHand)
        /\ Continues(queue, inQueue)
        /\ inQueue + Len(queue) < offered => overflow \/ broken
        /\ pending = Len(queue)
        /\ pending <= MaxPending

\* The pump never sleeps on work: while it waits with its wake-up cleared, the
\* queue is empty and the pump is not closing, or the thread that changed this
\* is about to set the wake-up.
NoLostWakeup ==
    ppc = "wait" /\ ~wake => \/ queue = <<>> /\ ~closing
                             \/ wpc = "set"

=============================================================================
