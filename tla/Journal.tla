------------------------------ MODULE Journal ------------------------------
(***************************************************************************)
(* The JSONL journal (journal.py): several JsonlJournal instances, of one  *)
(* process or of several, append to one file under a sidecar lock and      *)
(* rotate it by size; readers take the same lock and read the whole chain  *)
(* .N, ..., .1, live.  A writer may die at any step: the system frees its  *)
(* lock and leaves the files as they are.                                  *)
(*                                                                         *)
(* A line is told apart by its writer and its seq; a file's size is its    *)
(* number of lines.  The threads of one instance are serialized by _lock,  *)
(* so that an instance is one writer here.                                 *)
(***************************************************************************)
EXTENDS Integers, Sequences, SequencesExt

CONSTANTS Writers,    \* JsonlJournal instances
          MaxFiles,   \* max_files: archived parts kept
          MaxLines,   \* max_bytes, in lines
          MaxEvents,  \* bound: calls made by all writers together
          MaxFaults,  \* bound: writers that die and writes cut short
          NoWriter, Missing, Torn

ASSUME JournalAssumption ==
    /\ MaxFiles \in Nat \ {0}
    /\ MaxLines \in Nat \ {0}
    /\ MaxEvents \in Nat /\ MaxFaults \in Nat
    /\ NoWriter \notin Writers
    /\ Missing \notin Seq([by : Writers, seq : Nat] \cup {Torn})  \* no file is no list of lines
    /\ Torn \notin [by : Writers, seq : Nat]                    \* half a line is no line

VARIABLES
    live,    \* the lines of the live file, or Missing
    part,    \* index -> lines of the archived part, or Missing
    lock,    \* holder of the sidecar lock
    step,    \* writer -> where its call is
    seq,     \* writer -> _seq
    pair,    \* writer -> its call has a key conflict and writes two lines
    at,      \* writer -> index of the part to shift next
    log,     \* history: every line that reached the file or was acknowledged
    events,  \* events so far
    faults   \* faults so far

files == <<live, part>>
counters == <<events, faults>>
journalVars == <<files, lock, step, seq, pair, at, log, counters>>

JournalInit ==
    /\ live = Missing
    /\ part = [i \in 1..MaxFiles |-> Missing]
    /\ lock = NoWriter
    /\ step = [w \in Writers |-> "new"]
    /\ seq = [w \in Writers |-> 0]
    /\ pair = [w \in Writers |-> FALSE]
    /\ at = [w \in Writers |-> 0]
    /\ log = <<>>
    /\ events = 0
    /\ faults = 0

GoTo(w, l) == step' = [step EXCEPT ![w] = l]

-----------------------------------------------------------------------------
(* A call. *)

\* __init__: the lock file, then the live file is touched under the lock.
Construct(w) ==
    /\ step[w] = "new"
    /\ lock = NoWriter
    /\ live' = IF live = Missing THEN <<>> ELSE live
    /\ GoTo(w, "idle")
    /\ UNCHANGED <<part, lock, seq, pair, at, log, counters>>

\* _seq advances before the file is touched, whatever becomes of the write.
Event(w) ==
    /\ step[w] = "idle"
    /\ events < MaxEvents
    /\ events' = events + 1
    /\ seq' = [seq EXCEPT ![w] = @ + 1]
    /\ \E conflict \in BOOLEAN : pair' = [pair EXCEPT ![w] = conflict]
    /\ GoTo(w, "wait")
    /\ UNCHANGED <<files, lock, at, log, faults>>

\* Slip: writers do not wait for each other.
NoLocking == TRUE
LockFree  == lock = NoWriter

Full == live # Missing /\ Len(live) >= MaxLines

Acquire(w) ==
    /\ step[w] = "wait"
    /\ LockFree
    /\ lock' = w
    /\ GoTo(w, IF Full THEN "unlink" ELSE "append")
    /\ UNCHANGED <<files, seq, pair, at, log, counters>>

\* msvcrt gives up waiting: the call raises OSError.
AcquireFails(w) ==
    /\ step[w] = "wait"
    /\ lock # NoWriter
    /\ GoTo(w, "idle")
    /\ UNCHANGED <<files, lock, seq, pair, at, log, counters>>

\* _rotate_if_full, one file operation at a time.
UnlinkOldest == part' = [part EXCEPT ![MaxFiles] = Missing]

Unlink(w) ==
    /\ step[w] = "unlink"
    /\ UnlinkOldest
    /\ at' = [at EXCEPT ![w] = MaxFiles - 1]
    /\ GoTo(w, "shift")
    /\ UNCHANGED <<live, lock, seq, pair, log, counters>>

Shift(w) ==
    LET i == at[w] IN
    /\ step[w] = "shift"
    /\ i > 0
    /\ part' = IF part[i] = Missing THEN part
               ELSE [part EXCEPT ![i + 1] = part[i], ![i] = Missing]
    /\ at' = [at EXCEPT ![w] = i - 1]
    /\ UNCHANGED <<live, lock, step, seq, pair, log, counters>>

MoveLive(w) ==
    /\ step[w] = "shift"
    /\ at[w] = 0
    /\ part' = [part EXCEPT ![1] = live]
    /\ live' = Missing
    /\ GoTo(w, "append")
    /\ UNCHANGED <<lock, seq, pair, at, log, counters>>

NewLines(w) ==
    IF pair[w] THEN <<[by |-> w, seq |-> seq[w]], [by |-> w, seq |-> seq[w] + 1]>>
    ELSE <<[by |-> w, seq |-> seq[w]]>>

\* Opened with "a": the file is created when missing, and what is appended to
\* a line without its end becomes part of that line.
Appended(f, lines) ==
    IF f = Missing THEN lines
    ELSE IF f # <<>> /\ lines # <<>> /\ Last(f) = Torn THEN f \o Tail(lines)
    ELSE f \o lines

\* Slip: the lock is kept.
Hang(w)  == UNCHANGED lock

Free(w)  == lock' = IF lock = w THEN NoWriter ELSE lock
Count(w) == IF pair[w] THEN seq[w] + 1 ELSE seq[w]

Append_(w) ==
    /\ step[w] = "append"
    /\ live' = Appended(live, NewLines(w))
    /\ log' = log \o NewLines(w)
    /\ seq' = [seq EXCEPT ![w] = Count(w)]
    /\ Free(w)
    /\ GoTo(w, "idle")
    /\ UNCHANGED <<part, pair, at, counters>>

\* The call raises OSError before anything is written.
AppendFails(w) ==
    /\ step[w] = "append"
    /\ Free(w)
    /\ GoTo(w, "idle")
    /\ UNCHANGED <<files, seq, pair, at, log, counters>>

\* What a write that is cut short leaves: some of the lines, and then perhaps
\* the beginning of the next.
CutShort(w) ==
    \E k \in 0..Len(NewLines(w)) - 1, t \in {<<>>, <<Torn>>} :
       LET whole == SubSeq(NewLines(w), 1, k) IN
       /\ live' = Appended(live, whole \o t)
       /\ log' = log \o whole

\* The disk is full in the middle of the write: the call raises, the writer lives.
WriteCut(w) ==
    /\ step[w] = "append"
    /\ faults < MaxFaults
    /\ faults' = faults + 1
    /\ CutShort(w)
    /\ Free(w)
    /\ GoTo(w, "idle")
    /\ UNCHANGED <<part, seq, pair, at, events>>

\* The process dies; the system frees its lock.
FreeAtDeath(w) == Free(w)

Die(w) ==
    /\ step[w] \notin {"new", "dead", "closed"}
    /\ faults < MaxFaults
    /\ faults' = faults + 1
    /\ \/ UNCHANGED <<live, log>>
       \/ step[w] = "append" /\ CutShort(w)
    /\ FreeAtDeath(w)
    /\ GoTo(w, "dead")
    /\ UNCHANGED <<part, seq, pair, at, events>>

Close(w) ==
    /\ step[w] = "idle"
    /\ GoTo(w, "closed")
    /\ UNCHANGED <<files, lock, seq, pair, at, log, counters>>

Holding(w) == Unlink(w) \/ Shift(w) \/ MoveLive(w) \/ Append_(w) \/ AppendFails(w) \/ WriteCut(w)

JournalNext == \E w \in Writers :
    Construct(w) \/ Event(w) \/ Acquire(w) \/ AcquireFails(w) \/ Holding(w) \/ Die(w) \/ Close(w)

JournalSpec == JournalInit /\ [][JournalNext]_journalVars

\* A writer inside the locked block runs on.  Nothing is assumed of the callers.
JournalFairSpec == JournalSpec /\ \A w \in Writers : WF_journalVars(Holding(w))

-----------------------------------------------------------------------------
(* Reading, under the lock. *)

\* reader_sidecar_lock: a reader waits for the writers' lock.
MayRead == lock = NoWriter

\* chain_files stops at the first index that does not exist.
Archived == {i \in 1..MaxFiles : \A j \in 1..i : part[j] # Missing}

\* read_events_chain: the parts from the oldest to the newest, then the live file.
Joined(parts) ==
    LET older[i \in 0..MaxFiles] ==
            IF i = 0 THEN <<>>
            ELSE IF parts[i] = Missing THEN older[i - 1] ELSE parts[i] \o older[i - 1]
    IN  older

Lines(f) == IF f = Missing THEN <<>> ELSE f

Chain ==
    LET found == [i \in 1..MaxFiles |-> IF i \in Archived THEN part[i] ELSE Missing]
    IN  Joined(found)[MaxFiles] \o Lines(live)

Corrupt == \E i \in DOMAIN Chain : Chain[i] = Torn  \* the read raises JournalCorrupt

-----------------------------------------------------------------------------
(* Properties. *)

\* Whoever reads the chain gets JournalCorrupt, or the newest events without a
\* hole, in the order they were written: rotation, a second writer and a writer
\* that died in the middle of either never lose, repeat or reorder a line in
\* between (read_events_chain: "in chronological order").
ChainIsNewestEvents ==
    MayRead /\ ~Corrupt => IsSuffix(Chain, log)

\* The lock always comes free again.
LockComesFree == \A w \in Writers : lock = w ~> lock # w

=============================================================================
