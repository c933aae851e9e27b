------------------------------ MODULE UnixRun ------------------------------
(***************************************************************************)
(* One run of a firmware on the unix target (runner_unix.py, _run_unix):   *)
(* the main thread drives the stimulus and waits for answers, a reader     *)
(* thread ingests the firmware's output with stamps, the stdin pump        *)
(* delivers what was written, and the firmware - honest, or a dump that    *)
(* prints answers nobody has asked for - runs beside them.  A stamp is     *)
(* modelled as the number of triggers stamped before it, which is all the  *)
(* anti-cheat compares.                                                    *)
(***************************************************************************)
EXTENDS Naturals, Sequences, FiniteSets

CONSTANTS
    Stimulus,   \* Seq of steps: "write" (or a publish), "wait", "collect", "delay"
    MaxNoise,   \* bound: lines the firmware prints that are no answer
    MaxText,    \* the cap of retained output, in lines
    NotYet      \* the stamp of what has not happened

ASSUME UnixRunAssumption ==
    /\ Stimulus \in Seq({"write", "wait", "collect", "delay"})
    /\ {MaxNoise, MaxText} \subseteq Nat
    /\ NotYet \notin Nat

StepsBefore(i, kind) == {j \in 1..(i - 1) : Stimulus[j] = kind}
Count(i, kind) == Cardinality(StepsBefore(i, kind))
Waits == Count(Len(Stimulus) + 1, "wait")
Triggers == Count(Len(Stimulus) + 1, "write")

(* The wait at step i is for needle number Needle(i), the answer to the    *)
(* last trigger before it (the task loader refuses a wait without one).    *)
Needle(i) == Count(i, "wait") + 1
AskedBy(needle) == CHOOSE t \in 0..Triggers :
    \E i \in DOMAIN Stimulus : /\ Stimulus[i] = "wait" /\ Needle(i) = needle
                               /\ t = Count(i, "write")
Needles == 1..Waits
Noise == 0

VARIABLES
    pc, i,          \* the main thread and its step
    late,           \* the wall deadline has passed
    stamped,        \* triggers stamped so far
    seen,           \* the chunks _wait_quiet counted at its last look
    sent,           \* stimuli handed to the pump
    leaked,         \* history: <<trigger, needle>>, the answers that were in the
                    \* pipe, printed and not ingested, when a trigger was stamped
    delivered,      \* stimuli the pump has written to the child's stdin
    waited,         \* the waits reached: <<needle, trigger>>
    credited,       \* waits_done
    stamp,          \* what _first_answer_stamp said: TRUE if it found one
    log,            \* the needles in serial_text, the log that is judged
    first, kept,    \* the box: the stamp of each needle's first occurrence in
                    \* the text, and how many chunks it holds
    dropped, eof,   \* its marks
    pipe,           \* printed and not ingested
    firmware,       \* "honest" or "dump"
    proc,           \* "none", "up", "exited" or "killed"
    shut,           \* it has closed its stdout and runs on
    heir,           \* a process it left behind holds its stdout
    code,           \* its exit code: 0 or 1
    read,           \* stimuli the firmware has read
    printed,        \* history: the triggers stamped when each needle was first printed
    noise,          \* lines printed that are no first answer
    error, passed   \* the TaskResult; error is "raised" when _run_unix gives none

triggers == <<stamped, seen, sent, leaked>>
book == <<waited, credited, stamp>>
main == <<pc, i, triggers, book, log>>
ingest == <<first, kept, dropped, eof>>
life == <<proc, shut, heir, code>>
child == <<pipe, firmware, life, read, printed, noise>>
result == <<error, passed>>
vars == <<main, late, delivered, ingest, child, result>>

Init ==
    /\ pc = "prepare" /\ i = 1 /\ late = FALSE
    /\ stamped = 0 /\ seen = NotYet /\ sent = 0 /\ leaked = {} /\ delivered = 0
    /\ waited = <<>> /\ credited = 0 /\ stamp = FALSE /\ log = {}
    /\ first = [n \in Needles |-> NotYet] /\ kept = 0 /\ dropped = FALSE /\ eof = FALSE
    /\ pipe = <<>> /\ firmware \in {"honest", "dump"}
    /\ proc = "none" /\ shut = FALSE /\ heir = FALSE /\ code = 0
    /\ read = 0 /\ printed = [n \in Needles |-> NotYet] /\ noise = 0
    /\ error = "none" /\ passed = FALSE

-----------------------------------------------------------------------------
(* The firmware, and what it leaves behind. *)

Runs == proc = "up" \/ heir
HoldsStdout == (proc = "up" /\ ~shut) \/ heir
Prints(line) == /\ HoldsStdout /\ pc # "result"    \* whose pipe is closed
                /\ pipe' = Append(pipe, line)

ReadsStdin ==
    /\ Runs /\ read < delivered
    /\ read' = read + 1
    /\ UNCHANGED <<main, late, delivered, ingest, pipe, firmware, life, printed, noise, result>>

(* An honest firmware prints an answer once it has read the question; a   *)
(* dump prints it when it likes.                                           *)
PrintsAnswer ==
    /\ \E n \in Needles :
        /\ printed[n] = NotYet
        /\ firmware = "honest" => read >= AskedBy(n) /\ \A m \in 1..(n - 1) : printed[m] # NotYet
        /\ Prints(n) /\ printed' = [printed EXCEPT ![n] = stamped]
    /\ UNCHANGED <<main, late, delivered, ingest, firmware, life, read, noise, result>>

(* A line that is no answer, or an answer again. *)
PrintsNoise ==
    /\ noise < MaxNoise
    /\ \E line \in {Noise} \cup {n \in Needles : printed[n] # NotYet} : Prints(line)
    /\ noise' = noise + 1
    /\ UNCHANGED <<main, late, delivered, ingest, firmware, life, read, printed, result>>

(* It ends by itself when it likes; so does what it left behind.  It may   *)
(* close its stdout and run on.                                            *)
Exits ==
    /\ proc = "up"
    /\ proc' = "exited" /\ code' \in {0, 1}
    /\ UNCHANGED <<main, late, delivered, ingest, pipe, firmware, shut, heir, read, printed, noise,
                   result>>

ShutsStdout ==
    /\ proc = "up" /\ ~shut
    /\ shut' = TRUE
    /\ UNCHANGED <<main, late, delivered, ingest, pipe, firmware, proc, heir, code, read, printed,
                   noise, result>>

HeirComesAndGoes ==
    /\ \/ ~heir /\ proc = "up" /\ ~shut
       \/ heir
    /\ heir' = ~heir
    /\ UNCHANGED <<main, late, delivered, ingest, pipe, firmware, proc, shut, code, read, printed,
                   noise, result>>

Firmware ==
    ReadsStdin \/ PrintsAnswer \/ PrintsNoise \/ Exits \/ ShutsStdout \/ HeirComesAndGoes

-----------------------------------------------------------------------------
(* The pump and the reader thread. *)

PumpDelivers ==
    /\ Runs /\ delivered < sent
    /\ delivered' = delivered + 1
    /\ UNCHANGED <<main, late, ingest, child, result>>

(* _box_append: past the cap nothing is kept but the truncation marker.    *)
Boxed(line) ==
    IF dropped THEN UNCHANGED <<first, kept, dropped>>
    ELSE IF kept = MaxText THEN dropped' = TRUE /\ UNCHANGED <<first, kept>>
    ELSE /\ kept' = kept + 1 /\ UNCHANGED dropped
         /\ first' = [n \in Needles |-> IF n = line /\ first[n] = NotYet THEN stamped ELSE first[n]]

Ingests ==
    /\ pc # "result" /\ pipe # <<>>
    /\ Boxed(Head(pipe))
    /\ pipe' = Tail(pipe)
    /\ UNCHANGED <<main, late, delivered, eof, firmware, life, read, printed, noise, result>>

(* The output ends when nobody holds the child's stdout any more: the      *)
(* child may be alive then, and dead long before.                          *)
SeesEof ==
    /\ pc # "result" /\ proc # "none"
    /\ pipe = <<>> /\ ~HoldsStdout /\ ~eof
    /\ eof' = TRUE
    /\ UNCHANGED <<main, late, delivered, first, kept, dropped, child, result>>

Reader == Ingests \/ SeesEof

DeadlinePasses ==
    /\ pc \notin {"prepare", "result"} /\ ~late
    /\ late' = TRUE
    /\ UNCHANGED <<main, delivered, ingest, child, result>>

-----------------------------------------------------------------------------
(* The main thread. *)

Printed(n) == first[n] # NotYet

(* first_occurrence_stamp: the first occurrence counts when it was         *)
(* ingested no earlier than its trigger's stamp.  (Two slips: equal stamps *)
(* count against the answer; the trigger is not looked at.)                *)
AnsweredAfter(n, since) == Printed(n) /\ first[n] > since
AnsweredAnyhow(n, since) == Printed(n)
Answered(n, since) == Printed(n) /\ first[n] >= since

AllPrinted == \A n \in Needles : Printed(n)

Goto(place) == pc' = place /\ UNCHANGED <<i, triggers, book, log>>
NextStep == pc' = "step" /\ i' = i + 1

(* Broker, staging, spawn: each may fail, and the run is infra. *)
Prepare ==
    /\ pc = "prepare"
    /\ \/ Goto("step") /\ proc' = "up" /\ UNCHANGED error
       \/ Goto("result") /\ error' = "infra" /\ UNCHANGED proc
    /\ UNCHANGED <<late, delivered, ingest, pipe, firmware, shut, heir, code, read, printed, noise,
                   passed>>

StepKind(kind) == pc = "step" /\ ~late /\ i <= Len(Stimulus) /\ Stimulus[i] = kind

BeginWait ==
    /\ StepKind("wait")
    /\ waited' = Append(waited, <<Needle(i), stamped>>)
    /\ pc' = "look"
    /\ UNCHANGED <<i, triggers, credited, stamp, log, late, delivered, ingest, child, result>>

(* Three looks, one after the other: for the stamp, under the lock; at the *)
(* text, without it; at the time and the end of the output.                *)
LooksForStamp ==
    /\ pc = "look"
    /\ stamp' = Answered(Needle(i), stamped)
    /\ pc' = "weigh"
    /\ UNCHANGED <<i, triggers, waited, credited, log, late, delivered, ingest, child, result>>

LooksAtText ==
    /\ pc = "weigh"
    /\ IF stamp
       THEN NextStep /\ credited' = credited + 1
       ELSE /\ pc' = IF Printed(Needle(i)) THEN "drain" ELSE "gone"
            /\ UNCHANGED <<i, credited>>
    /\ UNCHANGED <<triggers, waited, stamp, log, late, delivered, ingest, child, result>>

OnlyEof == eof          \* a slip: the wait does not look at the deadline
TimeIsUp == late \/ eof

LooksAtTime ==
    /\ pc = "gone"
    /\ Goto(IF TimeIsUp THEN "drain" ELSE "look")
    /\ UNCHANGED <<late, delivered, ingest, child, result>>

(* No step but a wait is begun once the output has ended. *)
LeavesLoop ==
    /\ pc = "step"
    /\ \/ late
       \/ i > Len(Stimulus)
       \/ i <= Len(Stimulus) /\ eof /\ Stimulus[i] # "wait"
    /\ Goto("drain")
    /\ UNCHANGED <<late, delivered, ingest, child, result>>

Delay ==
    /\ StepKind("delay") /\ ~eof
    /\ NextStep
    /\ UNCHANGED <<triggers, book, log, late, delivered, ingest, child, result>>

BeginWrite ==
    /\ StepKind("write") /\ ~eof
    /\ Goto("quiet")
    /\ UNCHANGED <<late, delivered, ingest, child, result>>

(* _wait_quiet counts the chunks until the number stays the same (for      *)
(* three looks, here for one), or the time is up.  That nothing was        *)
(* ingested in between does not say that nothing was printed.              *)
Chunks == kept + (IF dropped THEN 1 ELSE 0)

CountsChunks ==
    /\ pc = "quiet" /\ ~late /\ seen # Chunks
    /\ seen' = Chunks
    /\ UNCHANGED <<pc, i, stamped, sent, leaked, book, log, late, delivered, ingest, child, result>>

IsQuiet ==
    /\ pc = "quiet" /\ (seen = Chunks \/ late)
    /\ seen' = NotYet
    /\ pc' = "stamp"
    /\ UNCHANGED <<i, stamped, sent, leaked, book, log, late, delivered, ingest, child, result>>

(* The stamp comes after it, and the write into the pump after the stamp.  *)
InPipe == {n \in Needles : ~Printed(n) /\ \E k \in DOMAIN pipe : pipe[k] = n}

Stamps ==
    /\ pc = "stamp"
    /\ stamped' = stamped + 1
    /\ leaked' = leaked \cup {<<stamped', n>> : n \in InPipe}
    /\ pc' = "write"
    /\ UNCHANGED <<i, seen, sent, book, log, late, delivered, ingest, child, result>>

Writes ==
    /\ pc = "write"
    /\ sent' = sent + 1
    /\ NextStep
    /\ UNCHANGED <<stamped, seen, leaked, book, log, late, delivered, ingest, child, result>>

(* An mqtt-collect step logs what it received, as a chunk of its own. *)
Collect ==
    /\ StepKind("collect") /\ ~eof
    /\ Boxed(Noise)
    /\ NextStep
    /\ UNCHANGED <<triggers, book, log, late, delivered, eof, child, result>>

(* The broker may be gone when a stimulus is published: infra, with no     *)
(* scoring of the log.                                                     *)
Disconnected ==
    /\ pc = "write"
    /\ Goto("teardown")
    /\ error' = "infra"
    /\ UNCHANGED <<late, delivered, ingest, child, passed>>

(* The rest of the output: until every expected string is there, the       *)
(* output has ended or the time is up.                                     *)
Drained ==
    /\ pc = "drain"
    /\ late \/ eof \/ AllPrinted
    /\ Goto("reap")
    /\ UNCHANGED <<late, delivered, ingest, child, result>>

(* A child that has ended gives its code.  One that runs when its output   *)
(* has ended is waited for, and the timeout is nobody's to catch; any      *)
(* other is killed.                                                        *)
Reap ==
    /\ pc = "reap"
    /\ \/ proc = "exited" /\ Goto("join") /\ UNCHANGED <<proc, error>>
       \/ proc = "up" /\ ~eof /\ Goto("join") /\ proc' = "killed" /\ UNCHANGED error
       \/ proc = "up" /\ eof /\ Goto("teardown") /\ error' = "raised" /\ UNCHANGED proc
    /\ UNCHANGED <<late, delivered, ingest, pipe, firmware, shut, heir, code, read, printed, noise,
                   passed>>

(* The join of the reader gives up after 2 s, and the log is what has been *)
(* ingested by then.                                                       *)
Joins ==
    /\ pc = "join"
    /\ log' = {n \in Needles : Printed(n)}
    /\ pc' = "judge"
    /\ UNCHANGED <<i, triggers, book, late, delivered, ingest, child, result>>

Convicted == \E k \in DOMAIN waited :
    waited[k][1] \in log /\ ~Answered(waited[k][1], waited[k][2])
NoneCredited == eof /\ credited = 0 /\ Waits > 0

(* An exit code overrides what the anti-cheat found. *)
Verdict ==
    /\ pc = "judge"
    /\ error' = IF proc = "exited" /\ code # 0 THEN "exit-code"
                ELSE IF Convicted \/ (NoneCredited /\ log # {}) THEN "pre-printed"
                ELSE IF NoneCredited THEN "zero-waits" ELSE "none"
    /\ Goto("teardown")
    /\ UNCHANGED <<late, delivered, ingest, child, passed>>

(* The finally blocks: a child that still runs is killed; closing its      *)
(* stdout takes the lock which the reader holds while it waits for a line. *)
TearsDown ==
    /\ pc = "teardown"
    /\ Goto("close")
    /\ proc' = IF proc = "up" THEN "killed" ELSE proc
    /\ UNCHANGED <<late, delivered, ingest, pipe, firmware, shut, heir, code, read, printed, noise,
                   result>>

Closes ==
    /\ pc = "close" /\ (eof \/ pipe # <<>>)
    /\ passed' = (error = "none" /\ log = Needles)
    /\ Goto("result")
    /\ UNCHANGED <<late, delivered, ingest, child, error>>

Main ==
    \/ Prepare \/ BeginWait \/ LooksForStamp \/ LooksAtText \/ LooksAtTime \/ LeavesLoop \/ Delay
    \/ BeginWrite \/ CountsChunks \/ IsQuiet \/ Stamps \/ Writes \/ Disconnected \/ Collect
    \/ Drained \/ Reap \/ Joins \/ Verdict \/ TearsDown \/ Closes

Done == pc = "result" /\ UNCHANGED vars

Next == Main \/ Firmware \/ PumpDelivers \/ Reader \/ DeadlinePasses \/ Done

(* The runner's threads run; the clock does.  The firmware owes nothing.   *)
Spec ==
    /\ Init /\ [][Next]_vars
    /\ WF_vars(Main) /\ WF_vars(Reader) /\ WF_vars(DeadlinePasses)

-----------------------------------------------------------------------------
(* Properties. *)

(* A pass is earned: every answer a passed run has waited for was printed  *)
(* after its trigger was stamped, whatever the firmware had printed before *)
(* and however late the reader ingested it; but for an answer that was in  *)
(* the pipe at the very moment of the stamp, which nothing tells apart.    *)
AnswersAreEarned ==
    passed => \A k \in DOMAIN waited : LET needle == waited[k][1]
                                           trigger == waited[k][2]
                                       IN  /\ printed[needle] # NotYet
                                           /\ \/ printed[needle] >= trigger
                                              \/ <<trigger, needle>> \in leaked

(* An honest firmware is never convicted by the stamps: an answer to a     *)
(* trigger cannot be ingested before the trigger's stamp.  Once one of its *)
(* answers has been credited, nothing convicts it of printing early.       *)
HonestNeverPrePrinted ==
    firmware = "honest" => /\ ~Convicted
                           /\ error = "pre-printed" => credited = 0

(* Every run ends with its child gone, an aborted run's included: a        *)
(* firmware that never answers, never reads and never stops cannot hold    *)
(* the runner past the deadline.  Only a process it leaves behind can, by  *)
(* keeping the output open for ever: the runner is then stuck in the close *)
(* of its side, with the child gone.                                       *)
RunEnds ==
    /\ <>(pc \in {"close", "result"} /\ proc # "up")
    /\ <>(pc = "result") \/ <>[]heir
=============================================================================
