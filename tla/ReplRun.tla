------------------------------ MODULE ReplRun ------------------------------
(***************************************************************************)
(* One run of a task on a MicroPython REPL: on a live board over a serial  *)
(* line (runner_real.py, realhw.py: the user's main.py is backed up and    *)
(* wiped, the entry is pasted, the stimulus is played and its answers are  *)
(* judged by when they were ingested), or in Renode over a TCP terminal    *)
(* (runner_renode.py: answers are judged by where they are in the text).   *)
(* Both are one thread; the board and the link go on between two steps.    *)
(***************************************************************************)
EXTENDS ReplBoard

CONSTANT NIL

ASSUME RunAssumption == NIL \notin Nat

VARIABLES
    place,      \* where the runner is
    text,       \* what it has ingested and kept: tokens with their stamps
    mark,       \* where in text the answer it waits for may begin
    backup,     \* main.py.backup: hex digits, or NIL
    i,          \* the step of the stimulus, or the line of the source, at hand
    triggers,   \* triggers stamped so far: the clock of the stamps
    since,      \* last_trigger_stamp, or NIL
    waited,     \* the waits begun: literal and the stamp before it
    late,       \* the wall deadline has passed
    error,      \* error_kind
    passed,
    arrived     \* history: the drains before a literal of the entry's reached the host

run == <<i, triggers, since, waited, error, passed>>
kept == <<text, mark>>
env == <<target, owned>>
replVars == <<env, place, run, kept, late, backup, device, link, arrived>>

ReplInit ==
    /\ BoardInit
    /\ place = "start" /\ text = <<>> /\ mark = 0 /\ backup = NIL
    /\ i = 1 /\ triggers = 0 /\ since = NIL /\ waited = <<>>
    /\ late = FALSE /\ error = "none" /\ passed = FALSE
    /\ arrived = [p \in Expect |-> NIL]

Has(toks, what) == \E n \in DOMAIN toks : toks[n].is = what
Found(toks, p) == \E n \in DOMAIN toks : Shows(toks[n], p)
AllFound(toks) == \A p \in Expect : Found(toks, p)
Since(toks, n) == SubSeq(toks, n + 1, Len(toks))

(* Everything that has arrived is ingested, with the time of the ingestion.*)
Stamped == [n \in DOMAIN driver |-> [is |-> driver[n].is, by |-> driver[n].by, at |-> triggers]]
Ingested == text \o Stamped
Pump == text' = Ingested /\ driver' = <<>> /\ UNCHANGED <<line, lost, missing>>

Goto(to) == place' = to /\ UNCHANGED <<late, backup, arrived, env>>
On(t, where) == target = t /\ place = where

(* An error ends the run where it is. *)
Fails(kind) ==
    /\ Goto("verdict") /\ error' = kind
    /\ UNCHANGED <<i, triggers, since, waited, passed>>

-----------------------------------------------------------------------------
(* The live board: interrupt, back up, wipe, reset. *)

Opens ==
    /\ On("real", "start")
    /\ \/ Goto("boot") /\ Interrupted /\ Pump /\ UNCHANGED run
       \/ Fails("infra") /\ UNCHANGED <<mode, text, link>>
    /\ UNCHANGED <<mark, flash, entry, asked, printed, noise>>

(* boot(): Ctrl+C again, drain, then the probe; what the text holds before *)
(* mark is not looked at again until it is cleared.                        *)
Probes ==
    /\ On("real", "boot")
    /\ Goto("probe")
    /\ Interrupted
    /\ text' = Ingested /\ mark' = Len(text') /\ driver' = <<>>
    /\ \/ Says(ProbeAnswer(mode')) /\ UNCHANGED lost
       \/ lost < MaxLost /\ lost' = lost + 1 /\ UNCHANGED line
    /\ UNCHANGED <<missing, flash, entry, asked, printed, noise, run>>

Digits(toks) ==
    LET from == CHOOSE n \in DOMAIN toks : toks[n].is = "mark"
        to == CHOOSE n \in DOMAIN toks : toks[n].is = "end"
    IN  [n \in 1..(to - from - 1) |-> toks[from + n].is]

AnyHex(toks) == Has(toks, "mark") /\ Has(toks, "end")   \* a slip: half a byte is none
FromHex(toks) == Has(toks, "mark") /\ Has(toks, "end") /\ Len(Digits(toks)) % 2 = 0

(* Each drain is followed by a look at the text: absent, saved, or wait on.*)
ReadsProbe ==
    /\ On("real", "probe") /\ driver # <<>>
    /\ Pump
    /\ LET answer == Since(text', mark) IN
       \/ Has(answer, "absent") /\ Goto("wipe")
       \/ /\ ~Has(answer, "absent") /\ FromHex(answer)
          /\ backup' = Digits(answer) /\ place' = "wipe" /\ UNCHANGED <<late, arrived, env>>
       \/ ~Has(answer, "absent") /\ ~FromHex(answer) /\ Goto("probe")
    /\ UNCHANGED <<mark, device, run>>

(* No answer within the window: unknown, and boot() refuses.               *)
ProbeUnknown ==
    /\ On("real", "probe")
    /\ Fails("infra")
    /\ UNCHANGED <<device, link, kept>>

Wipes ==
    /\ On("real", "wipe")
    /\ Goto("reset")
    /\ text' = Ingested /\ driver' = <<>>
    /\ \/ flash' = "none" /\ UNCHANGED lost
       \/ lost < MaxLost /\ lost' = lost + 1 /\ UNCHANGED flash    \* it did not get through
    /\ UNCHANGED <<mark, line, missing, mode, entry, asked, printed, noise, run>>

(* Soft reset, drain, and the text is cleared with its stamps.             *)
Resets ==
    /\ On("real", "reset")
    /\ Goto("ctrl-e")
    /\ mode' = AfterReset
    /\ text' = <<>> /\ mark' = 0 /\ driver' = <<>>
    /\ UNCHANGED <<flash, entry, asked, printed, noise, line, lost, missing, run>>

-----------------------------------------------------------------------------
(* Paste mode and the source, line by line. *)

SendsCtrlE ==
    /\ \/ On("real", "ctrl-e") /\ ~Has(text, "banner")
       \/ On("renode", "ctrl-e")
    /\ TakesCtrlE
    /\ Goto("banner")
    /\ mark' = IF target = "renode" THEN Len(text) ELSE mark
    /\ UNCHANGED <<text, flash, asked, printed, noise, driver, lost, missing, run>>

(* The real target looks at all the text and sends Ctrl+E again after two  *)
(* seconds without the banner; renode waits for it once.                   *)
SeesBanner ==
    /\ place = "banner" /\ driver # <<>>
    /\ Pump
    /\ Goto(IF Has(Since(text', mark), "banner") THEN "paste" ELSE "banner")
    /\ i' = 1
    /\ UNCHANGED <<mark, device, triggers, since, waited, error, passed>>

NoBanner ==
    /\ place = "banner"
    /\ \/ Fails("infra")
       \/ target = "real" /\ Goto("ctrl-e") /\ UNCHANGED run
    /\ UNCHANGED <<device, link, kept>>

Source == <<"first", "last">>

(* Writes are paced, 24 bytes per 40 ms on the serial line: only the echo  *)
(* of what was written last may still be under way.                        *)
WrittenLast == IF place = "paste" /\ i = 1 THEN "banner" ELSE IF place = "paste" /\ i = 2 THEN "first" ELSE "last"
Paced == target = "real" =>
    \A n \in DOMAIN line : line[n].is \in {"banner", "first", "last"} => line[n].is = WrittenLast

PastesLine ==
    /\ place = "paste" /\ i <= Len(Source) /\ Paced
    /\ TakesPasted(Source[i])
    /\ i' = i + 1
    /\ Goto("paste")
    /\ UNCHANGED <<mode, flash, asked, printed, noise, driver, kept,
                   triggers, since, waited, error, passed>>

(* The deadline is looked at before every line.                            *)
PasteLate ==
    /\ place = "paste" /\ i <= Len(Source) /\ late
    /\ Fails("timeout")
    /\ UNCHANGED <<device, link, kept>>

(* Ctrl+D: the board runs what it was given.                               *)
Executes ==
    /\ place = "paste" /\ i > Len(Source) /\ Paced
    /\ mode' = "entry"
    /\ i' = 1
    /\ Goto(IF target = "real" THEN "cut" ELSE "step")
    /\ UNCHANGED <<flash, entry, asked, printed, noise, link, kept,
                   triggers, since, waited, error, passed>>

LastAt(toks, what) == CHOOSE n \in DOMAIN toks :
    toks[n].is = what /\ \A m \in DOMAIN toks : toks[m].is = what => m <= n
After(toks, what) == Since(toks, LastAt(toks, what))

NeverLost(toks) == FALSE     \* a slip: an echo without its end is no echo
TailLost(toks) ==
    /\ Has(toks, "banner") /\ ~Has(toks, "last")
    /\ Has(After(toks, "banner"), "first")

(* _truncate_after_staging_echo: text and stamps are cut behind the echo   *)
(* of the last line; an echo that began and has not ended is refused.      *)
CutsEcho ==
    /\ On("real", "cut") /\ Paced
    /\ driver' = <<>> /\ UNCHANGED <<line, lost, missing>>
    /\ IF TailLost(Ingested)
       THEN text' = Ingested /\ Fails("infra")
       ELSE /\ text' = IF Has(Ingested, "last") THEN After(Ingested, "last") ELSE Ingested
            /\ Goto("step") /\ UNCHANGED run
    /\ UNCHANGED <<mark, device>>

-----------------------------------------------------------------------------
(* The stimulus. *)

Step == Stimulus[i]
AtStep == place = "step" /\ i <= Len(Stimulus) /\ ~late

Delay ==
    /\ AtStep /\ Step = "delay"
    /\ i' = i + 1 /\ Goto("step")
    /\ UNCHANGED <<device, link, kept, triggers, since, waited, error, passed>>

(* The steps are over, or the deadline has passed: what comes now is only  *)
(* collected.                                                              *)
StimulusOver ==
    /\ place = "step" /\ (i > Len(Stimulus) \/ late)
    /\ Goto("collect")
    /\ mark' = IF target = "renode" THEN Len(text) ELSE mark
    /\ UNCHANGED <<text, device, link, run>>

(* Real: the driver's buffer is drained, then the trigger is stamped, then *)
(* it is sent.                                                             *)
NoDrain == UNCHANGED <<text, link>>     \* a slip
Drains == Pump

BeginWrite ==
    /\ target = "real" /\ AtStep /\ Step = "write"
    /\ Drains
    /\ Goto("stamp")
    /\ UNCHANGED <<mark, device, run>>

Stamps ==
    /\ On("real", "stamp")
    /\ triggers' = triggers + 1 /\ since' = triggers'
    /\ Goto("send")
    /\ UNCHANGED <<device, link, kept, i, waited, error, passed>>

Sends ==
    /\ On("real", "send") \/ (target = "renode" /\ AtStep /\ Step = "write")
    /\ asked' = [asked EXCEPT !.sent = @ + 1]
    /\ i' = i + 1 /\ Goto("step")
    /\ UNCHANGED <<mode, flash, entry, printed, noise, link, kept, triggers, since, waited,
                   error, passed>>

BeginWait ==
    /\ target = "real" /\ AtStep /\ Step \in Expect
    /\ waited' = Append(waited, [needle |-> Step, since |-> since])
    /\ Goto("look")
    /\ UNCHANGED <<device, link, kept, i, triggers, since, error, passed>>

FirstAt(toks, p) == CHOOSE n \in DOMAIN toks :
    Shows(toks[n], p) /\ \A m \in DOMAIN toks : Shows(toks[m], p) => n <= m

(* first_occurrence_stamp: a stamp that equals the trigger's is after it.  *)
AnsweredAfter(toks, p, t) == Found(toks, p) /\ t # NIL /\ toks[FirstAt(toks, p)].at > t
Answered(toks, p, t) == Found(toks, p) /\ t # NIL /\ toks[FirstAt(toks, p)].at >= t

(* The loop of a wait ingests twice: for the stamp, and for the look at    *)
(* the text when there is no stamp.                                        *)
LooksForStamp ==
    /\ On("real", "look")
    /\ Pump
    /\ IF Answered(text', Step, since)
       THEN Goto("step") /\ i' = i + 1
       ELSE Goto("weigh") /\ UNCHANGED i
    /\ UNCHANGED <<mark, device, triggers, since, waited, error, passed>>

(* There by now, or too late: the rest of the stimulus is left out.        *)
Weighs ==
    /\ On("real", "weigh")
    /\ Pump
    /\ Goto(IF Found(text', Step) \/ late THEN "collect" ELSE "look")
    /\ UNCHANGED <<mark, device, run>>

(* Renode: a literal that has been read already is a dump's; otherwise     *)
(* recv until it comes.                                                    *)
RenodeWaits ==
    /\ target = "renode" /\ AtStep /\ Step \in Expect
    /\ IF Found(text, Step) THEN Fails("run") ELSE Goto("recv") /\ UNCHANGED run
    /\ mark' = Len(text)
    /\ UNCHANGED <<text, device, link>>

Receives ==
    /\ On("renode", "recv") /\ driver # <<>>
    /\ Pump
    /\ IF Found(Since(text', mark), Step)
       THEN Goto("step") /\ i' = i + 1
       ELSE Goto("recv") /\ UNCHANGED i
    /\ UNCHANGED <<mark, device, triggers, since, waited, error, passed>>

ReceiveEnds ==
    /\ On("renode", "recv") /\ late
    /\ Goto("step") /\ i' = i + 1
    /\ UNCHANGED <<device, link, kept, triggers, since, waited, error, passed>>

-----------------------------------------------------------------------------
(* Renode's way in: staged and spawned, connected, greeted. *)

Connects ==
    /\ On("renode", "start")
    /\ \/ Goto("nudge") /\ Says(<<Tok("prompt", "board")>>) /\ UNCHANGED run
       \/ Fails("infra") /\ UNCHANGED line
    /\ UNCHANGED <<driver, lost, missing, kept, device>>

SeesPrompt ==
    /\ On("renode", "nudge")
    /\ \/ Pump /\ Has(text', "prompt") /\ Goto("ctrl-e") /\ UNCHANGED run
       \/ late /\ Fails("infra") /\ UNCHANGED <<text, link>>
    /\ UNCHANGED <<mark, device>>

-----------------------------------------------------------------------------
(* Collecting and judging. *)

(* Renode also stops at the prompt of a program that has ended, and looks  *)
(* only at what this loop has read - the echo of the source included.      *)
Collected(toks) ==
    LET seen == Since(toks, IF target = "renode" THEN mark ELSE 0)
    IN  AllFound(seen) \/ (target = "renode" /\ Has(seen, "prompt"))

Collects ==
    /\ place = "collect" /\ driver # <<>>
    /\ Pump
    /\ Goto(IF Collected(text') THEN "judge" ELSE "collect")
    /\ UNCHANGED <<mark, device, run>>

CollectOver ==
    /\ place = "collect"
    /\ late \/ (target = "real" /\ Collected(text))
    /\ Goto("judge")
    /\ UNCHANGED <<device, link, kept, run>>

Convicted(toks) ==
    \E n \in DOMAIN waited : /\ Found(toks, waited[n].needle)
                             /\ ~Answered(toks, waited[n].needle, waited[n].since)

(* The real target ingests once more and replays every wait begun.         *)
JudgesReal ==
    /\ On("real", "judge")
    /\ Pump
    /\ error' = IF Convicted(text') THEN "run" ELSE "none"
    /\ Goto("verdict")
    /\ UNCHANGED <<mark, device, i, triggers, since, waited, passed>>

(* _truncate_paste_echo: no first line, no echo; no last line, no verdict. *)
JudgesRenode ==
    /\ On("renode", "judge")
    /\ \/ ~Has(text, "first") /\ UNCHANGED text /\ Goto("verdict") /\ UNCHANGED run
       \/ /\ Has(text, "first") /\ ~Has(text, "last") /\ UNCHANGED text
          /\ Fails("infra")
       \/ /\ Has(text, "first") /\ Has(text, "last") /\ text' = After(text, "last")
          /\ Goto("verdict") /\ UNCHANGED run
    /\ UNCHANGED <<mark, device, link>>

(* The patterns are checked over the text as it is by then. *)
Verdict ==
    /\ place = "verdict"
    /\ passed' = (error = "none" /\ AllFound(text))
    /\ Goto("done")
    /\ UNCHANGED <<device, link, kept, i, triggers, since, waited, error>>

-----------------------------------------------------------------------------
Runner ==
    \/ Opens \/ Probes \/ ReadsProbe \/ ProbeUnknown \/ Wipes \/ Resets
    \/ Connects \/ SeesPrompt \/ SendsCtrlE \/ SeesBanner \/ NoBanner
    \/ PastesLine \/ PasteLate \/ Executes \/ CutsEcho
    \/ Delay \/ StimulusOver \/ BeginWrite \/ Stamps \/ Sends
    \/ BeginWait \/ LooksForStamp \/ Weighs \/ RenodeWaits \/ Receives \/ ReceiveEnds
    \/ Collects \/ CollectOver \/ JudgesReal \/ JudgesRenode \/ Verdict

DeadlinePasses ==
    /\ place \notin {"start", "boot", "verdict", "done"} /\ ~late
    /\ late' = TRUE
    /\ UNCHANGED <<env, place, run, kept, backup, device, link, arrived>>

Drained == IF place = "stamp" THEN triggers + 1 ELSE triggers

BoardMoves ==
    /\ BoardStep
    /\ arrived' = [p \in Expect |->
           IF arrived[p] = NIL /\ driver' # driver /\ Last(driver') = Tok(p, "entry")
           THEN Drained ELSE arrived[p]]
    /\ UNCHANGED <<env, place, run, kept, late, backup>>

ReplNext == Runner \/ DeadlinePasses \/ BoardMoves

ReplSpec == ReplInit /\ [][ReplNext]_replVars

-----------------------------------------------------------------------------
(* Properties. *)

(* boot() wipes main.py only when it is saved or was not there: however    *)
(* late the probe's answer comes, and with one digit of it lost, the       *)
(* user's file is on the board or in main.py.backup.                       *)
UserCodeIsKept == lost <= 1 /\ owned /\ flash = "none" => backup = Content

(* Both cuts take a missing first line for a board without an echo.        *)
EchoBegins == "first" \notin missing

(* A pass is the staged entry's: neither the echo of its source nor what   *)
(* the old main.py has printed is scored, as long as the echo begins.      *)
OnlyTheEntryIsScored == passed /\ EchoBegins => printed = Expect

(* On the live board a pass has every answer arriving in the driver's      *)
(* buffer after the drain that precedes its trigger: what sat there before *)
(* is stamped as older, although nothing reads the line in the background. *)
AnswersArriveAfterTheDrain ==
    passed /\ target = "real" /\ EchoBegins =>
        \A n \in DOMAIN waited :
            arrived[waited[n].needle] # NIL /\ arrived[waited[n].needle] >= waited[n].since

(* Every wait of the stimulus is for an answer to the same writes: those   *)
(* before the first wait for that literal, of which there is one.          *)
WritesBefore(s) == {w \in DOMAIN Stimulus : w < s /\ Stimulus[w] = "write"}
EveryWaitIsAsked ==
    \A s \in DOMAIN Stimulus : Stimulus[s] \in Expect =>
        AskedBy(Stimulus[s]) = Cardinality(WritesBefore(s)) /\ AskedBy(Stimulus[s]) > 0

(* An entry that answers when it is asked is never convicted of having     *)
(* printed its answers before, however the answers and the two looks of    *)
(* the wait loop fall, as long as the echo begins.                         *)
HonestNeverConvicted ==
    EveryWaitIsAsked /\ target = "real" /\ entry = "honest" /\ EchoBegins => error # "run"
=============================================================================
