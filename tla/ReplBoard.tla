----------------------------- MODULE ReplBoard -----------------------------
(***************************************************************************)
(* The far side of a run that drives a MicroPython REPL (realhw.py,        *)
(* runner_renode.py): the board, its main.py, what it does with what it is *)
(* sent, and the link that brings its output back late and may lose some.  *)
(* Output is a sequence of tokens: a line, or a hex digit of the backup.   *)
(***************************************************************************)
EXTENDS Naturals, Sequences, FiniteSets, SequencesExt

CONSTANTS
    Expect,     \* the literals the task expects
    Stimulus,   \* its steps, in order: "delay", "write", or a literal to wait for
    Shown,      \* the literals each line of the entry's source shows
    Content,    \* the user's main.py in hex digits
    MaxNoise,   \* bound: lines the old main.py prints
    MaxLost     \* bound: tokens or pasted lines the link loses

\* What a token says that is no literal.
Words == {"banner", "first", "last", "prompt", "mark", "end", "absent", "noise"}
HexDigits == {"0", "1", "2", "3", "4", "5", "6", "7", "8", "9", "a", "b", "c", "d", "e", "f"}

ASSUME BoardAssumption ==
    /\ Expect \cap (Words \cup {"delay", "write"}) = {}
    /\ Stimulus \in Seq({"delay", "write"} \cup Expect)
    /\ Shown \in [{"first", "last"} -> SUBSET Expect]
    /\ Content \in Seq(HexDigits)
    /\ Len(Content) % 2 = 0
    /\ {MaxNoise, MaxLost} \subseteq Nat

VARIABLES
    target,     \* "real" or "renode"
    mode,       \* the board runs "old", waits at a "prompt", takes a "paste",
                \* runs the "entry"
    flash,      \* whose main.py the board holds: "user" or "none"
    owned,      \* whether the user had one
    entry,      \* the staged code: "honest", "dump", or "broken" by a lost byte
    asked,      \* triggers on their way to the board, those it has read
    printed,    \* literals the entry has printed
    noise,      \* lines the old main.py has printed
    line,       \* tokens under way to the host
    driver,     \* tokens that have arrived there, not yet read
    lost,       \* what the link has lost
    missing     \* pasted lines whose echo it has lost

device == <<mode, flash, entry, asked, printed, noise>>
link == <<line, driver, lost, missing>>

Tok(what, from) == [is |-> what, by |-> from]
Shows(tok, p) == tok.is = p \/ (tok.is \in {"first", "last"} /\ p \in Shown[tok.is])

(* The writes before the first wait for a literal: its trigger is the last *)
(* of them.  A literal nobody waits for may be printed at any time.        *)
AskedBy(p) ==
    LET waits == {s \in DOMAIN Stimulus : Stimulus[s] = p} IN
    Cardinality({s \in DOMAIN Stimulus :
        Stimulus[s] = "write" /\ waits # {} /\ \A w \in waits : s < w})

BoardInit ==
    /\ target \in {"real", "renode"}
    /\ owned \in BOOLEAN
    /\ mode \in IF target = "real" /\ owned THEN {"old", "prompt"} ELSE {"prompt"}
    /\ target = "renode" => ~owned
    /\ flash = IF owned THEN "user" ELSE "none"
    /\ entry \in {"honest", "dump"}
    /\ asked = [sent |-> 0, read |-> 0] /\ printed = {} /\ noise = 0
    /\ line = <<>> /\ driver = <<>> /\ lost = 0 /\ missing = {}

(* What the board answers to the host's writes, as new values of its       *)
(* variables; the host's actions use them.                                 *)
Says(toks) == line' = line \o toks

(* Ctrl+C ends the program that runs, unless that program catches it.      *)
Interrupted == mode' \in {mode, "prompt"}

(* The probe prints main.py in hex, or that there is none.                 *)
ProbeAnswer(now) ==
    IF now # "prompt" THEN <<>>
    ELSE IF flash = "none" THEN <<Tok("absent", "board")>>
    ELSE <<Tok("mark", "board")>> \o [d \in DOMAIN Content |-> Tok(Content[d], "board")]
         \o <<Tok("end", "board")>>

AfterReset == IF flash = "user" THEN "old" ELSE "prompt"

(* Ctrl+E at the prompt; inside a paste it is one more byte of the source. *)
TakesCtrlE ==
    \/ /\ mode = "prompt" /\ mode' = "paste" /\ Says(<<Tok("banner", "board")>>)
       /\ UNCHANGED entry
    \/ mode = "paste" /\ entry' = "broken" /\ UNCHANGED <<mode, line>>
    \/ mode = "old" /\ UNCHANGED <<mode, entry, line>>

(* A pasted line is echoed.  A byte lost on the way spoils the echo, and   *)
(* mostly the code.                                                        *)
TakesPasted(l) ==
    \/ Says(<<Tok(l, "board")>>) /\ UNCHANGED <<entry, lost, missing>>
    \/ /\ lost < MaxLost /\ lost' = lost + 1 /\ missing' = missing \cup {l}
       /\ entry' \in {entry, "broken"}
       /\ UNCHANGED line

-----------------------------------------------------------------------------
(* What goes on without the host. *)

OldPrints ==
    /\ mode = "old" /\ noise < MaxNoise
    /\ noise' = noise + 1
    /\ \E p \in Expect \cup {"noise"} : Says(<<Tok(p, "old")>>)
    /\ UNCHANGED <<mode, flash, entry, asked, printed, driver, lost, missing>>

OldEnds ==
    /\ mode = "old" /\ mode' = "prompt"
    /\ UNCHANGED <<flash, entry, asked, printed, noise, link>>

EntryReads ==
    /\ mode = "entry" /\ asked.read < asked.sent
    /\ asked' = [asked EXCEPT !.read = @ + 1]
    /\ UNCHANGED <<mode, flash, entry, printed, noise, link>>

(* An honest entry answers when it has been asked; a dump does not wait.   *)
EntryPrints ==
    /\ mode = "entry" /\ entry # "broken"
    /\ \E p \in Expect \ printed :
         /\ entry = "honest" => asked.read >= AskedBy(p)
         /\ printed' = printed \cup {p}
         /\ Says(<<Tok(p, "entry")>>)
    /\ UNCHANGED <<mode, flash, entry, asked, noise, driver, lost, missing>>

EntryEnds ==
    /\ mode = "entry" /\ mode' = "prompt"
    /\ Says(<<Tok("prompt", "board")>>)
    /\ UNCHANGED <<flash, entry, asked, printed, noise, driver, lost, missing>>

Arrives ==
    /\ line # <<>>
    /\ driver' = Append(driver, Head(line)) /\ line' = Tail(line)
    /\ UNCHANGED <<device, lost, missing>>

(* The serial line loses bytes; a TCP connection does not.                 *)
Loses ==
    /\ target = "real" /\ lost < MaxLost
    /\ \E n \in DOMAIN line :
         /\ line' = RemoveAt(line, n)
         /\ missing' = missing \cup ({line[n].is} \cap {"first", "last"})
    /\ lost' = lost + 1
    /\ UNCHANGED <<device, driver>>

BoardStep ==
    OldPrints \/ OldEnds \/ EntryReads \/ EntryPrints \/ EntryEnds \/ Arrives \/ Loses
=============================================================================
