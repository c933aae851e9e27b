------------------------------ MODULE PlantRun ------------------------------
(***************************************************************************)
(* One plant run (_run_plant in runner_plant.py): the harness simulates the *)
(* plant and asks a controller process for an answer at every step.  The    *)
(* main thread writes the setpoints through the pump of StdinPump, a second *)
(* thread moves the controller's lines into a bounded queue (_pump_lines),  *)
(* and the controller is foreign code: it may read or not, print too much,  *)
(* too little or too early, hang, die, or leave a grandchild with its pipes. *)
(*                                                                         *)
(* A line of the controller is the number of the print; what it says is    *)
(* decided when the main thread parses it.                                 *)
(***************************************************************************)
EXTENDS StdinPump

CONSTANTS Steps,     \* steps of the closed loop
          MaxLines,  \* max_lines, the bound of the answer queue
          MaxOut     \* bound of the model: lines the controller prints

ASSUME PlantAssumption == Steps \in Nat \ {0} /\ MaxLines \in Nat \ {0} /\ MaxOut \in Nat

VARIABLES
    mpc,       \* where the main thread is
    used,      \* the answers the loop has consumed
    late,      \* the wall deadline has passed
    err,       \* error and error_kind: "odd" is an error without a kind
    exit,      \* exit_code
    opc,       \* where the stdout pump is
    oh,        \* the line (or Eof) it has in hand
    outq,      \* out_q
    dropped,   \* dropped["lines"]
    moved,     \* lines the stdout pump has taken from the pipe
    printed,   \* lines the controller has printed
    outOpen,   \* somebody holds the write end of stdout
    alive,     \* the controller runs
    code,      \* its status
    heir       \* a grandchild holds the controller's ends of the pipes

main      == <<mpc, used, err, exit>>
outPump   == <<opc, oh, outq, dropped, moved>>
child     == <<printed, outOpen, alive, code, heir>>
plantVars == <<main, late, outPump, child>>
vars      == <<pumpVars, plantVars>>

Eof == 0
Status == {"none", "zero", "bad"}

TypeOK ==
    /\ PumpTypeOK
    /\ mpc \in {"step", "check", "get", "close", "closeIn", "wait", "teardown",
                "kill", "joinPump", "verdict", "done"}
    /\ used \in Seq(1..MaxOut) /\ Len(used) <= Steps
    /\ late \in BOOLEAN
    /\ err \in {"none", "odd", "run", "timeout"}
    /\ opc \in {"read", "put", "count", "drop", "dead"}
    /\ oh \in 0..MaxOut
    /\ outq \in Seq(0..MaxOut) /\ Len(outq) <= MaxLines
    /\ dropped \in 0..MaxOut + 1 /\ moved \in 0..printed /\ printed \in 0..MaxOut
    /\ outOpen \in BOOLEAN /\ alive \in BOOLEAN /\ heir \in BOOLEAN
    /\ code \in Status /\ exit \in Status
    /\ alive <=> code = "none"

Init ==
    /\ PumpInit
    /\ mpc = "step" /\ used = <<>> /\ late = FALSE /\ err = "none" /\ exit = "none"
    /\ opc = "read" /\ oh = Eof /\ outq = <<>> /\ dropped = 0 /\ moved = 0
    /\ printed = 0 /\ outOpen = TRUE /\ alive = TRUE /\ code = "none" /\ heir = FALSE

-----------------------------------------------------------------------------
(* The main thread: the closed loop over ipc_control. *)

Abort(kind) == err' = kind /\ mpc' = "teardown" /\ UNCHANGED <<used, exit>>
Go(place)   == mpc' = place /\ UNCHANGED <<used, err, exit>>
Returned    == wpc = "out"

\* Slip: the setpoint is written to the pipe by the main thread itself.
WritesItself ==
    /\ mpc = "step" /\ Returned /\ Len(used) < Steps
    /\ Len(pipe) < PipeSize \/ ~Open
    /\ Write /\ Go("check")
    /\ UNCHANGED <<late, outPump, child>>

SendsSetpoint ==
    /\ mpc = "step" /\ Returned /\ Len(used) < Steps
    /\ Write /\ Go("check")
    /\ UNCHANGED <<late, outPump, child>>

WriteReturns ==
    /\ SetWake
    /\ UNCHANGED plantVars

ChecksChannel ==
    /\ mpc = "check" /\ Returned
    /\ IF overflow \/ broken \/ dropped > 0 THEN Abort("run") ELSE Go("get")
    /\ UNCHANGED <<pumpVars, late, outPump, child>>

MissesDeadline ==
    /\ mpc = "get" /\ late
    /\ Abort("timeout")
    /\ UNCHANGED <<pumpVars, late, outPump, child>>

\* An answer is a number, not a number at all, or a float that run_closed_loop
\* refuses (nan, inf): it returns that error without a kind.
TakesAnswer ==
    /\ mpc = "get" /\ ~late
    /\ outq # <<>>
    /\ outq' = Tail(outq)
    /\ \/ Abort("run")
       \/ Head(outq) # Eof /\ Abort("odd")
       \/ /\ Head(outq) # Eof
          /\ used' = Append(used, Head(outq))
          /\ mpc' = "step"
          /\ UNCHANGED <<err, exit>>
    /\ UNCHANGED <<pumpVars, late, opc, oh, dropped, moved, child>>

LoopEnds ==
    /\ mpc = "step" /\ Returned /\ Len(used) = Steps
    /\ IF dropped > 0 THEN Abort("run") ELSE Go("close")
    /\ UNCHANGED <<pumpVars, late, outPump, child>>

(* The controller survived the loop. *)

ClosesPump ==
    /\ mpc = "close"
    /\ CloseWriter /\ Go("closeIn")
    /\ UNCHANGED <<late, outPump, child>>

ClosesStdin ==
    /\ mpc = "closeIn" /\ Returned
    /\ CloseStdin /\ Go("wait")
    /\ UNCHANGED <<late, outPump, child>>

\* proc.wait(timeout=5) returns the status, or times out.
WaitsForExit ==
    /\ mpc = "wait"
    /\ exit' \in {code, "none"}
    /\ mpc' = "teardown"
    /\ UNCHANGED <<pumpVars, used, err, late, outPump, child>>

-----------------------------------------------------------------------------
(* The main thread: the finally block and the verdict. *)

TearsDown ==
    /\ mpc = "teardown"
    /\ CloseWriter /\ Go("kill")
    /\ UNCHANGED <<late, outPump, child>>

\* The controller's ends of the pipes close with it, unless a grandchild has
\* them too.
Dies(status) ==
    /\ alive' = FALSE
    /\ code' = status
    /\ outOpen' = (outOpen /\ heir)
    /\ readable' = (readable /\ heir)
    /\ UNCHANGED <<backlog, flags, wake, ppc, hand, wpc, offered, pipe, got, stdin,
                   printed, heir>>

\* The kill.  pump_thread.join(timeout=2), which follows, is not a step: nobody
\* looks whether it timed out.
Kills ==
    /\ mpc = "kill" /\ Returned
    /\ IF alive THEN Dies("bad") ELSE UNCHANGED <<pumpVars, child>>
    /\ Go("joinPump")
    /\ UNCHANGED <<late, outPump>>

\* Slip: stdin is closed whether or not the pump was joined.
ClosesUnjoined ==
    /\ mpc = "joinPump"
    /\ CloseStdin
    /\ Go("verdict")
    /\ UNCHANGED <<late, outPump, child>>

\* writer.join(timeout=2), and stdin.close() only when the pump has ended.
JoinsPump ==
    /\ mpc = "joinPump"
    /\ IF ppc = "dead" THEN CloseStdin ELSE UNCHANGED pumpVars
    /\ Go("verdict")
    /\ UNCHANGED <<late, outPump, child>>

Judges ==
    /\ mpc = "verdict"
    /\ exit' = IF exit = "none" THEN code ELSE exit
    /\ err' = IF err = "none" /\ (dropped > 0 \/ exit' = "bad") THEN "run" ELSE err
    /\ mpc' = "done"
    /\ UNCHANGED <<pumpVars, used, late, outPump, child>>

MainStep == SendsSetpoint \/ WriteReturns \/ ChecksChannel \/ MissesDeadline \/ TakesAnswer
            \/ LoopEnds \/ ClosesPump \/ ClosesStdin \/ WaitsForExit
            \/ TearsDown \/ Kills \/ JoinsPump \/ Judges

\* Monotonic time passes the deadline, which only the loop looks at.
TimePasses ==
    /\ ~late /\ mpc \in {"step", "check", "get"}
    /\ late' = TRUE
    /\ UNCHANGED <<pumpVars, main, outPump, child>>

-----------------------------------------------------------------------------
(* The stdout pump (_pump_lines). *)

\* Its loop takes the next line, or ends at the end of the stream.
OutReads ==
    /\ opc = "read"
    /\ \/ moved < printed /\ oh' = moved + 1 /\ moved' = moved + 1
       \/ moved = printed /\ ~outOpen /\ oh' = Eof /\ UNCHANGED moved
    /\ opc' = "put"
    /\ UNCHANGED <<pumpVars, main, late, outq, dropped, child>>

Full == Len(outq) >= MaxLines

Lands(q) == outq' = Append(q, oh) /\ opc' = IF oh = Eof THEN "dead" ELSE "read"

OutPuts ==
    /\ opc = "put"
    /\ IF Full THEN opc' = "count" /\ UNCHANGED outq ELSE Lands(outq)
    /\ UNCHANGED <<pumpVars, main, late, oh, dropped, moved, child>>

\* Slip: nothing is counted.
OutForgets ==
    /\ opc = "count"
    /\ opc' = "drop"
    /\ UNCHANGED <<pumpVars, main, late, oh, outq, dropped, moved, child>>

OutCounts ==
    /\ opc = "count"
    /\ dropped' = dropped + 1
    /\ opc' = "drop"
    /\ UNCHANGED <<pumpVars, main, late, oh, outq, moved, child>>

\* get_nowait() raises, and ends the thread, if the main thread has emptied the
\* queue since its size was read.
OutDrops ==
    /\ opc = "drop"
    /\ IF outq = <<>> THEN opc' = "dead" /\ UNCHANGED outq ELSE Lands(Tail(outq))
    /\ UNCHANGED <<pumpVars, main, late, oh, dropped, moved, child>>

OutStep == OutReads \/ OutPuts \/ OutCounts \/ OutDrops

-----------------------------------------------------------------------------
(* The controller, and a grandchild that has inherited its pipes. *)

Prints ==
    /\ outOpen /\ printed < MaxOut
    /\ printed' = printed + 1
    /\ UNCHANGED <<pumpVars, main, late, outPump, outOpen, alive, code, heir>>

Reads == ChildReads /\ UNCHANGED plantVars

ClosesItsStdin == readable /\ ChildLeaves /\ UNCHANGED plantVars

ClosesItsStdout ==
    /\ outOpen
    /\ outOpen' = FALSE
    /\ UNCHANGED <<pumpVars, main, late, outPump, printed, alive, code, heir>>

Exits ==
    /\ alive
    /\ \E status \in {"zero", "bad"} : Dies(status)
    /\ UNCHANGED <<main, late, outPump>>

Forks ==
    /\ alive /\ ~heir
    /\ heir' = TRUE
    /\ UNCHANGED <<pumpVars, main, late, outPump, printed, outOpen, alive, code>>

Child == Prints \/ Reads \/ ClosesItsStdin \/ ClosesItsStdout \/ Exits \/ Forks

PumpRuns == PumpStep /\ UNCHANGED plantVars

\* A finished run: threads that are left stay where they are.
Finished == mpc = "done" /\ UNCHANGED vars

Next == MainStep \/ TimePasses \/ PumpRuns \/ OutStep \/ Child \/ Finished
Spec == Init /\ [][Next]_vars

\* The three threads are scheduled and time passes.  Nothing is assumed of the
\* controller.
FairSpec ==
    /\ Spec
    /\ WF_vars(MainStep)
    /\ WF_vars(PumpRuns)
    /\ WF_vars(OutStep)
    /\ WF_vars(TimePasses)

-----------------------------------------------------------------------------
(* Properties. *)

\* A run without an error fed the plant the controller's first Steps lines, in
\* order and none missing: a line that the full queue gave up is always seen by
\* one of the three flood checks, whichever side won the race.
UsedAnswersAreFirst ==
    mpc = "done" /\ err = "none" =>
        Len(used) = Steps /\ \A i \in 1..Steps : used[i] = i

\* Whatever the controller does with its pipes, the loop does not outlive the
\* wall deadline.
LoopMeetsDeadline == late ~> mpc \notin {"step", "check", "get"}

\* A run that reaches its finally block returns, even when a grandchild keeps
\* the pump stuck in its write.
AbortedRunReturns == mpc = "teardown" ~> mpc = "done"

\* "close() + join() during teardown never block the runner for long: killing
\* the process breaks any write stuck inside the pipe": the run returns.
RunReturns == <>(mpc = "done")

=============================================================================
