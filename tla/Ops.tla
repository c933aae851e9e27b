-------------------------------- MODULE Ops --------------------------------
(***************************************************************************)
(* An ops campaign: attempts of an agent on one live board, one after the  *)
(* other (cli.py, _cmd_ops_ab; ops_run.py, run_ops_attempt).  An attempt   *)
(* resolves its assets, identifies the board, seeds it step by step, lets  *)
(* the agent work with scripts ("bare") or through an MCP server process   *)
(* ("mcp"), judges the board on fresh connections, restores it and writes  *)
(* a row.  Every use of the line may fail, the server and a script's       *)
(* orphan work on the board by themselves, and the driver may be killed    *)
(* and started again under the same campaign name.                         *)
(***************************************************************************)
EXTENDS Naturals, Sequences

CONSTANTS
    Tasks,          \* records [setup, restore : Seq(step), judge : Seq(check)]
    Attempts,       \* attempts of a campaign
    MaxIterations,  \* task.budget.max_iterations
    MaxFaults,      \* bound: failures of the line, the network or the wire
    Campaigns       \* bound: campaigns started under the same name

Files == {"main", "extra"}

(* What a task is made of: each kind with the parameters that matter here. *)
OpsStep ==
    [kind : {"wipe_flash", "flash_asset"}]
    \cup [kind : {"deploy_file"}, file : Files, asset : {"good", "bad"}]
    \cup [kind : {"remove_file"}, file : Files]
OpsCheck ==
    [kind : {"boot_expect"}]
    \cup [kind : {"device_file"}, file : Files, asset : {"good", "bad"}]
OpsTask == [setup : Seq(OpsStep), restore : Seq(OpsStep), judge : Seq(OpsCheck)]

ASSUME OpsAssumption ==
    /\ Tasks \subseteq OpsTask
    /\ {Attempts, MaxIterations, MaxFaults, Campaigns} \subseteq Nat
    /\ MaxIterations > 0

VARIABLES
    pc,         \* where the driver is
    campaign,   \* the campaign the driver runs
    count,      \* attempts begun in it
    job,        \* the attempt's task and arm
    k,          \* the step or check at hand
    iteration,  \* the agent's turns in this attempt
    ends,       \* the agent's reply held a claim: no turn after this one
    claimed,    \* "none", "SUCCESS" or "FAIL"
    fate,       \* error_kind of the row to come, or "crash"
    judged,     \* "no", "passed" or "failed"
    restored,   \* "no", "ok" or "failed"
    board,      \* the board's flash and files
    raw,        \* the board sits in the raw REPL
    server,     \* the MCP server process: "none", "up" or "leaving"
    call,       \* its tool call: "none", "running" or "done"
    stray,      \* "working": what a kill left behind is still on the board;
                \* "ended": it was, since this attempt began
    file,       \* rows.jsonl: the tombstone's campaign, then the rows
    rc,         \* the driver's exit code
    faults

bench == <<board, raw>>
mcp == <<server, call>>
verdict == <<claimed, fate, judged, restored>>
book == <<campaign, count, job, file, rc>>
vars == <<pc, k, iteration, ends, bench, mcp, verdict, book, stray, faults>>

Healthy == [fw |-> TRUE, files |-> [f \in Files |-> IF f = "main" THEN "good" ELSE "none"]]

-----------------------------------------------------------------------------
(* The board.  A step of setup or restore (_run_step) and what it leaves.  *)

Applied(b, s) ==
    CASE s.kind = "wipe_flash"  -> [fw |-> FALSE, files |-> [f \in Files |-> "none"]]
      [] s.kind = "flash_asset" -> [b EXCEPT !.fw = TRUE]
      [] s.kind = "deploy_file" -> [b EXCEPT !.files[s.file] = s.asset]
      [] s.kind = "remove_file" -> [b EXCEPT !.files[s.file] = "none"]

(* put_file opens the target "wb" before the first chunk, erase_flash and  *)
(* write_flash work from the first sector on: a step that fails may have   *)
(* left its target half done.                                              *)
HalfDone(b, s) ==
    CASE s.kind = "deploy_file" -> [b EXCEPT !.files[s.file] = "bad"]
      [] s.kind = "remove_file" -> b
      [] s.kind = "flash_asset" -> [b EXCEPT !.fw = FALSE]
      [] s.kind = "wipe_flash"  -> Applied(b, s)

(* Opening the port may pulse reset, which ends raw mode; enter() reaches  *)
(* raw mode from any state of a board that has its firmware.               *)
RawAfterOpen == {raw, FALSE}

(* Who answers a step: the ROM loader always, the REPL only with firmware. *)
(* remove_file execs on a fresh MpRepl without enter(): outside raw mode   *)
(* nobody answers and the exec times out.                                  *)
Answered(s, rawNow) ==
    \/ s.kind \in {"wipe_flash", "flash_asset"}
    \/ s.kind = "deploy_file" /\ board.fw
    \/ s.kind = "remove_file" /\ board.fw /\ rawNow

(* What an agent does to a board through tools or scripts. *)
AgentMoves ==
    {Applied(board, s) : s \in OpsStep} \cup {board}

Spoil == faults < MaxFaults /\ faults' = faults + 1

StepDone(s) ==
    \E r \in RawAfterOpen :
        /\ Answered(s, r)
        /\ board' = Applied(board, s)
        /\ raw' = (s.kind = "remove_file")
        /\ UNCHANGED faults

StepFails(s) ==
    \E r \in RawAfterOpen :
        /\ \/ ~Answered(s, r) /\ raw' = r /\ UNCHANGED <<board, faults>>
           \/ Spoil /\ board' \in {board, HalfDone(board, s)} /\ raw' \in BOOLEAN

-----------------------------------------------------------------------------
(* The campaign's rows. *)

NoAttempt == [task |-> CHOOSE t \in Tasks : TRUE, arm |-> "bare"]

Init ==
    /\ pc = "start" /\ campaign = 1 /\ count = 0 /\ job = NoAttempt
    /\ k = 1 /\ iteration = 0 /\ ends = FALSE
    /\ claimed = "none" /\ fate = "none" /\ judged = "no" /\ restored = "no"
    /\ board = Healthy /\ raw = FALSE
    /\ server = "none" /\ call = "none" /\ stray = "none"
    /\ file = [owner |-> 0, rows |-> <<>>]
    /\ rc = 0 /\ faults = 0

KeptRows(c) == [owner |-> c, rows |-> file.rows]   \* a slip: the old rows stay
Tombstone(c) == [owner |-> c, rows |-> <<>>]

(* _start_rows_campaign: the tombstone replaces the old file in one rename *)
(* or, when the rename is refused to the end, nothing changes.             *)
StartCampaign ==
    /\ pc = "start"
    /\ \/ file' = Tombstone(campaign) /\ pc' = "next" /\ UNCHANGED faults
       \/ Spoil /\ pc' = "dead" /\ UNCHANGED file
    /\ UNCHANGED <<k, iteration, ends, bench, mcp, verdict, campaign, count, job, rc, stray>>

NextAttempt ==
    /\ pc = "next"
    /\ count < Attempts
    /\ \E t \in Tasks, arm \in {"bare", "mcp"} : job' = [task |-> t, arm |-> arm]
    /\ count' = count + 1
    /\ pc' = "assets"
    /\ k' = 1 /\ iteration' = 0 /\ ends' = FALSE
    /\ claimed' = "none" /\ fate' = "none" /\ judged' = "no" /\ restored' = "no"
    /\ stray' = IF stray = "working" THEN stray ELSE "none"
    /\ UNCHANGED <<bench, mcp, campaign, file, rc, faults>>

CampaignDone ==
    /\ pc = "next" /\ count = Attempts
    /\ pc' = "done"
    /\ UNCHANGED <<k, iteration, ends, bench, mcp, verdict, book, stray, faults>>

Solved == judged = "passed"

(* An exception that left the attempt has the row of an infra failure.     *)
CrashRow == [of |-> campaign, n |-> count, solved |-> FALSE, kind |-> "infra",
             judged |-> FALSE, restore_failed |-> FALSE]

Row ==
    IF fate = "crash" THEN CrashRow
    ELSE [of |-> campaign, n |-> count, solved |-> Solved,
          kind |-> IF restored = "failed" /\ fate = "none" /\ ~Solved
                   THEN "infra" ELSE fate,
          judged |-> judged # "no",
          restore_failed |-> restored = "failed" /\ fate # "infra"]

ExitWith(row) == IF row.solved THEN rc ELSE 1

(* finish() and the row of the attempt, or the crash row of an exception   *)
(* that left run_ops_attempt; the campaign goes on either way.             *)
WriteRow ==
    /\ pc = "row"
    /\ file' = [file EXCEPT !.rows = Append(@, Row)]
    /\ rc' = ExitWith(Row)
    /\ pc' = "next"
    /\ k' = 1 /\ iteration' = 0 /\ ends' = FALSE
    /\ claimed' = "none" /\ fate' = "none" /\ judged' = "no" /\ restored' = "no"
    /\ job' = NoAttempt
    /\ UNCHANGED <<bench, mcp, campaign, count, stray, faults>>

(* The driver is killed: a script or a tool call that was running goes on  *)
(* alone; an idle server reads the end of its stdin and leaves.            *)
Kill ==
    /\ pc \notin {"start", "done", "dead"}
    /\ campaign < Campaigns
    /\ pc' = "dead"
    /\ server' = "none" /\ call' = "none"
    /\ stray' = IF pc = "script" \/ call = "running" THEN "working" ELSE stray
    /\ k' = 1 /\ iteration' = 0 /\ ends' = FALSE
    /\ claimed' = "none" /\ fate' = "none" /\ judged' = "no" /\ restored' = "no"
    /\ job' = NoAttempt
    /\ UNCHANGED <<bench, campaign, count, file, rc, faults>>

Restart ==
    /\ pc \in {"dead", "done"} /\ campaign < Campaigns
    /\ pc' = "start" /\ campaign' = campaign + 1 /\ count' = 0 /\ rc' = 0
    /\ UNCHANGED <<k, iteration, ends, bench, mcp, verdict, job, file, stray, faults>>

-----------------------------------------------------------------------------
(* Before the agent: assets, preflight, setup. *)

InfraRow == fate' = "infra" /\ pc' = "row"

ResolveAssets ==
    /\ pc = "assets"
    /\ \/ pc' = "preflight" /\ UNCHANGED <<fate, faults>>
       \/ Spoil /\ InfraRow
    /\ UNCHANGED <<k, iteration, ends, bench, mcp, claimed, judged, restored, book, stray>>

(* The ROM prints its boot line on every reset, whatever the flash holds.  *)
Preflight ==
    /\ pc = "preflight"
    /\ raw' = FALSE
    /\ \/ pc' = "setup" /\ UNCHANGED <<fate, faults>>
       \/ Spoil /\ InfraRow
    /\ UNCHANGED <<k, iteration, ends, board, mcp, claimed, judged, restored, book, stray>>

Steps == IF pc = "setup" THEN job.task.setup ELSE job.task.restore

SetupStep ==
    /\ pc = "setup" /\ k <= Len(Steps)
    /\ StepDone(Steps[k])
    /\ k' = k + 1
    /\ UNCHANGED <<pc, iteration, ends, mcp, verdict, book, stray>>

Continue == pc' = pc /\ fate' = fate /\ k' = k + 1   \* a slip: the step is skipped
AfterBadSetup == pc' = "restore" /\ fate' = "infra" /\ k' = 1

SetupFails ==
    /\ pc = "setup" /\ k <= Len(Steps)
    /\ StepFails(Steps[k])
    /\ AfterBadSetup
    /\ UNCHANGED <<iteration, ends, mcp, claimed, judged, restored, book, stray>>

SetupDone ==
    /\ pc = "setup" /\ k > Len(Steps)
    /\ pc' = IF job.arm = "mcp" THEN "spawn" ELSE "ask"
    /\ k' = 1
    /\ UNCHANGED <<iteration, ends, bench, mcp, verdict, book, stray, faults>>

-----------------------------------------------------------------------------
(* The arm loop.  Leaving it with the MCP arm always closes the client. *)

LeaveArm == pc' = IF job.arm = "mcp" THEN "closing" ELSE "armed"

(* The server is spawned and greeted; when that fails (or tools/list does) *)
(* the attempt is infra.  A server that never answered has no client left  *)
(* and no call to serve.  An answer that is no object is a crash here too. *)
Spawn ==
    /\ pc = "spawn"
    /\ \/ pc' = "ask" /\ server' = "up" /\ UNCHANGED <<fate, faults>>
       \/ Spoil /\ fate' \in {"infra", "crash"} /\ pc' = "armed" /\ UNCHANGED server
    /\ UNCHANGED <<k, iteration, ends, bench, call, claimed, judged, restored, book, stray>>

MayAsk == pc = "ask" /\ ~ends /\ iteration < MaxIterations

(* The budget is used up, or the last reply held a claim. *)
LoopEnds ==
    /\ pc = "ask" /\ (ends \/ iteration = MaxIterations)
    /\ LeaveArm
    /\ UNCHANGED <<k, iteration, ends, bench, mcp, verdict, book, stray, faults>>

DeadlinePasses ==
    /\ MayAsk
    /\ fate' = "timeout"
    /\ LeaveArm
    /\ UNCHANGED <<k, iteration, ends, bench, mcp, claimed, judged, restored, book, stray, faults>>

(* The model's endpoint fails after its retries: infra.  Its reply has no  *)
(* choices, or is no JSON: an exception nobody handles in the attempt.     *)
ChatFails ==
    /\ MayAsk
    /\ Spoil
    /\ fate' \in {"infra", "crash"}
    /\ LeaveArm
    /\ UNCHANGED <<k, iteration, ends, bench, mcp, claimed, judged, restored, book, stray>>

(* A reply with nothing to run: one turn is gone. *)
InvalidReply ==
    /\ MayAsk
    /\ iteration' = iteration + 1
    /\ UNCHANGED <<pc, k, ends, bench, mcp, verdict, book, stray, faults>>

(* A claim in the mcp arm ends the attempt even when its verdict is none.  *)
Claims ==
    /\ MayAsk
    /\ iteration' = iteration + 1
    /\ \/ claimed' \in {"SUCCESS", "FAIL"}
       \/ job.arm = "mcp" /\ UNCHANGED claimed
    /\ ends' = TRUE
    /\ UNCHANGED <<pc, k, bench, mcp, fate, judged, restored, book, stray, faults>>

WritesScript ==
    /\ MayAsk /\ job.arm = "bare"
    /\ iteration' = iteration + 1
    /\ pc' = "script"
    /\ UNCHANGED <<k, ends, bench, mcp, verdict, book, stray, faults>>

(* A script that ends may leave a process of its own at work;              *)
(* subprocess.run kills one that takes too long, not what it has started.  *)
ScriptEnds ==
    /\ pc = "script"
    /\ board' \in AgentMoves /\ raw' \in BOOLEAN
    /\ stray' \in {stray, "working"}
    /\ pc' = "ask"
    /\ UNCHANGED <<k, iteration, ends, mcp, verdict, book, faults>>

ScriptTimesOut ==
    /\ pc = "script"
    /\ board' \in AgentMoves /\ raw' \in BOOLEAN
    /\ stray' \in {stray, "working"}
    /\ fate' = "timeout" /\ pc' = "armed"
    /\ UNCHANGED <<k, iteration, ends, mcp, claimed, judged, restored, book, faults>>

CallsTools ==
    /\ MayAsk /\ job.arm = "mcp"
    /\ iteration' = iteration + 1
    /\ pc' = "calls"
    /\ UNCHANGED <<k, ends, bench, mcp, verdict, book, stray, faults>>

(* The calls of one reply in turn: a claim among them ends the attempt     *)
(* after the last of them, not at once.                                    *)
NextCall ==
    /\ pc = "calls"
    /\ \/ /\ call' = IF server = "up" THEN "running" ELSE "lost"
          /\ pc' = "wire" /\ UNCHANGED <<claimed, ends>>
       \/ claimed' \in {claimed, "SUCCESS", "FAIL"} /\ ends' = TRUE /\ UNCHANGED <<call, pc>>
    /\ UNCHANGED <<k, iteration, bench, server, fate, judged, restored, book, stray, faults>>

NoMoreCalls ==
    /\ pc = "calls"
    /\ pc' = "ask"
    /\ UNCHANGED <<k, iteration, ends, bench, mcp, verdict, book, stray, faults>>

Answer ==
    /\ pc = "wire" /\ call = "done"
    /\ pc' = "calls" /\ call' = "none"
    /\ UNCHANGED <<k, iteration, ends, bench, server, verdict, book, stray, faults>>

(* No answer in time, garbage on stdout, a closed stdout: all three leave  *)
(* the arm as an infra failure, the call perhaps still at work.  A line    *)
(* that is JSON and no object raises what nobody handles in the attempt.   *)
WireBreaks ==
    /\ pc = "wire" /\ call # "done"
    /\ \/ Spoil /\ fate' \in {"infra", "crash"}
       \/ server = "none" /\ fate' = "infra" /\ UNCHANGED faults
    /\ pc' = "closing"
    /\ UNCHANGED <<k, iteration, ends, bench, mcp, claimed, judged, restored, book, stray>>

ServerWorks ==
    /\ call = "running" /\ server # "none"
    /\ board' \in AgentMoves /\ raw' \in BOOLEAN
    /\ call' = "done"
    /\ UNCHANGED <<pc, k, iteration, ends, server, verdict, book, stray, faults>>

(* The server reads the end of its stdin between two calls. *)
ServerLeaves ==
    /\ server = "leaving" /\ call # "running"
    /\ server' = "none" /\ call' = "none"
    /\ UNCHANGED <<pc, k, iteration, ends, bench, verdict, book, stray, faults>>

ServerDies ==
    /\ server = "up" /\ Spoil
    /\ server' = "none" /\ call' = IF call = "none" THEN "none" ELSE "lost"
    /\ UNCHANGED <<pc, k, iteration, ends, bench, verdict, book, stray>>

(* close(): stdin first; then stdout, which waits for the reader thread    *)
(* that reads from it until the server is gone.                            *)
NeverCloses == FALSE     \* a slip: stdout is closed first

ClosesStdin ==
    /\ pc = "closing" /\ server = "up"
    /\ server' = "leaving"
    /\ UNCHANGED <<pc, k, iteration, ends, bench, call, verdict, book, stray, faults>>

NotWaiting == server # "up"                    \* a slip: stdout is not waited for
Gone == server = "none"

Closed ==
    /\ pc = "closing" /\ Gone
    /\ pc' = "armed" /\ call' = IF call = "lost" THEN "none" ELSE call
    /\ UNCHANGED <<k, iteration, ends, bench, server, verdict, book, stray, faults>>

StrayWorks ==
    /\ stray = "working"
    /\ board' \in AgentMoves
    /\ stray' \in {"working", "ended"}
    /\ UNCHANGED <<pc, k, iteration, ends, raw, mcp, verdict, book, faults>>

-----------------------------------------------------------------------------
(* After the agent: judge, restore. *)

JudgeClaims == fate = "none" /\ claimed # "none"   \* a slip: no claim, no judge
Judgeable == fate = "none" /\ iteration > 0

AfterArm ==
    /\ pc = "armed"
    /\ pc' = IF fate = "crash" THEN "row" ELSE IF Judgeable THEN "judge" ELSE "restore"
    /\ judged' = IF Judgeable THEN "passed" ELSE "no"
    /\ UNCHANGED <<k, iteration, ends, bench, mcp, claimed, fate, restored, book, stray, faults>>

Holds(check) ==
    CASE check.kind = "boot_expect" -> board.fw /\ board.files["main"] = "good"
      [] check.kind = "device_file" -> board.fw /\ board.files[check.file] = check.asset

AllPassed(ok) == IF judged = "passed" /\ ok THEN "passed" ELSE "failed"

(* One check on a fresh connection; a line that fails fails the check and  *)
(* the checks after it are run all the same.                               *)
Check ==
    /\ pc = "judge" /\ k <= Len(job.task.judge)
    /\ \/ judged' = AllPassed(Holds(job.task.judge[k])) /\ UNCHANGED faults
       \/ Spoil /\ judged' = AllPassed(FALSE)
    /\ raw' \in BOOLEAN
    /\ k' = k + 1
    /\ UNCHANGED <<pc, iteration, ends, board, mcp, claimed, fate, restored, book, stray>>

JudgeDone ==
    /\ pc = "judge" /\ k > Len(job.task.judge)
    /\ pc' = "restore" /\ k' = 1
    /\ UNCHANGED <<iteration, ends, bench, mcp, verdict, book, stray, faults>>

RestoreStep ==
    /\ pc = "restore" /\ k <= Len(Steps)
    /\ StepDone(Steps[k])
    /\ k' = k + 1
    /\ UNCHANGED <<pc, iteration, ends, mcp, verdict, book, stray>>

RestoreFails ==
    /\ pc = "restore" /\ k <= Len(Steps)
    /\ StepFails(Steps[k])
    /\ restored' = "failed" /\ pc' = "row"
    /\ UNCHANGED <<k, iteration, ends, mcp, claimed, fate, judged, book, stray>>

RestoreDone ==
    /\ pc = "restore" /\ k > Len(Steps)
    /\ restored' = "ok" /\ pc' = "row"
    /\ UNCHANGED <<k, iteration, ends, bench, mcp, claimed, fate, judged, book, stray, faults>>

-----------------------------------------------------------------------------
Driver ==
    \/ StartCampaign \/ NextAttempt \/ CampaignDone \/ WriteRow
    \/ ResolveAssets \/ Preflight \/ SetupStep \/ SetupFails \/ SetupDone
    \/ Spawn \/ LoopEnds \/ DeadlinePasses \/ ChatFails \/ InvalidReply \/ Claims
    \/ WritesScript \/ ScriptEnds \/ ScriptTimesOut \/ CallsTools \/ NextCall \/ NoMoreCalls \/ Answer
    \/ WireBreaks \/ ClosesStdin \/ Closed \/ AfterArm \/ Check \/ JudgeDone
    \/ RestoreStep \/ RestoreFails \/ RestoreDone

Server == ServerWorks \/ ServerLeaves

Next == Driver \/ Server \/ ServerDies \/ StrayWorks \/ Kill \/ Restart

(* The driver is one thread that goes on by itself; its reply of tool      *)
(* calls is finite; a tool call ends and a server at the end of its stdin  *)
(* leaves.  Nothing is assumed of strays, kills and restarts.              *)
Fairness ==
    /\ WF_vars(Driver) /\ WF_vars(Server)
    /\ SF_vars(NoMoreCalls)

Spec == Init /\ [][Next]_vars
FairSpec == Spec /\ Fairness

-----------------------------------------------------------------------------
(* Properties. *)

(* The places of a board that steps write, and which of them a step does.  *)
Places == {"fw"} \cup Files
Touched(s) ==
    CASE s.kind = "wipe_flash"  -> Places
      [] s.kind = "flash_asset" -> {"fw"}
      [] s.kind \in {"deploy_file", "remove_file"} -> {s.file}
At(b, p) == IF p = "fw" THEN b.fw ELSE b.files[p]

(* The first n steps have left their mark on b: each place is as the last  *)
(* of them that touches it says.                                           *)
SettledUpTo(b, steps, n) ==
    \A j \in 1..n, p \in Places :
        p \in Touched(steps[j]) /\ (\A i \in j+1..n : p \notin Touched(steps[i]))
            => At(b, p) = At(Applied(b, steps[j]), p)

(* Doing the steps again would change nothing: the board is as they say. *)
Settled(steps) == SettledUpTo(board, steps, Len(steps))

(* setup is a "deterministic seeded pre-state": whatever the attempts      *)
(* before it left on the board, and whatever failed on the way, an agent   *)
(* that is asked finds the board its task's setup describes.               *)
SeededStart ==
    (pc = "spawn" \/ (pc = "ask" /\ iteration = 0)) /\ stray = "none"
        => Settled(job.task.setup)

(* A restore that went well leaves the board as restore says: no call of   *)
(* the agent's server is still at work on it (close() waits for the server *)
(* even when a call has timed out).  Nothing is said of a board on which a *)
(* stray script still runs: the code does not stop those.                  *)
RestoredTruth ==
    pc = "row" /\ restored = "ok" /\ stray = "none" => Settled(job.task.restore)

(* The verdict is about one board: when the last check has passed, all the *)
(* checks would still pass.                                                *)
SolvedIsSolved ==
    pc = "restore" /\ k = 1 /\ judged = "passed" /\ stray = "none"
        => \A i \in DOMAIN job.task.judge : Holds(job.task.judge[i])

(* An unsolved row that counts against the model (error_kind "none") is of *)
(* an attempt the judge has looked at; everything else is infra or timeout.*)
CountedOnlyIfJudged ==
    \A n \in DOMAIN file.rows : file.rows[n].kind = "none" => file.rows[n].judged

(* Solved is a fact about the board, and counted a fact about the judge. *)
VerdictsAreTrue == SolvedIsSolved /\ CountedOnlyIfJudged

(* Between two attempts rows.jsonl has exactly the rows of the attempts    *)
(* this campaign has made, in order, under its own tombstone: a campaign   *)
(* that was killed never lends its rows to the next one.                   *)
RowPerAttempt ==
    pc = "next" => /\ file.owner = campaign
                   /\ Len(file.rows) = count
                   /\ \A n \in DOMAIN file.rows :
                        file.rows[n].of = campaign /\ file.rows[n].n = n

(* The exit code is 0 exactly when every attempt was solved. *)
ExitCodeTruth ==
    pc = "done" => (rc = 0 <=> \A n \in DOMAIN file.rows : file.rows[n].solved)

(* What a campaign reports is what it did. *)
CampaignAccount == RowPerAttempt /\ ExitCodeTruth

(* Every attempt ends, whatever fails in it: in a row, or with the driver. *)
EveryAttemptEnds == (pc = "assets") ~> (pc \in {"next", "dead"})
=============================================================================
