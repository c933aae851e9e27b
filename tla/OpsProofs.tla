----------------------------- MODULE OpsProofs -----------------------------
(***************************************************************************)
(* Proofs about the ops campaign, for every set of tasks, every number of  *)
(* attempts and turns and every bound on faults: the agent starts on a     *)
(* seeded board, a restore that went well is one, a verdict is about the   *)
(* board and about the judge, and a campaign reports what it did.          *)
(***************************************************************************)
EXTENDS Ops, TLAPS

Boards == [fw : BOOLEAN, files : [Files -> {"good", "bad", "none"}]]
Rows == [of : Nat, n : Nat, solved : BOOLEAN, kind : {"none", "infra", "timeout"},
         judged : BOOLEAN, restore_failed : BOOLEAN]

Between == {"start", "next", "done", "dead"}
ArmPlaces == {"ask", "calls", "wire", "closing"}
PCs == Between \cup ArmPlaces \cup {"assets", "preflight", "setup", "spawn",
                                    "script", "armed", "judge", "restore", "row"}

TypeInv ==
    /\ pc \in PCs
    /\ campaign \in Nat /\ count \in Nat
    /\ pc \notin Between => job.task \in Tasks
    /\ k \in Nat \ {0} /\ iteration \in Nat
    /\ board \in Boards
    /\ fate \in {"none", "infra", "timeout", "crash"}
    /\ judged \in {"no", "passed", "failed"} /\ restored \in {"no", "ok", "failed"}
    /\ server \in {"none", "up", "leaving"} /\ call \in {"none", "running", "done", "lost"}
    /\ stray \in {"none", "working", "ended"}
    /\ file \in [owner : Nat, rows : Seq(Rows)] /\ rc \in {0, 1}

(* The server lives inside the arm loop of an mcp attempt, and its call    *)
(* inside a tool call of the driver or the closing of the client.          *)
ServerInv ==
    /\ server # "none" => pc \in ArmPlaces /\ job.arm = "mcp"
    /\ server = "none" => call \in {"none", "lost"}
    /\ pc \notin {"wire", "closing"} => call = "none"
    /\ pc = "script" => job.arm = "bare"
    /\ pc = "spawn" => job.arm = "mcp"

(* Which of the attempt's registers are still untouched where.  *)
PhaseInv ==
    /\ pc \in {"calls", "wire", "script"} => iteration > 0
    /\ ends => iteration > 0
    /\ pc \notin {"setup", "judge", "restore", "row"} => k = 1
    /\ pc = "setup" => k <= Len(job.task.setup) + 1
    /\ pc = "restore" => k <= Len(job.task.restore) + 1
    /\ pc \in {"closing", "armed"} /\ fate = "none" => iteration > 0
    /\ judged # "no" => pc \in {"judge", "restore", "row"}
    /\ pc = "judge" => judged # "no"
    /\ pc \in {"restore", "row"} /\ fate = "none" => judged # "no"
    /\ restored # "no" => pc = "row"

(* What the board is known to be, as long as nobody strays on it. *)
SetupKnown ==
    /\ pc = "setup" => SettledUpTo(board, job.task.setup, k - 1)
    /\ pc = "spawn" \/ (pc = "ask" /\ iteration = 0) => Settled(job.task.setup)
RestoreKnown ==
    /\ pc = "restore" => SettledUpTo(board, job.task.restore, k - 1)
    /\ pc = "row" /\ restored = "ok" => Settled(job.task.restore)
JudgeKnown ==
    /\ pc = "judge" /\ judged = "passed" => \A i \in 1..(k-1) : Holds(job.task.judge[i])
    /\ pc = "restore" /\ k = 1 /\ judged = "passed"
         => \A i \in DOMAIN job.task.judge : Holds(job.task.judge[i])
BoardInv == stray = "none" => SetupKnown /\ RestoreKnown /\ JudgeKnown

(* The campaign's book while an attempt is under way. *)
BookInv ==
    /\ pc = "start" => rc = 0 /\ count = 0
    /\ pc \notin {"start", "dead"} =>
         /\ file.owner = campaign
         /\ Len(file.rows) = IF pc \in {"next", "done"} THEN count ELSE count - 1
         /\ \A n \in DOMAIN file.rows : file.rows[n].of = campaign /\ file.rows[n].n = n
         /\ rc = 0 <=> \A n \in DOMAIN file.rows : file.rows[n].solved

OpsInv == TypeInv /\ ServerInv /\ PhaseInv /\ BoardInv /\ CountedOnlyIfJudged /\ BookInv

-----------------------------------------------------------------------------
(* The board's operators. *)

(* A step of any kind leaves a board. *)
LEMMA AppliedType ==
    ASSUME NEW b \in Boards, NEW s \in OpsStep
    PROVE  Applied(b, s) \in Boards
<1>1. CASE s \in [kind : {"wipe_flash", "flash_asset"}]
  BY <1>1 DEF Applied, Boards, Files
<1>2. CASE s \in [kind : {"deploy_file"}, file : Files, asset : {"good", "bad"}]
  BY <1>2 DEF Applied, Boards, Files
<1>3. CASE s \in [kind : {"remove_file"}, file : Files]
  BY <1>3 DEF Applied, Boards, Files
<1>4. QED
  BY <1>1, <1>2, <1>3 DEF OpsStep

(* And so does a step that failed half way. *)
LEMMA HalfDoneType ==
    ASSUME NEW b \in Boards, NEW s \in OpsStep
    PROVE  HalfDone(b, s) \in Boards
<1>1. CASE s \in [kind : {"wipe_flash", "flash_asset"}]
  BY <1>1, AppliedType DEF HalfDone, Boards, Files
<1>2. CASE s \in [kind : {"deploy_file"}, file : Files, asset : {"good", "bad"}]
  BY <1>2 DEF HalfDone, Boards, Files
<1>3. CASE s \in [kind : {"remove_file"}, file : Files]
  BY <1>3 DEF HalfDone, Boards, Files
<1>4. QED
  BY <1>1, <1>2, <1>3 DEF OpsStep

(* A step leaves alone what it does not touch, and what it leaves where it *)
(* does is the same whatever the board was.                                *)
LEMMA AppliedAt ==
    ASSUME NEW b \in Boards, NEW c \in Boards, NEW s \in OpsStep, NEW p \in Places
    PROVE  /\ p \notin Touched(s) => At(Applied(b, s), p) = At(b, p)
           /\ p \in Touched(s) => At(Applied(b, s), p) = At(Applied(c, s), p)
<1>1. CASE s \in [kind : {"wipe_flash", "flash_asset"}]
  BY <1>1 DEF Applied, Boards, Files, Places, Touched, At
<1>2. CASE s \in [kind : {"deploy_file"}, file : Files, asset : {"good", "bad"}]
  BY <1>2 DEF Applied, Boards, Files, Places, Touched, At
<1>3. CASE s \in [kind : {"remove_file"}, file : Files]
  BY <1>3 DEF Applied, Boards, Files, Places, Touched, At
<1>4. QED
  BY <1>1, <1>2, <1>3 DEF OpsStep

(* A board on which n - 1 steps have left their mark has, after one more,  *)
(* the mark of n of them.                                                  *)
LEMMA OneMoreStep ==
    ASSUME NEW b \in Boards, NEW steps \in Seq(OpsStep), NEW n \in 1..Len(steps),
           SettledUpTo(b, steps, n - 1)
    PROVE  SettledUpTo(Applied(b, steps[n]), steps, n)
<1> DEFINE c == Applied(b, steps[n])
<1>1. c \in Boards /\ \A j \in 1..n : steps[j] \in OpsStep
  BY AppliedType
<1> SUFFICES ASSUME NEW j \in 1..n, NEW p \in Places, p \in Touched(steps[j]),
                    \A i \in j+1..n : p \notin Touched(steps[i])
             PROVE  At(c, p) = At(Applied(c, steps[j]), p)
  BY DEF SettledUpTo
<1> HIDE DEF c
<1>2. CASE j = n
  <2>1. At(Applied(b, steps[n]), p) = At(Applied(c, steps[n]), p)
    BY <1>1, <1>2, AppliedAt
  <2>2. QED
    BY <2>1, <1>2 DEF c
<1>3. CASE j # n
  <2>1. j \in 1..(n-1) /\ n \in j+1..n /\ \A i \in j+1..n-1 : i \in j+1..n
    BY <1>3
  <2>2. p \notin Touched(steps[n]) /\ \A i \in j+1..n-1 : p \notin Touched(steps[i])
    BY <2>1
  <2>3. At(b, p) = At(Applied(b, steps[j]), p)
    BY <2>1, <2>2 DEF SettledUpTo
  <2>4. At(Applied(b, steps[n]), p) = At(b, p)
    BY <1>1, <2>2, AppliedAt
  <2>5. At(Applied(b, steps[j]), p) = At(Applied(c, steps[j]), p)
    BY <1>1, AppliedAt
  <2>6. QED
    BY <2>3, <2>4, <2>5 DEF c
<1>4. QED
  BY <1>2, <1>3

(* Before the first step there is nothing to be settled. *)
LEMMA NoneYet ==
    ASSUME NEW b, NEW steps
    PROVE  SettledUpTo(b, steps, 0)
BY DEF SettledUpTo

-----------------------------------------------------------------------------
(* Types. *)

LEMMA AgentMovesType ==
    ASSUME board \in Boards
    PROVE  AgentMoves \subseteq Boards
BY AppliedType DEF AgentMoves

(* The step at hand is a step. *)
LEMMA StepAtHand ==
    ASSUME TypeInv, pc \in {"setup", "restore"}, k <= Len(Steps)
    PROVE  Steps \in Seq(OpsStep) /\ k \in 1..Len(Steps) /\ Steps[k] \in OpsStep
<1>1. job.task \in OpsTask
  BY OpsAssumption DEF TypeInv, Between
<1>2. Steps \in Seq(OpsStep)
  BY <1>1 DEF OpsTask, Steps
<1>3. k \in 1..Len(Steps)
  BY <1>2 DEF TypeInv
<1>4. QED
  BY <1>2, <1>3

(* The lists of the attempt's task. *)
LEMMA TaskAtHand ==
    ASSUME TypeInv, pc \notin Between
    PROVE  job.task.setup \in Seq(OpsStep) /\ job.task.restore \in Seq(OpsStep)
           /\ job.task.judge \in Seq(OpsCheck)
BY OpsAssumption DEF TypeInv, OpsTask

(* The row of an attempt, whichever it is, tells a judge's silence from a  *)
(* failure that counts.                                                    *)
LEMMA RowIsSound ==
    ASSUME TypeInv, PhaseInv, pc = "row"
    PROVE  Row \in Rows /\ (Row.kind = "none" => Row.judged)
BY DEF Row, CrashRow, Solved, Rows, TypeInv, PhaseInv, Between

LEMMA TypeNext ==
    ASSUME TypeInv, ServerInv, PhaseInv, [Next]_vars
    PROVE  TypeInv'
<1>1. CASE StartCampaign
  <2>1. Tombstone(campaign) \in [owner : Nat, rows : Seq(Rows)]
    BY DEF Tombstone, TypeInv
  <2>2. QED
    BY <1>1, <2>1 DEF StartCampaign, Spoil, TypeInv, PCs, Between, bench, mcp, verdict
<1>2. CASE NextAttempt
  BY <1>2 DEF NextAttempt, TypeInv, PCs, Between, ArmPlaces, bench, mcp, verdict, book
<1>3. CASE CampaignDone
  BY <1>3 DEF CampaignDone, TypeInv, PCs, Between, ArmPlaces, bench, mcp, verdict, book
<1>4. CASE WriteRow
  <2>1. Row \in Rows
    BY <1>4, RowIsSound DEF WriteRow
  <2>2. file' \in [owner : Nat, rows : Seq(Rows)]
    <3>1. file.rows \in Seq(Rows) /\ file.owner \in Nat
      BY DEF TypeInv
    <3>2. Append(file.rows, Row) \in Seq(Rows)
      BY <2>1, <3>1
    <3>3. file' = [file EXCEPT !.rows = Append(file.rows, Row)]
      BY <1>4 DEF WriteRow
    <3>4. QED
      BY <3>1, <3>2, <3>3 DEF TypeInv
  <2>3. QED
    BY <1>4, <2>2 DEF WriteRow, ExitWith, TypeInv, PCs, Between, bench, mcp
<1>5. CASE ResolveAssets
  BY <1>5 DEF ResolveAssets, InfraRow, Spoil, TypeInv, PCs, Between, ArmPlaces, bench, mcp, verdict, book
<1>6. CASE Preflight
  BY <1>6 DEF Preflight, InfraRow, Spoil, TypeInv, PCs, Between, ArmPlaces, bench, mcp, verdict, book
<1>7. CASE SetupStep
  BY <1>7, StepAtHand, AppliedType, HalfDoneType DEF SetupStep, StepDone, TypeInv, PCs, Between, ArmPlaces, bench, mcp, verdict, book
<1>8. CASE SetupFails
  BY <1>8, StepAtHand, AppliedType, HalfDoneType DEF SetupFails, AfterBadSetup, StepFails, Spoil, TypeInv, PCs, Between, ArmPlaces, bench, mcp, verdict, book
<1>9. CASE SetupDone
  BY <1>9 DEF SetupDone, TypeInv, PCs, Between, ArmPlaces, bench, mcp, verdict, book
<1>10. CASE Spawn
  BY <1>10 DEF Spawn, Spoil, TypeInv, PCs, Between, ArmPlaces, bench, mcp, verdict, book
<1>11. CASE LoopEnds
  BY <1>11 DEF LoopEnds, MayAsk, LeaveArm, Spoil, TypeInv, PCs, Between, ArmPlaces, bench, mcp, verdict, book
<1>12. CASE DeadlinePasses
  BY <1>12 DEF DeadlinePasses, MayAsk, LeaveArm, Spoil, TypeInv, PCs, Between, ArmPlaces, bench, mcp, verdict, book
<1>13. CASE ChatFails
  BY <1>13 DEF ChatFails, MayAsk, LeaveArm, Spoil, TypeInv, PCs, Between, ArmPlaces, bench, mcp, verdict, book
<1>14. CASE InvalidReply
  BY <1>14 DEF InvalidReply, MayAsk, TypeInv, PCs, Between, ArmPlaces, bench, mcp, verdict, book
<1>15. CASE Claims
  BY <1>15 DEF Claims, MayAsk, TypeInv, PCs, Between, ArmPlaces, bench, mcp, verdict, book
<1>16. CASE WritesScript
  BY <1>16 DEF WritesScript, MayAsk, TypeInv, PCs, Between, ArmPlaces, bench, mcp, verdict, book
<1>17. CASE ScriptEnds
  BY <1>17, AgentMovesType DEF ScriptEnds, TypeInv, PCs, Between, ArmPlaces, bench, mcp, verdict, book
<1>18. CASE ScriptTimesOut
  BY <1>18, AgentMovesType DEF ScriptTimesOut, TypeInv, PCs, Between, ArmPlaces, bench, mcp, verdict, book
<1>19. CASE CallsTools
  BY <1>19 DEF CallsTools, MayAsk, TypeInv, PCs, Between, ArmPlaces, bench, mcp, verdict, book
<1>20. CASE NextCall
  BY <1>20 DEF NextCall, TypeInv, PCs, Between, ArmPlaces, bench, mcp, verdict, book
<1>21. CASE NoMoreCalls
  BY <1>21 DEF NoMoreCalls, TypeInv, PCs, Between, ArmPlaces, bench, mcp, verdict, book
<1>22. CASE Answer
  BY <1>22 DEF Answer, TypeInv, PCs, Between, ArmPlaces, bench, mcp, verdict, book
<1>23. CASE WireBreaks
  BY <1>23 DEF WireBreaks, Spoil, TypeInv, PCs, Between, ArmPlaces, bench, mcp, verdict, book
<1>24. CASE ClosesStdin
  BY <1>24 DEF ClosesStdin, TypeInv, PCs, Between, ArmPlaces, bench, mcp, verdict, book
<1>25. CASE Closed
  BY <1>25 DEF Closed, Gone, TypeInv, PCs, Between, ArmPlaces, bench, mcp, verdict, book
<1>26. CASE AfterArm
  BY <1>26 DEF AfterArm, Judgeable, TypeInv, PCs, Between, ArmPlaces, bench, mcp, verdict, book
<1>27. CASE Check
  BY <1>27 DEF Check, Spoil, AllPassed, TypeInv, PCs, Between, ArmPlaces, bench, mcp, verdict, book
<1>28. CASE JudgeDone
  BY <1>28 DEF JudgeDone, TypeInv, PCs, Between, ArmPlaces, bench, mcp, verdict, book
<1>29. CASE RestoreStep
  BY <1>29, StepAtHand, AppliedType, HalfDoneType DEF RestoreStep, StepDone, TypeInv, PCs, Between, ArmPlaces, bench, mcp, verdict, book
<1>30. CASE RestoreFails
  BY <1>30, StepAtHand, AppliedType, HalfDoneType DEF RestoreFails, StepFails, Spoil, TypeInv, PCs, Between, ArmPlaces, bench, mcp, verdict, book
<1>31. CASE RestoreDone
  BY <1>31 DEF RestoreDone, TypeInv, PCs, Between, ArmPlaces, bench, mcp, verdict, book
<1>32. CASE ServerWorks
  BY <1>32, AgentMovesType DEF ServerWorks, TypeInv, PCs, Between, ArmPlaces, bench, mcp, verdict, book
<1>33. CASE ServerLeaves
  BY <1>33 DEF ServerLeaves, TypeInv, PCs, Between, ArmPlaces, bench, mcp, verdict, book
<1>34. CASE ServerDies
  BY <1>34 DEF ServerDies, Spoil, TypeInv, PCs, Between, ArmPlaces, bench, mcp, verdict, book
<1>35. CASE StrayWorks
  BY <1>35, AgentMovesType DEF StrayWorks, TypeInv, PCs, Between, ArmPlaces, bench, mcp, verdict, book
<1>36. CASE Kill
  BY <1>36 DEF Kill, TypeInv, PCs, Between, ArmPlaces, bench, mcp, verdict, book
<1>37. CASE Restart
  BY <1>37 DEF Restart, TypeInv, PCs, Between, ArmPlaces, bench, mcp, verdict, book
<1>38. CASE UNCHANGED vars
  BY <1>38 DEF vars, TypeInv, Between, bench, mcp, verdict, book
<1>39. QED
  BY <1>1, <1>2, <1>3, <1>4, <1>5, <1>6, <1>7, <1>8, <1>9, <1>10, <1>11, <1>12, <1>13, <1>14, <1>15, <1>16, <1>17, <1>18, <1>19, <1>20, <1>21, <1>22, <1>23, <1>24, <1>25, <1>26, <1>27, <1>28, <1>29, <1>30, <1>31, <1>32, <1>33, <1>34, <1>35, <1>36, <1>37, <1>38 DEF Next, Driver, Server

-----------------------------------------------------------------------------
(* Where the server can be, and what an attempt has done where. *)

(* The server stays inside the arm loop of its attempt. *)
LEMMA ServerNext ==
    ASSUME TypeInv, ServerInv, PhaseInv, [Next]_vars
    PROVE  ServerInv'
<1>1. CASE StartCampaign
  BY <1>1 DEF StartCampaign, Spoil, Tombstone, ServerInv, ArmPlaces, TypeInv, bench, mcp, verdict, book
<1>2. CASE NextAttempt
  BY <1>2 DEF NextAttempt, ServerInv, ArmPlaces, TypeInv, bench, mcp, verdict, book
<1>3. CASE CampaignDone
  BY <1>3 DEF CampaignDone, ServerInv, ArmPlaces, TypeInv, bench, mcp, verdict, book
<1>4. CASE WriteRow
  BY <1>4 DEF WriteRow, ExitWith, ServerInv, ArmPlaces, TypeInv, bench, mcp, verdict, book
<1>5. CASE ResolveAssets
  BY <1>5 DEF ResolveAssets, InfraRow, Spoil, ServerInv, ArmPlaces, TypeInv, bench, mcp, verdict, book
<1>6. CASE Preflight
  BY <1>6 DEF Preflight, InfraRow, Spoil, ServerInv, ArmPlaces, TypeInv, bench, mcp, verdict, book
<1>7. CASE SetupStep
  BY <1>7 DEF SetupStep, StepDone, ServerInv, ArmPlaces, TypeInv, bench, mcp, verdict, book
<1>8. CASE SetupFails
  BY <1>8 DEF SetupFails, AfterBadSetup, StepFails, Spoil, ServerInv, ArmPlaces, TypeInv, bench, mcp, verdict, book
<1>9. CASE SetupDone
  BY <1>9 DEF SetupDone, ServerInv, ArmPlaces, TypeInv, bench, mcp, verdict, book
<1>10. CASE Spawn
  BY <1>10 DEF Spawn, Spoil, ServerInv, ArmPlaces, TypeInv, bench, mcp, verdict, book
<1>11. CASE LoopEnds
  BY <1>11 DEF LoopEnds, MayAsk, LeaveArm, Spoil, ServerInv, ArmPlaces, TypeInv, bench, mcp, verdict, book
<1>12. CASE DeadlinePasses
  BY <1>12 DEF DeadlinePasses, MayAsk, LeaveArm, Spoil, ServerInv, ArmPlaces, TypeInv, bench, mcp, verdict, book
<1>13. CASE ChatFails
  BY <1>13 DEF ChatFails, MayAsk, LeaveArm, Spoil, ServerInv, ArmPlaces, TypeInv, bench, mcp, verdict, book
<1>14. CASE InvalidReply
  BY <1>14 DEF InvalidReply, MayAsk, ServerInv, ArmPlaces, TypeInv, bench, mcp, verdict, book
<1>15. CASE Claims
  BY <1>15 DEF Claims, MayAsk, ServerInv, ArmPlaces, TypeInv, bench, mcp, verdict, book
<1>16. CASE WritesScript
  BY <1>16 DEF WritesScript, MayAsk, ServerInv, ArmPlaces, TypeInv, bench, mcp, verdict, book
<1>17. CASE ScriptEnds
  BY <1>17 DEF ScriptEnds, ServerInv, ArmPlaces, TypeInv, bench, mcp, verdict, book
<1>18. CASE ScriptTimesOut
  BY <1>18 DEF ScriptTimesOut, ServerInv, ArmPlaces, TypeInv, bench, mcp, verdict, book
<1>19. CASE CallsTools
  BY <1>19 DEF CallsTools, MayAsk, ServerInv, ArmPlaces, TypeInv, bench, mcp, verdict, book
<1>20. CASE NextCall
  BY <1>20 DEF NextCall, ServerInv, ArmPlaces, TypeInv, bench, mcp, verdict, book
<1>21. CASE NoMoreCalls
  BY <1>21 DEF NoMoreCalls, ServerInv, ArmPlaces, TypeInv, bench, mcp, verdict, book
<1>22. CASE Answer
  BY <1>22 DEF Answer, ServerInv, ArmPlaces, TypeInv, bench, mcp, verdict, book
<1>23. CASE WireBreaks
  BY <1>23 DEF WireBreaks, Spoil, ServerInv, ArmPlaces, TypeInv, bench, mcp, verdict, book
<1>24. CASE ClosesStdin
  BY <1>24 DEF ClosesStdin, ServerInv, ArmPlaces, TypeInv, bench, mcp, verdict, book
<1>25. CASE Closed
  BY <1>25 DEF Closed, Gone, ServerInv, ArmPlaces, TypeInv, bench, mcp, verdict, book
<1>26. CASE AfterArm
  BY <1>26 DEF AfterArm, Judgeable, ServerInv, ArmPlaces, TypeInv, bench, mcp, verdict, book
<1>27. CASE Check
  BY <1>27 DEF Check, Spoil, AllPassed, ServerInv, ArmPlaces, TypeInv, bench, mcp, verdict, book
<1>28. CASE JudgeDone
  BY <1>28 DEF JudgeDone, ServerInv, ArmPlaces, TypeInv, bench, mcp, verdict, book
<1>29. CASE RestoreStep
  BY <1>29 DEF RestoreStep, StepDone, ServerInv, ArmPlaces, TypeInv, bench, mcp, verdict, book
<1>30. CASE RestoreFails
  BY <1>30 DEF RestoreFails, StepFails, Spoil, ServerInv, ArmPlaces, TypeInv, bench, mcp, verdict, book
<1>31. CASE RestoreDone
  BY <1>31 DEF RestoreDone, ServerInv, ArmPlaces, TypeInv, bench, mcp, verdict, book
<1>32. CASE ServerWorks
  BY <1>32 DEF ServerWorks, ServerInv, ArmPlaces, TypeInv, bench, mcp, verdict, book
<1>33. CASE ServerLeaves
  BY <1>33 DEF ServerLeaves, ServerInv, ArmPlaces, TypeInv, bench, mcp, verdict, book
<1>34. CASE ServerDies
  BY <1>34 DEF ServerDies, Spoil, ServerInv, ArmPlaces, TypeInv, bench, mcp, verdict, book
<1>35. CASE StrayWorks
  BY <1>35 DEF StrayWorks, ServerInv, ArmPlaces, TypeInv, bench, mcp, verdict, book
<1>36. CASE Kill
  BY <1>36 DEF Kill, ServerInv, ArmPlaces, TypeInv, bench, mcp, verdict, book
<1>37. CASE Restart
  BY <1>37 DEF Restart, ServerInv, ArmPlaces, TypeInv, bench, mcp, verdict, book
<1>38. CASE UNCHANGED vars
  BY <1>38 DEF vars, ServerInv, ArmPlaces, TypeInv, bench, mcp, verdict, book
<1>39. QED
  BY <1>1, <1>2, <1>3, <1>4, <1>5, <1>6, <1>7, <1>8, <1>9, <1>10, <1>11, <1>12, <1>13, <1>14, <1>15, <1>16, <1>17, <1>18, <1>19, <1>20, <1>21, <1>22, <1>23, <1>24, <1>25, <1>26, <1>27, <1>28, <1>29, <1>30, <1>31, <1>32, <1>33, <1>34, <1>35, <1>36, <1>37, <1>38 DEF Next, Driver, Server

(* The registers keep to their places. *)
LEMMA PhaseNext ==
    ASSUME TypeInv, ServerInv, PhaseInv, [Next]_vars
    PROVE  PhaseInv'
<1>1. CASE StartCampaign
  BY <1>1 DEF StartCampaign, Spoil, Tombstone, PhaseInv, ServerInv, ArmPlaces, TypeInv, bench, mcp, verdict, book
<1>2. CASE NextAttempt
  BY <1>2 DEF NextAttempt, PhaseInv, ServerInv, ArmPlaces, TypeInv, bench, mcp, verdict, book
<1>3. CASE CampaignDone
  BY <1>3 DEF CampaignDone, PhaseInv, ServerInv, ArmPlaces, TypeInv, bench, mcp, verdict, book
<1>4. CASE WriteRow
  BY <1>4 DEF WriteRow, ExitWith, PhaseInv, ServerInv, ArmPlaces, TypeInv, bench, mcp, verdict, book
<1>5. CASE ResolveAssets
  BY <1>5 DEF ResolveAssets, InfraRow, Spoil, PhaseInv, ServerInv, ArmPlaces, TypeInv, bench, mcp, verdict, book
<1>6. CASE Preflight
  BY <1>6 DEF Preflight, InfraRow, Spoil, PhaseInv, ServerInv, ArmPlaces, TypeInv, bench, mcp, verdict, book
<1>7. CASE SetupStep
  BY <1>7, StepAtHand DEF SetupStep, StepDone, PhaseInv, ServerInv, ArmPlaces, TypeInv, bench, mcp, verdict, book, Steps
<1>8. CASE SetupFails
  BY <1>8, StepAtHand DEF SetupFails, AfterBadSetup, StepFails, Spoil, PhaseInv, ServerInv, ArmPlaces, TypeInv, bench, mcp, verdict, book
<1>9. CASE SetupDone
  BY <1>9 DEF SetupDone, PhaseInv, ServerInv, ArmPlaces, TypeInv, bench, mcp, verdict, book
<1>10. CASE Spawn
  BY <1>10 DEF Spawn, Spoil, PhaseInv, ServerInv, ArmPlaces, TypeInv, bench, mcp, verdict, book
<1>11. CASE LoopEnds
  BY <1>11, OpsAssumption DEF LoopEnds, MayAsk, LeaveArm, Spoil, PhaseInv, ServerInv, ArmPlaces, TypeInv, bench, mcp, verdict, book
<1>12. CASE DeadlinePasses
  BY <1>12 DEF DeadlinePasses, MayAsk, LeaveArm, Spoil, PhaseInv, ServerInv, ArmPlaces, TypeInv, bench, mcp, verdict, book
<1>13. CASE ChatFails
  BY <1>13 DEF ChatFails, MayAsk, LeaveArm, Spoil, PhaseInv, ServerInv, ArmPlaces, TypeInv, bench, mcp, verdict, book
<1>14. CASE InvalidReply
  BY <1>14 DEF InvalidReply, MayAsk, PhaseInv, ServerInv, ArmPlaces, TypeInv, bench, mcp, verdict, book
<1>15. CASE Claims
  BY <1>15 DEF Claims, MayAsk, PhaseInv, ServerInv, ArmPlaces, TypeInv, bench, mcp, verdict, book
<1>16. CASE WritesScript
  BY <1>16 DEF WritesScript, MayAsk, PhaseInv, ServerInv, ArmPlaces, TypeInv, bench, mcp, verdict, book
<1>17. CASE ScriptEnds
  BY <1>17 DEF ScriptEnds, PhaseInv, ServerInv, ArmPlaces, TypeInv, bench, mcp, verdict, book
<1>18. CASE ScriptTimesOut
  BY <1>18 DEF ScriptTimesOut, PhaseInv, ServerInv, ArmPlaces, TypeInv, bench, mcp, verdict, book
<1>19. CASE CallsTools
  BY <1>19 DEF CallsTools, MayAsk, PhaseInv, ServerInv, ArmPlaces, TypeInv, bench, mcp, verdict, book
<1>20. CASE NextCall
  BY <1>20 DEF NextCall, PhaseInv, ServerInv, ArmPlaces, TypeInv, bench, mcp, verdict, book
<1>21. CASE NoMoreCalls
  BY <1>21 DEF NoMoreCalls, PhaseInv, ServerInv, ArmPlaces, TypeInv, bench, mcp, verdict, book
<1>22. CASE Answer
  BY <1>22 DEF Answer, PhaseInv, ServerInv, ArmPlaces, TypeInv, bench, mcp, verdict, book
<1>23. CASE WireBreaks
  BY <1>23 DEF WireBreaks, Spoil, PhaseInv, ServerInv, ArmPlaces, TypeInv, bench, mcp, verdict, book
<1>24. CASE ClosesStdin
  BY <1>24 DEF ClosesStdin, PhaseInv, ServerInv, ArmPlaces, TypeInv, bench, mcp, verdict, book
<1>25. CASE Closed
  BY <1>25 DEF Closed, Gone, PhaseInv, ServerInv, ArmPlaces, TypeInv, bench, mcp, verdict, book
<1>26. CASE AfterArm
  BY <1>26 DEF AfterArm, Judgeable, PhaseInv, ServerInv, ArmPlaces, TypeInv, bench, mcp, verdict, book
<1>27. CASE Check
  BY <1>27 DEF Check, Spoil, AllPassed, PhaseInv, ServerInv, ArmPlaces, TypeInv, bench, mcp, verdict, book
<1>28. CASE JudgeDone
  BY <1>28 DEF JudgeDone, PhaseInv, ServerInv, ArmPlaces, TypeInv, bench, mcp, verdict, book
<1>29. CASE RestoreStep
  BY <1>29, StepAtHand DEF RestoreStep, StepDone, PhaseInv, ServerInv, ArmPlaces, TypeInv, bench, mcp, verdict, book, Steps
<1>30. CASE RestoreFails
  BY <1>30, StepAtHand DEF RestoreFails, StepFails, Spoil, PhaseInv, ServerInv, ArmPlaces, TypeInv, bench, mcp, verdict, book
<1>31. CASE RestoreDone
  BY <1>31 DEF RestoreDone, PhaseInv, ServerInv, ArmPlaces, TypeInv, bench, mcp, verdict, book
<1>32. CASE ServerWorks
  BY <1>32 DEF ServerWorks, PhaseInv, ServerInv, ArmPlaces, TypeInv, bench, mcp, verdict, book
<1>33. CASE ServerLeaves
  BY <1>33 DEF ServerLeaves, PhaseInv, ServerInv, ArmPlaces, TypeInv, bench, mcp, verdict, book
<1>34. CASE ServerDies
  BY <1>34 DEF ServerDies, Spoil, PhaseInv, ServerInv, ArmPlaces, TypeInv, bench, mcp, verdict, book
<1>35. CASE StrayWorks
  BY <1>35 DEF StrayWorks, PhaseInv, ServerInv, ArmPlaces, TypeInv, bench, mcp, verdict, book
<1>36. CASE Kill
  BY <1>36 DEF Kill, PhaseInv, ServerInv, ArmPlaces, TypeInv, bench, mcp, verdict, book
<1>37. CASE Restart
  BY <1>37 DEF Restart, PhaseInv, ServerInv, ArmPlaces, TypeInv, bench, mcp, verdict, book
<1>38. CASE UNCHANGED vars
  BY <1>38 DEF vars, PhaseInv, ServerInv, ArmPlaces, TypeInv, bench, mcp, verdict, book
<1>39. QED
  BY <1>1, <1>2, <1>3, <1>4, <1>5, <1>6, <1>7, <1>8, <1>9, <1>10, <1>11, <1>12, <1>13, <1>14, <1>15, <1>16, <1>17, <1>18, <1>19, <1>20, <1>21, <1>22, <1>23, <1>24, <1>25, <1>26, <1>27, <1>28, <1>29, <1>30, <1>31, <1>32, <1>33, <1>34, <1>35, <1>36, <1>37, <1>38 DEF Next, Driver, Server

-----------------------------------------------------------------------------
(* What the board is known to be.  Between two of its steps the driver has *)
(* the board for itself: no server is there, and no stray by hypothesis.   *)

(* Setup settles the board step by step, and it stays so until the agent.  *)
LEMMA SetupNext ==
    ASSUME TypeInv, ServerInv, PhaseInv, BoardInv, [Next]_vars, stray' = "none"
    PROVE  SetupKnown'
<1>1. CASE StartCampaign
  BY <1>1 DEF StartCampaign, Spoil, Tombstone, SetupKnown, BoardInv, ServerInv, PhaseInv, ArmPlaces, Settled, bench, mcp, verdict, book
<1>2. CASE NextAttempt
  BY <1>2 DEF NextAttempt, SetupKnown, BoardInv, ServerInv, PhaseInv, ArmPlaces, Settled, bench, mcp, verdict, book
<1>3. CASE CampaignDone
  BY <1>3 DEF CampaignDone, SetupKnown, BoardInv, ServerInv, PhaseInv, ArmPlaces, Settled, bench, mcp, verdict, book
<1>4. CASE WriteRow
  BY <1>4 DEF WriteRow, ExitWith, SetupKnown, BoardInv, ServerInv, PhaseInv, ArmPlaces, Settled, bench, mcp, verdict, book
<1>5. CASE ResolveAssets
  BY <1>5 DEF ResolveAssets, InfraRow, Spoil, SetupKnown, BoardInv, ServerInv, PhaseInv, ArmPlaces, Settled, bench, mcp, verdict, book
<1>6. CASE Preflight
  BY <1>6, NoneYet DEF Preflight, InfraRow, Spoil, SetupKnown, BoardInv, ServerInv, PhaseInv, ArmPlaces, Settled, bench, mcp, verdict, book
<1>7. CASE SetupStep
  <2>1. job.task.setup = Steps /\ job' = job /\ k' = k + 1 /\ board' = Applied(board, Steps[k])
    BY <1>7 DEF SetupStep, StepDone, Steps, book
  <2>2. Steps \in Seq(OpsStep) /\ k \in 1..Len(Steps)
    BY <1>7, StepAtHand DEF SetupStep
  <2>3. stray = "none" /\ SettledUpTo(board, Steps, k - 1)
    BY <1>7, <2>1 DEF SetupStep, BoardInv, SetupKnown
  <2>4. SettledUpTo(board', Steps, k)
    BY <2>1, <2>2, <2>3, OneMoreStep DEF TypeInv
  <2>5. k' - 1 = k
    BY <2>1 DEF TypeInv
  <2>6. SettledUpTo(board', job.task.setup, k' - 1) /\ job'.task.setup = job.task.setup
    BY <2>1, <2>4, <2>5
  <2>7. QED
    BY <1>7, <2>1, <2>6 DEF SetupStep, SetupKnown
<1>8. CASE SetupFails
  BY <1>8 DEF SetupFails, AfterBadSetup, StepFails, Spoil, SetupKnown, BoardInv, ServerInv, PhaseInv, ArmPlaces, Settled, bench, mcp, verdict, book
<1>9. CASE SetupDone
  <2>1. Steps = job.task.setup /\ job' = job /\ board' = board /\ stray = "none" /\ pc = "setup"
    BY <1>9 DEF SetupDone, Steps, book, bench
  <2>2. SettledUpTo(board, job.task.setup, k - 1)
    BY <2>1 DEF BoardInv, SetupKnown
  <2>3. k - 1 = Len(job.task.setup)
    <3>1. Len(job.task.setup) \in Nat /\ k \in Nat
      BY <2>1, TaskAtHand DEF TypeInv, Between
    <3>2. k > Len(job.task.setup) /\ k <= Len(job.task.setup) + 1
      BY <1>9, <2>1 DEF SetupDone, PhaseInv
    <3>3. QED
      BY <3>1, <3>2
  <2>4. SettledUpTo(board', job'.task.setup, Len(job'.task.setup))
    BY <2>1, <2>2, <2>3
  <2>5. QED
    BY <1>9, <2>4 DEF SetupDone, SetupKnown, Settled
<1>10. CASE Spawn
  BY <1>10 DEF Spawn, Spoil, SetupKnown, BoardInv, ServerInv, PhaseInv, ArmPlaces, Settled, bench, mcp, verdict, book
<1>11. CASE LoopEnds
  BY <1>11 DEF LoopEnds, MayAsk, LeaveArm, Spoil, SetupKnown, BoardInv, ServerInv, PhaseInv, ArmPlaces, Settled, bench, mcp, verdict, book
<1>12. CASE DeadlinePasses
  BY <1>12 DEF DeadlinePasses, MayAsk, LeaveArm, Spoil, SetupKnown, BoardInv, ServerInv, PhaseInv, ArmPlaces, Settled, bench, mcp, verdict, book
<1>13. CASE ChatFails
  BY <1>13 DEF ChatFails, MayAsk, LeaveArm, Spoil, SetupKnown, BoardInv, ServerInv, PhaseInv, ArmPlaces, Settled, bench, mcp, verdict, book
<1>14. CASE InvalidReply
  <2>1. iteration' # 0 /\ pc' = "ask"
    BY <1>14 DEF InvalidReply, MayAsk, TypeInv
  <2>2. QED
    BY <2>1 DEF SetupKnown
<1>15. CASE Claims
  <2>1. iteration' # 0 /\ pc' = "ask"
    BY <1>15 DEF Claims, MayAsk, TypeInv
  <2>2. QED
    BY <2>1 DEF SetupKnown
<1>16. CASE WritesScript
  BY <1>16 DEF WritesScript, MayAsk, SetupKnown, BoardInv, ServerInv, PhaseInv, ArmPlaces, Settled, bench, mcp, verdict, book
<1>17. CASE ScriptEnds
  BY <1>17 DEF ScriptEnds, SetupKnown, BoardInv, ServerInv, PhaseInv, ArmPlaces, Settled, bench, mcp, verdict, book
<1>18. CASE ScriptTimesOut
  BY <1>18 DEF ScriptTimesOut, SetupKnown, BoardInv, ServerInv, PhaseInv, ArmPlaces, Settled, bench, mcp, verdict, book
<1>19. CASE CallsTools
  BY <1>19 DEF CallsTools, MayAsk, SetupKnown, BoardInv, ServerInv, PhaseInv, ArmPlaces, Settled, bench, mcp, verdict, book
<1>20. CASE NextCall
  BY <1>20 DEF NextCall, SetupKnown, BoardInv, ServerInv, PhaseInv, ArmPlaces, Settled, bench, mcp, verdict, book
<1>21. CASE NoMoreCalls
  BY <1>21 DEF NoMoreCalls, SetupKnown, BoardInv, ServerInv, PhaseInv, ArmPlaces, Settled, bench, mcp, verdict, book
<1>22. CASE Answer
  BY <1>22 DEF Answer, SetupKnown, BoardInv, ServerInv, PhaseInv, ArmPlaces, Settled, bench, mcp, verdict, book
<1>23. CASE WireBreaks
  BY <1>23 DEF WireBreaks, Spoil, SetupKnown, BoardInv, ServerInv, PhaseInv, ArmPlaces, Settled, bench, mcp, verdict, book
<1>24. CASE ClosesStdin
  BY <1>24 DEF ClosesStdin, SetupKnown, BoardInv, ServerInv, PhaseInv, ArmPlaces, Settled, bench, mcp, verdict, book
<1>25. CASE Closed
  BY <1>25 DEF Closed, Gone, SetupKnown, BoardInv, ServerInv, PhaseInv, ArmPlaces, Settled, bench, mcp, verdict, book
<1>26. CASE AfterArm
  BY <1>26 DEF AfterArm, Judgeable, SetupKnown, BoardInv, ServerInv, PhaseInv, ArmPlaces, Settled, bench, mcp, verdict, book
<1>27. CASE Check
  BY <1>27 DEF Check, Spoil, AllPassed, SetupKnown, BoardInv, ServerInv, PhaseInv, ArmPlaces, Settled, bench, mcp, verdict, book
<1>28. CASE JudgeDone
  BY <1>28 DEF JudgeDone, SetupKnown, BoardInv, ServerInv, PhaseInv, ArmPlaces, Settled, bench, mcp, verdict, book
<1>29. CASE RestoreStep
  BY <1>29 DEF RestoreStep, StepDone, SetupKnown, BoardInv, ServerInv, PhaseInv, ArmPlaces, Settled, bench, mcp, verdict, book
<1>30. CASE RestoreFails
  BY <1>30 DEF RestoreFails, StepFails, Spoil, SetupKnown, BoardInv, ServerInv, PhaseInv, ArmPlaces, Settled, bench, mcp, verdict, book
<1>31. CASE RestoreDone
  BY <1>31 DEF RestoreDone, SetupKnown, BoardInv, ServerInv, PhaseInv, ArmPlaces, Settled, bench, mcp, verdict, book
<1>32. CASE ServerWorks
  BY <1>32 DEF ServerWorks, SetupKnown, BoardInv, ServerInv, PhaseInv, ArmPlaces, Settled, bench, mcp, verdict, book
<1>33. CASE ServerLeaves
  BY <1>33 DEF ServerLeaves, SetupKnown, BoardInv, ServerInv, PhaseInv, ArmPlaces, Settled, bench, mcp, verdict, book
<1>34. CASE ServerDies
  BY <1>34 DEF ServerDies, Spoil, SetupKnown, BoardInv, ServerInv, PhaseInv, ArmPlaces, Settled, bench, mcp, verdict, book
<1>35. CASE StrayWorks
  BY <1>35 DEF StrayWorks, SetupKnown, BoardInv, ServerInv, PhaseInv, ArmPlaces, Settled, bench, mcp, verdict, book
<1>36. CASE Kill
  BY <1>36 DEF Kill, SetupKnown, BoardInv, ServerInv, PhaseInv, ArmPlaces, Settled, bench, mcp, verdict, book
<1>37. CASE Restart
  BY <1>37 DEF Restart, SetupKnown, BoardInv, ServerInv, PhaseInv, ArmPlaces, Settled, bench, mcp, verdict, book
<1>38. CASE UNCHANGED vars
  BY <1>38 DEF vars, SetupKnown, BoardInv, ServerInv, PhaseInv, ArmPlaces, Settled, bench, mcp, verdict, book
<1>39. QED
  BY <1>1, <1>2, <1>3, <1>4, <1>5, <1>6, <1>7, <1>8, <1>9, <1>10, <1>11, <1>12, <1>13, <1>14, <1>15, <1>16, <1>17, <1>18, <1>19, <1>20, <1>21, <1>22, <1>23, <1>24, <1>25, <1>26, <1>27, <1>28, <1>29, <1>30, <1>31, <1>32, <1>33, <1>34, <1>35, <1>36, <1>37, <1>38 DEF Next, Driver, Server

(* So does a restore that fails nowhere.  *)
LEMMA RestoreNext ==
    ASSUME TypeInv, ServerInv, PhaseInv, BoardInv, [Next]_vars, stray' = "none"
    PROVE  RestoreKnown'
<1>1. CASE StartCampaign
  BY <1>1 DEF StartCampaign, Spoil, Tombstone, RestoreKnown, BoardInv, ServerInv, PhaseInv, ArmPlaces, Settled, bench, mcp, verdict, book
<1>2. CASE NextAttempt
  BY <1>2 DEF NextAttempt, RestoreKnown, BoardInv, ServerInv, PhaseInv, ArmPlaces, Settled, bench, mcp, verdict, book
<1>3. CASE CampaignDone
  BY <1>3 DEF CampaignDone, RestoreKnown, BoardInv, ServerInv, PhaseInv, ArmPlaces, Settled, bench, mcp, verdict, book
<1>4. CASE WriteRow
  BY <1>4 DEF WriteRow, ExitWith, RestoreKnown, BoardInv, ServerInv, PhaseInv, ArmPlaces, Settled, bench, mcp, verdict, book
<1>5. CASE ResolveAssets
  BY <1>5 DEF ResolveAssets, InfraRow, Spoil, RestoreKnown, BoardInv, ServerInv, PhaseInv, ArmPlaces, Settled, bench, mcp, verdict, book
<1>6. CASE Preflight
  BY <1>6 DEF Preflight, InfraRow, Spoil, RestoreKnown, BoardInv, ServerInv, PhaseInv, ArmPlaces, Settled, bench, mcp, verdict, book
<1>7. CASE SetupStep
  BY <1>7 DEF SetupStep, StepDone, RestoreKnown, BoardInv, ServerInv, PhaseInv, ArmPlaces, Settled, bench, mcp, verdict, book
<1>8. CASE SetupFails
  BY <1>8, NoneYet DEF SetupFails, AfterBadSetup, StepFails, Spoil, RestoreKnown, BoardInv, ServerInv, PhaseInv, ArmPlaces, Settled, bench, mcp, verdict, book
<1>9. CASE SetupDone
  BY <1>9 DEF SetupDone, RestoreKnown, BoardInv, ServerInv, PhaseInv, ArmPlaces, Settled, bench, mcp, verdict, book
<1>10. CASE Spawn
  BY <1>10 DEF Spawn, Spoil, RestoreKnown, BoardInv, ServerInv, PhaseInv, ArmPlaces, Settled, bench, mcp, verdict, book
<1>11. CASE LoopEnds
  BY <1>11 DEF LoopEnds, MayAsk, LeaveArm, Spoil, RestoreKnown, BoardInv, ServerInv, PhaseInv, ArmPlaces, Settled, bench, mcp, verdict, book
<1>12. CASE DeadlinePasses
  BY <1>12 DEF DeadlinePasses, MayAsk, LeaveArm, Spoil, RestoreKnown, BoardInv, ServerInv, PhaseInv, ArmPlaces, Settled, bench, mcp, verdict, book
<1>13. CASE ChatFails
  BY <1>13 DEF ChatFails, MayAsk, LeaveArm, Spoil, RestoreKnown, BoardInv, ServerInv, PhaseInv, ArmPlaces, Settled, bench, mcp, verdict, book
<1>14. CASE InvalidReply
  BY <1>14 DEF InvalidReply, MayAsk, RestoreKnown, BoardInv, ServerInv, PhaseInv, ArmPlaces, Settled, bench, mcp, verdict, book
<1>15. CASE Claims
  BY <1>15 DEF Claims, MayAsk, RestoreKnown, BoardInv, ServerInv, PhaseInv, ArmPlaces, Settled, bench, mcp, verdict, book
<1>16. CASE WritesScript
  BY <1>16 DEF WritesScript, MayAsk, RestoreKnown, BoardInv, ServerInv, PhaseInv, ArmPlaces, Settled, bench, mcp, verdict, book
<1>17. CASE ScriptEnds
  BY <1>17 DEF ScriptEnds, RestoreKnown, BoardInv, ServerInv, PhaseInv, ArmPlaces, Settled, bench, mcp, verdict, book
<1>18. CASE ScriptTimesOut
  BY <1>18 DEF ScriptTimesOut, RestoreKnown, BoardInv, ServerInv, PhaseInv, ArmPlaces, Settled, bench, mcp, verdict, book
<1>19. CASE CallsTools
  BY <1>19 DEF CallsTools, MayAsk, RestoreKnown, BoardInv, ServerInv, PhaseInv, ArmPlaces, Settled, bench, mcp, verdict, book
<1>20. CASE NextCall
  BY <1>20 DEF NextCall, RestoreKnown, BoardInv, ServerInv, PhaseInv, ArmPlaces, Settled, bench, mcp, verdict, book
<1>21. CASE NoMoreCalls
  BY <1>21 DEF NoMoreCalls, RestoreKnown, BoardInv, ServerInv, PhaseInv, ArmPlaces, Settled, bench, mcp, verdict, book
<1>22. CASE Answer
  BY <1>22 DEF Answer, RestoreKnown, BoardInv, ServerInv, PhaseInv, ArmPlaces, Settled, bench, mcp, verdict, book
<1>23. CASE WireBreaks
  BY <1>23 DEF WireBreaks, Spoil, RestoreKnown, BoardInv, ServerInv, PhaseInv, ArmPlaces, Settled, bench, mcp, verdict, book
<1>24. CASE ClosesStdin
  BY <1>24 DEF ClosesStdin, RestoreKnown, BoardInv, ServerInv, PhaseInv, ArmPlaces, Settled, bench, mcp, verdict, book
<1>25. CASE Closed
  BY <1>25 DEF Closed, Gone, RestoreKnown, BoardInv, ServerInv, PhaseInv, ArmPlaces, Settled, bench, mcp, verdict, book
<1>26. CASE AfterArm
  BY <1>26, NoneYet DEF AfterArm, Judgeable, RestoreKnown, BoardInv, ServerInv, PhaseInv, ArmPlaces, Settled, bench, mcp, verdict, book
<1>27. CASE Check
  BY <1>27 DEF Check, Spoil, AllPassed, RestoreKnown, BoardInv, ServerInv, PhaseInv, ArmPlaces, Settled, bench, mcp, verdict, book
<1>28. CASE JudgeDone
  BY <1>28, NoneYet DEF JudgeDone, RestoreKnown, BoardInv, ServerInv, PhaseInv, ArmPlaces, Settled, bench, mcp, verdict, book
<1>29. CASE RestoreStep
  <2>1. job.task.restore = Steps /\ job' = job /\ k' = k + 1 /\ board' = Applied(board, Steps[k])
    BY <1>29 DEF RestoreStep, StepDone, Steps, book
  <2>2. Steps \in Seq(OpsStep) /\ k \in 1..Len(Steps)
    BY <1>29, StepAtHand DEF RestoreStep
  <2>3. stray = "none" /\ SettledUpTo(board, Steps, k - 1)
    BY <1>29, <2>1 DEF RestoreStep, BoardInv, RestoreKnown
  <2>4. SettledUpTo(board', Steps, k)
    BY <2>1, <2>2, <2>3, OneMoreStep DEF TypeInv
  <2>5. k' - 1 = k
    BY <2>1 DEF TypeInv
  <2>6. SettledUpTo(board', job.task.restore, k' - 1) /\ job'.task.restore = job.task.restore
    BY <2>1, <2>4, <2>5
  <2>7. QED
    BY <1>29, <2>1, <2>6 DEF RestoreStep, RestoreKnown
<1>30. CASE RestoreFails
  BY <1>30 DEF RestoreFails, StepFails, Spoil, RestoreKnown, BoardInv, ServerInv, PhaseInv, ArmPlaces, Settled, bench, mcp, verdict, book
<1>31. CASE RestoreDone
  <2>1. Steps = job.task.restore /\ job' = job /\ board' = board /\ stray = "none" /\ pc = "restore"
    BY <1>31 DEF RestoreDone, Steps, book, bench
  <2>2. SettledUpTo(board, job.task.restore, k - 1)
    BY <2>1 DEF BoardInv, RestoreKnown
  <2>3. k - 1 = Len(job.task.restore)
    <3>1. Len(job.task.restore) \in Nat /\ k \in Nat
      BY <2>1, TaskAtHand DEF TypeInv, Between
    <3>2. k > Len(job.task.restore) /\ k <= Len(job.task.restore) + 1
      BY <1>31, <2>1 DEF RestoreDone, PhaseInv
    <3>3. QED
      BY <3>1, <3>2
  <2>4. SettledUpTo(board', job'.task.restore, Len(job'.task.restore))
    BY <2>1, <2>2, <2>3
  <2>5. QED
    BY <1>31, <2>4 DEF RestoreDone, RestoreKnown, Settled
<1>32. CASE ServerWorks
  BY <1>32 DEF ServerWorks, RestoreKnown, BoardInv, ServerInv, PhaseInv, ArmPlaces, Settled, bench, mcp, verdict, book
<1>33. CASE ServerLeaves
  BY <1>33 DEF ServerLeaves, RestoreKnown, BoardInv, ServerInv, PhaseInv, ArmPlaces, Settled, bench, mcp, verdict, book
<1>34. CASE ServerDies
  BY <1>34 DEF ServerDies, Spoil, RestoreKnown, BoardInv, ServerInv, PhaseInv, ArmPlaces, Settled, bench, mcp, verdict, book
<1>35. CASE StrayWorks
  BY <1>35 DEF StrayWorks, RestoreKnown, BoardInv, ServerInv, PhaseInv, ArmPlaces, Settled, bench, mcp, verdict, book
<1>36. CASE Kill
  BY <1>36 DEF Kill, RestoreKnown, BoardInv, ServerInv, PhaseInv, ArmPlaces, Settled, bench, mcp, verdict, book
<1>37. CASE Restart
  BY <1>37 DEF Restart, RestoreKnown, BoardInv, ServerInv, PhaseInv, ArmPlaces, Settled, bench, mcp, verdict, book
<1>38. CASE UNCHANGED vars
  BY <1>38 DEF vars, RestoreKnown, BoardInv, ServerInv, PhaseInv, ArmPlaces, Settled, bench, mcp, verdict, book
<1>39. QED
  BY <1>1, <1>2, <1>3, <1>4, <1>5, <1>6, <1>7, <1>8, <1>9, <1>10, <1>11, <1>12, <1>13, <1>14, <1>15, <1>16, <1>17, <1>18, <1>19, <1>20, <1>21, <1>22, <1>23, <1>24, <1>25, <1>26, <1>27, <1>28, <1>29, <1>30, <1>31, <1>32, <1>33, <1>34, <1>35, <1>36, <1>37, <1>38 DEF Next, Driver, Server

(* The checks look at one board: a pass is a pass of all of them.  *)
LEMMA JudgeNext ==
    ASSUME TypeInv, ServerInv, PhaseInv, BoardInv, [Next]_vars, stray' = "none"
    PROVE  JudgeKnown'
<1>1. CASE StartCampaign
  BY <1>1 DEF StartCampaign, Spoil, Tombstone, JudgeKnown, Holds, BoardInv, ServerInv, PhaseInv, ArmPlaces, Settled, bench, mcp, verdict, book
<1>2. CASE NextAttempt
  BY <1>2 DEF NextAttempt, JudgeKnown, Holds, BoardInv, ServerInv, PhaseInv, ArmPlaces, Settled, bench, mcp, verdict, book
<1>3. CASE CampaignDone
  BY <1>3 DEF CampaignDone, JudgeKnown, Holds, BoardInv, ServerInv, PhaseInv, ArmPlaces, Settled, bench, mcp, verdict, book
<1>4. CASE WriteRow
  BY <1>4 DEF WriteRow, ExitWith, JudgeKnown, Holds, BoardInv, ServerInv, PhaseInv, ArmPlaces, Settled, bench, mcp, verdict, book
<1>5. CASE ResolveAssets
  BY <1>5 DEF ResolveAssets, InfraRow, Spoil, JudgeKnown, Holds, BoardInv, ServerInv, PhaseInv, ArmPlaces, Settled, bench, mcp, verdict, book
<1>6. CASE Preflight
  BY <1>6 DEF Preflight, InfraRow, Spoil, JudgeKnown, Holds, BoardInv, ServerInv, PhaseInv, ArmPlaces, Settled, bench, mcp, verdict, book
<1>7. CASE SetupStep
  BY <1>7 DEF SetupStep, StepDone, JudgeKnown, Holds, BoardInv, ServerInv, PhaseInv, ArmPlaces, Settled, bench, mcp, verdict, book
<1>8. CASE SetupFails
  BY <1>8 DEF SetupFails, AfterBadSetup, StepFails, Spoil, JudgeKnown, Holds, BoardInv, ServerInv, PhaseInv, ArmPlaces, Settled, bench, mcp, verdict, book
<1>9. CASE SetupDone
  BY <1>9 DEF SetupDone, JudgeKnown, Holds, BoardInv, ServerInv, PhaseInv, ArmPlaces, Settled, bench, mcp, verdict, book
<1>10. CASE Spawn
  BY <1>10 DEF Spawn, Spoil, JudgeKnown, Holds, BoardInv, ServerInv, PhaseInv, ArmPlaces, Settled, bench, mcp, verdict, book
<1>11. CASE LoopEnds
  BY <1>11 DEF LoopEnds, MayAsk, LeaveArm, Spoil, JudgeKnown, Holds, BoardInv, ServerInv, PhaseInv, ArmPlaces, Settled, bench, mcp, verdict, book
<1>12. CASE DeadlinePasses
  BY <1>12 DEF DeadlinePasses, MayAsk, LeaveArm, Spoil, JudgeKnown, Holds, BoardInv, ServerInv, PhaseInv, ArmPlaces, Settled, bench, mcp, verdict, book
<1>13. CASE ChatFails
  BY <1>13 DEF ChatFails, MayAsk, LeaveArm, Spoil, JudgeKnown, Holds, BoardInv, ServerInv, PhaseInv, ArmPlaces, Settled, bench, mcp, verdict, book
<1>14. CASE InvalidReply
  BY <1>14 DEF InvalidReply, MayAsk, JudgeKnown, Holds, BoardInv, ServerInv, PhaseInv, ArmPlaces, Settled, bench, mcp, verdict, book
<1>15. CASE Claims
  BY <1>15 DEF Claims, MayAsk, JudgeKnown, Holds, BoardInv, ServerInv, PhaseInv, ArmPlaces, Settled, bench, mcp, verdict, book
<1>16. CASE WritesScript
  BY <1>16 DEF WritesScript, MayAsk, JudgeKnown, Holds, BoardInv, ServerInv, PhaseInv, ArmPlaces, Settled, bench, mcp, verdict, book
<1>17. CASE ScriptEnds
  BY <1>17 DEF ScriptEnds, JudgeKnown, Holds, BoardInv, ServerInv, PhaseInv, ArmPlaces, Settled, bench, mcp, verdict, book
<1>18. CASE ScriptTimesOut
  BY <1>18 DEF ScriptTimesOut, JudgeKnown, Holds, BoardInv, ServerInv, PhaseInv, ArmPlaces, Settled, bench, mcp, verdict, book
<1>19. CASE CallsTools
  BY <1>19 DEF CallsTools, MayAsk, JudgeKnown, Holds, BoardInv, ServerInv, PhaseInv, ArmPlaces, Settled, bench, mcp, verdict, book
<1>20. CASE NextCall
  BY <1>20 DEF NextCall, JudgeKnown, Holds, BoardInv, ServerInv, PhaseInv, ArmPlaces, Settled, bench, mcp, verdict, book
<1>21. CASE NoMoreCalls
  BY <1>21 DEF NoMoreCalls, JudgeKnown, Holds, BoardInv, ServerInv, PhaseInv, ArmPlaces, Settled, bench, mcp, verdict, book
<1>22. CASE Answer
  BY <1>22 DEF Answer, JudgeKnown, Holds, BoardInv, ServerInv, PhaseInv, ArmPlaces, Settled, bench, mcp, verdict, book
<1>23. CASE WireBreaks
  BY <1>23 DEF WireBreaks, Spoil, JudgeKnown, Holds, BoardInv, ServerInv, PhaseInv, ArmPlaces, Settled, bench, mcp, verdict, book
<1>24. CASE ClosesStdin
  BY <1>24 DEF ClosesStdin, JudgeKnown, Holds, BoardInv, ServerInv, PhaseInv, ArmPlaces, Settled, bench, mcp, verdict, book
<1>25. CASE Closed
  BY <1>25 DEF Closed, Gone, JudgeKnown, Holds, BoardInv, ServerInv, PhaseInv, ArmPlaces, Settled, bench, mcp, verdict, book
<1>26. CASE AfterArm
  <2>1. pc' = "judge" => k' = 1
    BY <1>26 DEF AfterArm, PhaseInv
  <2>2. pc' = "restore" => judged' = "no"
    BY <1>26 DEF AfterArm
  <2>3. QED
    BY <2>1, <2>2 DEF JudgeKnown
<1>27. CASE Check
  <2>1. job' = job /\ board' = board /\ k' = k + 1 /\ pc = "judge" /\ pc' = "judge" /\ stray = "none"
    BY <1>27 DEF Check, book
  <2>2. judged' = "passed" => judged = "passed" /\ Holds(job.task.judge[k])
    BY <1>27 DEF Check, AllPassed
  <2>3. k \in Nat
    BY DEF TypeInv
  <2>4. SUFFICES ASSUME judged' = "passed", NEW i \in 1..(k'-1)
                 PROVE  Holds(job.task.judge[i])'
    BY <2>1 DEF JudgeKnown
  <2>5. i \in 1..(k-1) \/ i = k
    BY <2>1, <2>3
  <2>6. Holds(job.task.judge[i])
    BY <2>1, <2>2, <2>4, <2>5 DEF BoardInv, JudgeKnown
  <2>7. QED
    BY <2>1, <2>6 DEF Holds
<1>28. CASE JudgeDone
  <2>1. job' = job /\ board' = board /\ judged' = judged /\ pc = "judge" /\ pc' = "restore" /\ stray = "none"
    BY <1>28 DEF JudgeDone, book, bench, verdict
  <2>2. SUFFICES ASSUME judged = "passed", NEW i \in DOMAIN job.task.judge
                 PROVE  Holds(job.task.judge[i])'
    BY <2>1 DEF JudgeKnown
  <2>3. i \in 1..(k-1)
    <3>1. Len(job.task.judge) \in Nat /\ i \in 1..Len(job.task.judge)
      BY <2>1, TaskAtHand DEF Between
    <3>2. k \in Nat /\ k > Len(job.task.judge)
      BY <1>28 DEF JudgeDone, TypeInv
    <3>3. QED
      BY <3>1, <3>2
  <2>4. Holds(job.task.judge[i])
    BY <2>1, <2>2, <2>3 DEF BoardInv, JudgeKnown
  <2>5. QED
    BY <2>1, <2>4 DEF Holds
<1>29. CASE RestoreStep
  <2>1. pc' = "restore" /\ k' # 1
    BY <1>29 DEF RestoreStep, TypeInv
  <2>2. QED
    BY <2>1 DEF JudgeKnown
<1>30. CASE RestoreFails
  BY <1>30 DEF RestoreFails, StepFails, Spoil, JudgeKnown, Holds, BoardInv, ServerInv, PhaseInv, ArmPlaces, Settled, bench, mcp, verdict, book
<1>31. CASE RestoreDone
  BY <1>31 DEF RestoreDone, JudgeKnown, Holds, BoardInv, ServerInv, PhaseInv, ArmPlaces, Settled, bench, mcp, verdict, book
<1>32. CASE ServerWorks
  BY <1>32 DEF ServerWorks, JudgeKnown, Holds, BoardInv, ServerInv, PhaseInv, ArmPlaces, Settled, bench, mcp, verdict, book
<1>33. CASE ServerLeaves
  BY <1>33 DEF ServerLeaves, JudgeKnown, Holds, BoardInv, ServerInv, PhaseInv, ArmPlaces, Settled, bench, mcp, verdict, book
<1>34. CASE ServerDies
  BY <1>34 DEF ServerDies, Spoil, JudgeKnown, Holds, BoardInv, ServerInv, PhaseInv, ArmPlaces, Settled, bench, mcp, verdict, book
<1>35. CASE StrayWorks
  BY <1>35 DEF StrayWorks, JudgeKnown, Holds, BoardInv, ServerInv, PhaseInv, ArmPlaces, Settled, bench, mcp, verdict, book
<1>36. CASE Kill
  BY <1>36 DEF Kill, JudgeKnown, Holds, BoardInv, ServerInv, PhaseInv, ArmPlaces, Settled, bench, mcp, verdict, book
<1>37. CASE Restart
  BY <1>37 DEF Restart, JudgeKnown, Holds, BoardInv, ServerInv, PhaseInv, ArmPlaces, Settled, bench, mcp, verdict, book
<1>38. CASE UNCHANGED vars
  BY <1>38 DEF vars, JudgeKnown, Holds, BoardInv, ServerInv, PhaseInv, ArmPlaces, Settled, bench, mcp, verdict, book
<1>39. QED
  BY <1>1, <1>2, <1>3, <1>4, <1>5, <1>6, <1>7, <1>8, <1>9, <1>10, <1>11, <1>12, <1>13, <1>14, <1>15, <1>16, <1>17, <1>18, <1>19, <1>20, <1>21, <1>22, <1>23, <1>24, <1>25, <1>26, <1>27, <1>28, <1>29, <1>30, <1>31, <1>32, <1>33, <1>34, <1>35, <1>36, <1>37, <1>38 DEF Next, Driver, Server

-----------------------------------------------------------------------------
(* The campaign's book.  Inside an attempt nobody writes it. *)

Inside ==
    \/ ResolveAssets \/ Preflight \/ SetupStep \/ SetupFails \/ SetupDone \/ Spawn
    \/ LoopEnds \/ DeadlinePasses \/ ChatFails \/ InvalidReply \/ Claims \/ WritesScript
    \/ ScriptEnds \/ ScriptTimesOut \/ CallsTools \/ NextCall \/ NoMoreCalls \/ Answer
    \/ WireBreaks \/ ClosesStdin \/ Closed \/ AfterArm \/ Check \/ JudgeDone
    \/ RestoreStep \/ RestoreFails \/ RestoreDone \/ ServerWorks \/ ServerLeaves \/ ServerDies
    \/ StrayWorks

(* A step inside an attempt, or one of a server or a stray, leaves the book *)
(* alone and neither begins nor ends an attempt.                            *)
LEMMA BookIsShut ==
    ASSUME Inside
    PROVE  /\ UNCHANGED <<campaign, count, file, rc>>
           /\ pc' = pc \/ (pc \notin Between /\ pc' \notin Between)
<1>1. CASE ResolveAssets
  BY <1>1 DEF ResolveAssets, InfraRow, Spoil, Between, book
<1>2. CASE Preflight
  BY <1>2 DEF Preflight, InfraRow, Spoil, Between, book
<1>3. CASE SetupStep
  BY <1>3 DEF SetupStep, StepDone, Between, book
<1>4. CASE SetupFails
  BY <1>4 DEF SetupFails, AfterBadSetup, StepFails, Spoil, Between, book
<1>5. CASE SetupDone
  BY <1>5 DEF SetupDone, Between, book
<1>6. CASE Spawn
  BY <1>6 DEF Spawn, Spoil, Between, book
<1>7. CASE LoopEnds
  BY <1>7 DEF LoopEnds, MayAsk, LeaveArm, Spoil, Between, book
<1>8. CASE DeadlinePasses
  BY <1>8 DEF DeadlinePasses, MayAsk, LeaveArm, Spoil, Between, book
<1>9. CASE ChatFails
  BY <1>9 DEF ChatFails, MayAsk, LeaveArm, Spoil, Between, book
<1>10. CASE InvalidReply
  BY <1>10 DEF InvalidReply, MayAsk, Between, book
<1>11. CASE Claims
  BY <1>11 DEF Claims, MayAsk, Between, book
<1>12. CASE WritesScript
  BY <1>12 DEF WritesScript, MayAsk, Between, book
<1>13. CASE ScriptEnds
  BY <1>13 DEF ScriptEnds, Between, book
<1>14. CASE ScriptTimesOut
  BY <1>14 DEF ScriptTimesOut, Between, book
<1>15. CASE CallsTools
  BY <1>15 DEF CallsTools, MayAsk, Between, book
<1>16. CASE NextCall
  BY <1>16 DEF NextCall, Between, book
<1>17. CASE NoMoreCalls
  BY <1>17 DEF NoMoreCalls, Between, book
<1>18. CASE Answer
  BY <1>18 DEF Answer, Between, book
<1>19. CASE WireBreaks
  BY <1>19 DEF WireBreaks, Spoil, Between, book
<1>20. CASE ClosesStdin
  BY <1>20 DEF ClosesStdin, Between, book
<1>21. CASE Closed
  BY <1>21 DEF Closed, Gone, Between, book
<1>22. CASE AfterArm
  BY <1>22 DEF AfterArm, Judgeable, Between, book
<1>23. CASE Check
  BY <1>23 DEF Check, Spoil, AllPassed, Between, book
<1>24. CASE JudgeDone
  BY <1>24 DEF JudgeDone, Between, book
<1>25. CASE RestoreStep
  BY <1>25 DEF RestoreStep, StepDone, Between, book
<1>26. CASE RestoreFails
  BY <1>26 DEF RestoreFails, StepFails, Spoil, Between, book
<1>27. CASE RestoreDone
  BY <1>27 DEF RestoreDone, Between, book
<1>28. CASE ServerWorks
  BY <1>28 DEF ServerWorks, Between, book
<1>29. CASE ServerLeaves
  BY <1>29 DEF ServerLeaves, Between, book
<1>30. CASE ServerDies
  BY <1>30 DEF ServerDies, Spoil, Between, book
<1>31. CASE StrayWorks
  BY <1>31 DEF StrayWorks, Between, book
<1>32. QED
  BY <1>1, <1>2, <1>3, <1>4, <1>5, <1>6, <1>7, <1>8, <1>9, <1>10, <1>11, <1>12, <1>13, <1>14, <1>15, <1>16, <1>17, <1>18, <1>19, <1>20, <1>21, <1>22, <1>23, <1>24, <1>25, <1>26, <1>27, <1>28, <1>29, <1>30, <1>31 DEF Inside

LEMMA NextIsInsideOrNot ==
    ASSUME [Next]_vars
    PROVE  \/ Inside \/ UNCHANGED vars
           \/ StartCampaign \/ NextAttempt \/ CampaignDone \/ WriteRow \/ Kill \/ Restart
BY DEF Next, Driver, Server, Inside

(* What the file is with one row more. *)
LEMMA OneMoreRow ==
    ASSUME TypeInv, PhaseInv, WriteRow
    PROVE  /\ file'.owner = file.owner
           /\ Len(file'.rows) = Len(file.rows) + 1
           /\ DOMAIN file'.rows = DOMAIN file.rows \cup {Len(file.rows) + 1}
           /\ \A n \in DOMAIN file.rows : file'.rows[n] = file.rows[n] /\ n # Len(file.rows) + 1
           /\ file'.rows[Len(file.rows) + 1] = Row
           /\ Row \in Rows /\ Len(file.rows) \in Nat
<1>1. file.rows \in Seq(Rows) /\ file \in [owner : Nat, rows : Seq(Rows)]
  BY DEF TypeInv
<1>2. Row \in Rows
  BY RowIsSound DEF WriteRow
<1>3. file'.rows = Append(file.rows, Row) /\ file'.owner = file.owner
  BY <1>1 DEF WriteRow
<1>4. Len(file.rows) \in Nat /\ DOMAIN file.rows = 1..Len(file.rows)
  BY <1>1
<1>5. Len(file'.rows) = Len(file.rows) + 1 /\ DOMAIN file'.rows = 1..(Len(file.rows) + 1)
  BY <1>1, <1>2, <1>3
<1>6. \A n \in DOMAIN file.rows : file'.rows[n] = file.rows[n] /\ n # Len(file.rows) + 1
  BY <1>1, <1>2, <1>3
<1>7. file'.rows[Len(file.rows) + 1] = Row
  BY <1>1, <1>2, <1>3
<1>8. 1..(Len(file.rows) + 1) = 1..Len(file.rows) \cup {Len(file.rows) + 1}
  BY <1>4
<1>9. QED
  BY <1>2, <1>3, <1>4, <1>5, <1>6, <1>7, <1>8

(* Every row that counts is a judged one. *)
LEMMA CountedNext ==
    ASSUME TypeInv, PhaseInv, CountedOnlyIfJudged, [Next]_vars
    PROVE  CountedOnlyIfJudged'
<1>1. CASE file' = file
  BY <1>1 DEF CountedOnlyIfJudged
<1>2. CASE StartCampaign /\ file' = Tombstone(campaign)
  BY <1>2 DEF Tombstone, CountedOnlyIfJudged
<1>3. CASE WriteRow
  <2>1. Row.kind = "none" => Row.judged
    BY <1>3, RowIsSound DEF WriteRow
  <2>2. QED
    BY <1>3, <2>1, OneMoreRow DEF CountedOnlyIfJudged
<1>4. QED
  BY <1>1, <1>2, <1>3, NextIsInsideOrNot, BookIsShut
     DEF StartCampaign, NextAttempt, CampaignDone, Kill, Restart, vars, book

(* The rows are the attempts of the campaign that owns the file. *)
LEMMA BookNext ==
    ASSUME TypeInv, PhaseInv, BookInv, [Next]_vars
    PROVE  BookInv'
<1>1. CASE Inside
  BY <1>1, BookIsShut DEF BookInv, Between
<1>2. CASE UNCHANGED vars
  BY <1>2 DEF vars, book, BookInv, Between
<1>3. CASE StartCampaign
  <2>1. UNCHANGED <<campaign, count, rc>> /\ pc = "start"
    BY <1>3 DEF StartCampaign
  <2>2. CASE pc' = "next" /\ file' = Tombstone(campaign)
    <3>1. file'.owner = campaign /\ file'.rows = <<>>
      BY <2>2 DEF Tombstone
    <3>2. Len(file'.rows) = 0 /\ DOMAIN file'.rows = {}
      BY <3>1
    <3>3. QED
      BY <2>1, <2>2, <3>1, <3>2 DEF BookInv, Between
  <2>3. CASE pc' = "dead"
    BY <2>3 DEF BookInv, Between
  <2>4. QED
    BY <1>3, <2>2, <2>3 DEF StartCampaign
<1>4. CASE NextAttempt
  <2>1. UNCHANGED <<campaign, file, rc>> /\ pc = "next" /\ pc' = "assets" /\ count' = count + 1
    BY <1>4 DEF NextAttempt
  <2>2. count \in Nat
    BY DEF TypeInv
  <2>3. count' > 0 /\ count' - 1 = count
    BY <2>1, <2>2
  <2>4. QED
    BY <2>1, <2>3 DEF BookInv, Between
<1>5. CASE CampaignDone
  BY <1>5 DEF CampaignDone, BookInv, Between, book
<1>6. CASE WriteRow
  <2>1. UNCHANGED <<campaign, count>> /\ pc = "row" /\ pc' = "next" /\ rc' = ExitWith(Row)
    BY <1>6 DEF WriteRow
  <2>2. /\ file.owner = campaign /\ Len(file.rows) = count - 1
        /\ \A n \in DOMAIN file.rows : file.rows[n].of = campaign /\ file.rows[n].n = n
        /\ rc = 0 <=> \A n \in DOMAIN file.rows : file.rows[n].solved
    BY <2>1 DEF BookInv
  <2>3. Len(file.rows) + 1 = count
    BY <2>2 DEF TypeInv
  <2>4. Row.of = campaign /\ Row.n = count
    BY DEF Row, CrashRow
  <2>5. file'.owner = campaign /\ Len(file'.rows) = count
    BY <1>6, <2>2, <2>3, OneMoreRow
  <2>6. \A n \in DOMAIN file'.rows : file'.rows[n].of = campaign /\ file'.rows[n].n = n
    BY <1>6, <2>2, <2>3, <2>4, OneMoreRow
  <2>7. (\A n \in DOMAIN file'.rows : file'.rows[n].solved)
          <=> (\A n \in DOMAIN file.rows : file.rows[n].solved) /\ Row.solved
    BY <1>6, OneMoreRow
  <2>8. rc' = 0 <=> \A n \in DOMAIN file'.rows : file'.rows[n].solved
    BY <2>1, <2>2, <2>7 DEF ExitWith
  <2>9. QED
    BY <2>1, <2>5, <2>6, <2>8 DEF BookInv, Between
<1>7. CASE Kill
  BY <1>7 DEF Kill, BookInv, Between
<1>8. CASE Restart
  BY <1>8 DEF Restart, BookInv, Between
<1>9. QED
  BY <1>1, <1>2, <1>3, <1>4, <1>5, <1>6, <1>7, <1>8, NextIsInsideOrNot

-----------------------------------------------------------------------------
(* The theorems. *)

LEMMA OpsInit ==
    ASSUME Init
    PROVE  OpsInv
<1>1. board \in Boards
  BY DEF Init, Healthy, Boards, Files
<1>2. file \in [owner : Nat, rows : Seq(Rows)] /\ DOMAIN file.rows = {}
  BY DEF Init
<1>3. TypeInv
  BY <1>1, <1>2 DEF Init, TypeInv, PCs, Between
<1>4. ServerInv /\ PhaseInv
  BY DEF Init, ServerInv, PhaseInv
<1>5. BoardInv
  BY DEF Init, BoardInv, SetupKnown, RestoreKnown, JudgeKnown
<1>6. CountedOnlyIfJudged /\ BookInv
  BY <1>2 DEF Init, CountedOnlyIfJudged, BookInv, Between
<1>7. QED
  BY <1>3, <1>4, <1>5, <1>6 DEF OpsInv

LEMMA OpsNext ==
    ASSUME OpsInv, [Next]_vars
    PROVE  OpsInv'
<1>1. TypeInv /\ ServerInv /\ PhaseInv /\ BoardInv /\ CountedOnlyIfJudged /\ BookInv
  BY DEF OpsInv
<1>2. TypeInv' /\ ServerInv' /\ PhaseInv'
  BY <1>1, TypeNext, ServerNext, PhaseNext
<1>3. BoardInv'
  BY <1>1, SetupNext, RestoreNext, JudgeNext DEF BoardInv
<1>4. CountedOnlyIfJudged' /\ BookInv'
  BY <1>1, CountedNext, BookNext
<1>5. QED
  BY <1>2, <1>3, <1>4 DEF OpsInv

(* Types, the places of server and call, what each phase of an attempt has *)
(* done, and what is known of the board hold in every state.               *)
THEOREM OpsTypes == Spec => []OpsInv
<1>1. Init => OpsInv
  BY OpsInit
<1>2. OpsInv /\ [Next]_vars => OpsInv'
  BY OpsNext
<1>3. QED
  BY <1>1, <1>2, PTL DEF Spec

(* _run_step by _run_step: whatever earlier attempts, killed campaigns or  *)
(* failed steps left on the board, an agent that is asked for the first    *)
(* time finds what its task's setup describes.                             *)
THEOREM AgentStartsSeeded == Spec => []SeededStart
<1>1. OpsInv => SeededStart
  BY DEF OpsInv, BoardInv, SetupKnown, SeededStart
<1>2. QED
  BY <1>1, OpsTypes, PTL

(* A restore recorded as done is done, while no stray script is on the     *)
(* board: no call of the agent's MCP server undoes it behind               *)
(* run_ops_attempt.                                                        *)
THEOREM RestoreIsTrue == Spec => []RestoredTruth
<1>1. OpsInv => RestoredTruth
  BY DEF OpsInv, BoardInv, RestoreKnown, RestoredTruth
<1>2. QED
  BY <1>1, OpsTypes, PTL

(* A pass of OpsJudge.run holds of the board as a whole, and a row of kind *)
(* "none" is of an attempt the judge has seen.                             *)
THEOREM VerdictsHold == Spec => []VerdictsAreTrue
<1>1. OpsInv => VerdictsAreTrue
  BY DEF OpsInv, BoardInv, JudgeKnown, VerdictsAreTrue, SolvedIsSolved
<1>2. QED
  BY <1>1, OpsTypes, PTL

(* rows.jsonl is the account of the campaign that owns it, row by row, and *)
(* the exit code is the sum of the rows.                                   *)
THEOREM CampaignIsAccounted == Spec => []CampaignAccount
<1>1. OpsInv => CampaignAccount
  BY DEF OpsInv, BookInv, CampaignAccount, RowPerAttempt, ExitCodeTruth
<1>2. QED
  BY <1>1, OpsTypes, PTL
=============================================================================
