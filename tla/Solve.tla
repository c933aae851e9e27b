------------------------------- MODULE Solve -------------------------------
(***************************************************************************)
(* A solve campaign (cli.py, agent_solve_results; agent.py, solve and      *)
(* solve_attempt): a language model writes main.py, the runner runs and    *)
(* judges it, the output goes back to the model, for a bounded number of   *)
(* iterations per attempt and a bounded number of attempts.  The results   *)
(* file is replaced by a tombstone before the first attempt and by the     *)
(* rows after the last; the report (report.py) may read it at any moment.  *)
(* The campaign may be killed anywhere and another one started.            *)
(***************************************************************************)
EXTENDS Naturals, Sequences

CONSTANTS
    MaxAttempts,    \* the largest --attempts
    MaxIterations,  \* cfg.max_iterations
    LlmTries,       \* calls of the endpoint before an attempt gives up
    Renames,        \* tries of a rename a reader may block
    Campaigns       \* bound: campaigns on the task

ASSUME SolveAssumption ==
    /\ {MaxAttempts, MaxIterations, LlmTries, Renames, Campaigns} \subseteq Nat \ {0}

VARIABLES
    pc,
    campaign,
    attempts,   \* --attempts of this campaign
    n,          \* the attempt at hand
    iterations,
    tries,      \* calls of the endpoint left, or renames left
    runKind,    \* error_kind of the last run, "never" before the first
    ending,     \* why the loop stopped: "no", "solved", "infra", "llm"
    results,    \* AttemptResults of this campaign
    file,       \* results.jsonl: the campaign that wrote it and its rows
    journal,    \* attempt_result events, with their campaign
    dirs        \* attempt-N directories: the campaign whose files they hold

attempt == <<n, iterations, tries, runKind, ending>>
disk == <<file, journal, dirs>>
vars == <<pc, campaign, attempts, attempt, results, disk>>

Kinds == {"none", "run", "timeout", "infra"}

(* No campaign runs: none was begun, one has ended, or died before its     *)
(* tombstone ("dead") or after it ("torn").                                *)
Stopped == {"idle", "done", "dead", "torn"}

Fresh ==
    /\ n' = 1 /\ iterations' = 0 /\ tries' = LlmTries
    /\ runKind' = "never" /\ ending' = "no"

Init ==
    /\ pc = "idle" /\ campaign = 0 /\ attempts = 1
    /\ n = 1 /\ iterations = 0 /\ tries = LlmTries /\ runKind = "never" /\ ending = "no"
    /\ results = <<>> /\ journal = {}
    /\ file = [owner |-> 0, rows |-> <<>>]
    /\ dirs = [a \in 1..MaxAttempts |-> 0]

-----------------------------------------------------------------------------
(* Before the attempts: the directories of older campaigns go.  A removal  *)
(* that fails is ignored by the code and left out here.                    *)

Cleaned == [a \in 1..MaxAttempts |-> 0]

Begin ==
    /\ pc \in Stopped /\ campaign < Campaigns
    /\ campaign' = campaign + 1
    /\ attempts' \in 1..MaxAttempts
    /\ dirs' = Cleaned
    /\ pc' = "tombstone" /\ tries' = Renames
    /\ n' = 1 /\ iterations' = 0 /\ runKind' = "never" /\ ending' = "no"
    /\ results' = <<>>
    /\ UNCHANGED <<file, journal>>

Dying == IF pc = "tombstone" THEN "dead" ELSE "torn"

TriesLeft == tries - 1

(* os.replace under a reader's open handle: refused, and tried again until *)
(* the tries are used up; then the error ends the campaign.                *)
RenameRefused ==
    /\ pc \in {"tombstone", "replace"}
    /\ IF TriesLeft = 0
       THEN pc' = Dying /\ tries' = LlmTries
       ELSE pc' = pc /\ tries' = TriesLeft
    /\ UNCHANGED <<campaign, attempts, n, iterations, runKind, ending, results, disk>>

SkipTombstone == file' = file      \* a slip: the old results stay until the new ones come
Bury == file' = [owner |-> campaign, rows |-> <<>>]

Tombstone ==
    /\ pc = "tombstone"
    /\ Bury
    /\ pc' = "ask"
    /\ Fresh
    /\ UNCHANGED <<campaign, attempts, results, journal, dirs>>

-----------------------------------------------------------------------------
(* One attempt: ask, run, look. *)

(* The directory is made (with a clean work task) by the first ask. *)
OwnDir == [dirs EXCEPT ![n] = campaign]

Asking == pc = "ask" /\ iterations < MaxIterations /\ ending = "no"

ReplyWithCode ==
    /\ Asking
    /\ iterations' = iterations + 1 /\ tries' = LlmTries
    /\ dirs' = OwnDir
    /\ pc' = "run"
    /\ UNCHANGED <<campaign, attempts, n, runKind, ending, results, file, journal>>

(* No python block in the reply: the iteration is spent, nothing is run.   *)
ReplyWithoutCode ==
    /\ Asking
    /\ iterations' = iterations + 1 /\ tries' = LlmTries
    /\ dirs' = OwnDir
    /\ UNCHANGED <<pc, campaign, attempts, n, runKind, ending, results, file, journal>>

BlamesTheModel == ending' = "run"     \* a slip: not told apart from a run's verdict
GivesUp == ending' = "llm"

LlmFails ==
    /\ Asking
    /\ dirs' = OwnDir
    /\ IF tries > 1
       THEN tries' = tries - 1 /\ UNCHANGED <<iterations, ending>>
       ELSE tries' = LlmTries /\ iterations' = iterations + 1 /\ GivesUp
    /\ UNCHANGED <<pc, campaign, attempts, n, runKind, results, file, journal>>

(* 400, 401, 403, 404 from the endpoint, or an exception of the runner:    *)
(* nothing between here and main() handles it.                             *)
Aborts ==
    /\ Asking \/ pc = "run"
    /\ pc' = "torn" /\ Fresh
    /\ results' = <<>>
    /\ dirs' = OwnDir
    /\ UNCHANGED <<campaign, attempts, file, journal>>

RunPasses ==
    /\ pc = "run"
    /\ runKind' = "none" /\ ending' = "solved"
    /\ pc' = "ask"
    /\ UNCHANGED <<campaign, attempts, n, iterations, tries, results, disk>>

RunFails ==
    /\ pc = "run"
    /\ runKind' \in Kinds
    /\ ending' = IF runKind' = "infra" THEN "infra" ELSE "no"
    /\ pc' = "ask"
    /\ UNCHANGED <<campaign, attempts, n, iterations, tries, results, disk>>

ErrorKind ==
    IF ending = "solved" THEN "none"
    ELSE IF ending = "llm" THEN "infra"
    ELSE IF runKind # "never" THEN runKind ELSE "run"

Result == [of |-> campaign, attempt |-> n, kind |-> ErrorKind,
           solved |-> (ending = "solved"), iterations |-> iterations]

AttemptEnds ==
    /\ pc = "ask" /\ (ending # "no" \/ iterations = MaxIterations)
    /\ results' = Append(results, Result)
    /\ n' = n + 1
    /\ pc' = IF n = attempts THEN "journal" ELSE "ask"
    /\ iterations' = 0 /\ tries' = LlmTries /\ runKind' = "never" /\ ending' = "no"
    /\ UNCHANGED <<campaign, attempts, disk>>

-----------------------------------------------------------------------------
(* After the attempts: solve() journals every result, then the file is     *)
(* replaced.                                                               *)

NoJournal == pc = "journal" /\ pc' = "replace" /\ tries' = Renames   \* a slip
    /\ UNCHANGED <<campaign, attempts, n, iterations, runKind, ending, results, disk>>

Journals ==
    /\ pc = "journal"
    /\ journal' = journal \cup {results[i] : i \in DOMAIN results}
    /\ pc' = "replace" /\ tries' = Renames
    /\ UNCHANGED <<campaign, attempts, n, iterations, runKind, ending, results, file, dirs>>

Replaces ==
    /\ pc = "replace"
    /\ file' = [owner |-> campaign, rows |-> results]
    /\ pc' = "done"
    /\ Fresh
    /\ UNCHANGED <<campaign, attempts, results, journal, dirs>>

(* What has been written to a temporary file is not in results.jsonl.      *)
Kill ==
    /\ pc \notin Stopped
    /\ campaign < Campaigns
    /\ pc' = Dying /\ Fresh
    /\ results' = <<>>
    /\ UNCHANGED <<campaign, attempts, disk>>

Work ==
    \/ RenameRefused \/ Tombstone \/ ReplyWithCode \/ ReplyWithoutCode \/ LlmFails
    \/ Aborts \/ RunPasses \/ RunFails \/ AttemptEnds \/ Journals \/ Replaces

Next == Begin \/ Work \/ Kill

Spec == Init /\ [][Next]_vars

-----------------------------------------------------------------------------
(* The report (load_results, aggregate), over what the file holds now: the *)
(* attempts that count are the effective ones.                             *)
Records == file.rows
Effective == {i \in DOMAIN Records : Records[i].kind # "infra" \/ Records[i].solved}

-----------------------------------------------------------------------------
(* Properties. *)

TypeOK ==
    /\ campaign \in 0..Campaigns /\ attempts \in 1..MaxAttempts
    /\ n \in 1..(MaxAttempts + 1) /\ iterations \in 0..MaxIterations
    /\ runKind \in Kinds \cup {"never"} /\ ending \in {"no", "solved", "infra", "llm"}
    /\ dirs \in [1..MaxAttempts -> 0..Campaigns]

(* "A torn campaign is visible as no rows, never as someone else's old     *)
(* numbers": from its first attempt on, whatever kills a campaign and      *)
(* whoever blocks its renames, the report shows rows of it or none.        *)
NoStaleRows ==
    pc \notin {"idle", "tombstone", "dead"} =>
        /\ file.owner = campaign
        /\ \A i \in DOMAIN file.rows : file.rows[i].of = campaign

(* An attempt that counts in the model's success rate was solved or has    *)
(* used all its iterations (a reply without code uses one and runs         *)
(* nothing): what the environment cut short does not count.                *)
CountsOnlyFullTries ==
    \A i \in Effective :
        Records[i].solved \/ Records[i].iterations = MaxIterations

(* "the journal still has every attempt_result" when the rename is refused *)
(* to the end - and whenever results.jsonl has them.                       *)
JournalHasResults ==
    /\ pc = "replace" => \A i \in DOMAIN results : results[i] \in journal
    /\ \A i \in DOMAIN file.rows : file.rows[i] \in journal

(* "a shorter re-run must not leave a longer run's files behind": when a   *)
(* campaign ends, every attempt directory is its own.                      *)
ArtifactsAreOwn ==
    pc = "done" => \A a \in 1..MaxAttempts :
        dirs[a] = IF a <= attempts THEN campaign ELSE 0

(* Nothing of an older campaign passes for this one's: rows, or files. *)
NothingStale == NoStaleRows /\ ArtifactsAreOwn
=============================================================================
