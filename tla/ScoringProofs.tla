----------------------------- MODULE ScoringProofs -----------------------------
(***************************************************************************)
(* Proofs about what is counted and what is scored: first the solve        *)
(* campaign, for every number of attempts, iterations, calls of the        *)
(* endpoint and campaigns; then one run on a live board or on Renode, for  *)
(* every stimulus, every main.py and every delay and loss of the line.     *)
(***************************************************************************)
EXTENDS Solve, ReplRun, SequenceTheorems, FiniteSetTheorems, WellFoundedInduction, TLAPS

(***************************************************************************)
(* The inductive invariant.  What the file says at the end was true of     *)
(* every result when it was made, so the rows are sequences over the good  *)
(* results of one campaign; and the directories follow the attempt at hand.*)
(***************************************************************************)

Stages == Stopped \cup {"tombstone", "ask", "run", "journal", "replace"}
Rows ==
    [of : Nat, attempt : Nat, kind : Kinds, solved : BOOLEAN, iterations : Nat]

\* A result that may count: solved, or all its iterations used, or an infra row.
Good(c) ==
    {r \in Rows : r.of = c /\ (r.kind = "infra" \/ r.solved \/ r.iterations = MaxIterations)}

Typed ==
    /\ pc \in Stages
    /\ campaign \in Nat /\ attempts \in 1..MaxAttempts
    /\ n \in Nat \ {0} /\ iterations \in 0..MaxIterations
    /\ runKind \in Kinds \cup {"never"} /\ ending \in {"no", "solved", "infra", "llm"}
    /\ dirs \in [1..MaxAttempts -> Nat]

Endings == ending = "infra" => runKind = "infra"

RowsAreGood ==
    /\ results \in Seq(Good(campaign))
    /\ file.rows \in Seq(Good(file.owner))

FileIsOwn == pc \notin {"idle", "tombstone", "dead"} => file.owner = campaign

DirsFollow ==
    /\ pc = "tombstone" => \A a \in 1..MaxAttempts : dirs[a] = 0
    /\ pc \in {"ask", "run"} =>
          /\ n <= attempts
          /\ \A a \in 1..MaxAttempts :
                /\ a < n => dirs[a] = campaign
                /\ a > n => dirs[a] = 0
          /\ iterations > 0 \/ ending # "no" => dirs[n] = campaign
    /\ pc = "run" => iterations > 0
    /\ pc \in {"journal", "replace", "done"} =>
          \A a \in 1..MaxAttempts : dirs[a] = IF a <= attempts THEN campaign ELSE 0

Inv == Typed /\ Endings /\ RowsAreGood /\ FileIsOwn /\ DirsFollow /\ JournalHasResults

(***************************************************************************)
(* Lemmas.                                                                 *)
(***************************************************************************)

\* The result of an attempt that ends is a good one: an attempt ends unsolved only
\* with its iterations used up, or on infra.
LEMMA ResultIsGood ==
    ASSUME Typed, Endings, AttemptEnds
    PROVE  Result \in Good(campaign)
<1>. USE SolveAssumption
<1>1. iterations \in Nat
  BY DEF Typed
<1>2. ErrorKind \in Kinds
  <2>1. CASE ending = "solved"
    BY <2>1 DEF ErrorKind, Kinds
  <2>2. CASE ending = "llm"
    BY <2>2 DEF ErrorKind, Kinds
  <2>3. CASE ending \notin {"solved", "llm"} /\ runKind # "never"
    BY <2>3 DEF Typed, ErrorKind
  <2>4. CASE ending \notin {"solved", "llm"} /\ runKind = "never"
    BY <2>4 DEF ErrorKind, Kinds
  <2>. QED BY <2>1, <2>2, <2>3, <2>4
<1>3. (ending = "solved") \in BOOLEAN
  OBVIOUS
<1>4. Result \in Rows
  BY <1>1, <1>2, <1>3 DEF Typed, Result, Rows
<1>5. ErrorKind = "infra" \/ ending = "solved" \/ iterations = MaxIterations
  <2>1. CASE ending = "infra"
    BY <2>1 DEF Endings, ErrorKind
  <2>2. CASE ending = "llm"
    BY <2>2 DEF ErrorKind
  <2>3. CASE ending = "no"
    BY <2>3 DEF AttemptEnds
  <2>. QED BY <2>1, <2>2, <2>3 DEF Typed
<1>. QED BY <1>4, <1>5 DEF Good, Result

\* The empty sequence is one over any set.
LEMMA EmptyIsSeq ==
    ASSUME NEW S
    PROVE  <<>> \in Seq(S)
OBVIOUS

\* The directory of the attempt at hand becomes the campaign's.
LEMMA OwnDirFacts ==
    ASSUME Typed
    PROVE  /\ OwnDir \in [1..MaxAttempts -> Nat]
           /\ \A a \in 1..MaxAttempts : OwnDir[a] = IF a = n THEN campaign ELSE dirs[a]
<1>1. dirs \in [1..MaxAttempts -> Nat] /\ campaign \in Nat
  BY DEF Typed
<1>. QED BY <1>1, Zenon DEF OwnDir

\* Every step keeps the variables in their sets.
LEMMA TypedStep ==
    ASSUME Inv, [Next]_vars
    PROVE  Typed'
<1>. USE SolveAssumption
<1>1. MaxIterations \in Nat \ {0} /\ MaxAttempts \in Nat \ {0}
  OBVIOUS
<1>2. OwnDir \in [1..MaxAttempts -> Nat]
  BY OwnDirFacts DEF Inv
<1>. USE <1>1 DEF Inv, Typed, Stages, Stopped, Kinds
<1>a. CASE Begin
  BY <1>a DEF Begin, Cleaned
<1>b. CASE RenameRefused
  BY <1>b DEF RenameRefused, Dying, disk
<1>c. CASE Tombstone
  BY <1>c DEF Tombstone, Fresh
<1>d. CASE ReplyWithCode \/ ReplyWithoutCode
  BY <1>d, <1>2, SMTT(40) DEF ReplyWithCode, ReplyWithoutCode, Asking
<1>e. CASE LlmFails
  BY <1>e, <1>2 DEF LlmFails, GivesUp, Asking
<1>f. CASE Aborts
  BY <1>f, <1>2 DEF Aborts, Fresh
<1>g. CASE RunPasses \/ RunFails
  BY <1>g DEF RunPasses, RunFails, disk
<1>h. CASE AttemptEnds
  BY <1>h DEF AttemptEnds, disk
<1>i. CASE Journals
  BY <1>i DEF Journals
<1>j. CASE Replaces
  BY <1>j DEF Replaces, Fresh
<1>k. CASE Kill
  BY <1>k DEF Kill, Fresh, Dying, disk
<1>l. CASE UNCHANGED vars
  BY <1>l DEF vars, attempt, disk
<1>. QED BY <1>a, <1>b, <1>c, <1>d, <1>e, <1>f, <1>g, <1>h, <1>i, <1>j, <1>k, <1>l
     DEF Next, Work

\* An attempt that stopped on infra has an infra run as its last one.
LEMMA EndingsStep ==
    ASSUME Inv, [Next]_vars
    PROVE  Endings'
<1>. USE DEF Inv, Endings
<1>a. CASE Begin
  BY <1>a DEF Begin
<1>b. CASE RenameRefused \/ Journals
  BY <1>b DEF RenameRefused, Journals
<1>c. CASE Tombstone \/ Aborts \/ Replaces \/ Kill
  BY <1>c DEF Tombstone, Aborts, Replaces, Kill, Fresh
<1>d. CASE ReplyWithCode \/ ReplyWithoutCode
  BY <1>d DEF ReplyWithCode, ReplyWithoutCode
<1>e. CASE LlmFails
  BY <1>e DEF LlmFails, GivesUp
<1>f. CASE RunPasses \/ RunFails
  BY <1>f DEF RunPasses, RunFails
<1>g. CASE AttemptEnds
  BY <1>g DEF AttemptEnds
<1>h. CASE UNCHANGED vars
  BY <1>h DEF vars, attempt
<1>. QED BY <1>a, <1>b, <1>c, <1>d, <1>e, <1>f, <1>g, <1>h DEF Next, Work

\* The rows are good: they are results, and every result is added good.
LEMMA RowsStep ==
    ASSUME Inv, [Next]_vars
    PROVE  RowsAreGood'
<1>. USE DEF Inv, RowsAreGood
<1>a. CASE Begin
  BY <1>a, EmptyIsSeq DEF Begin
<1>b. CASE RenameRefused
  BY <1>b DEF RenameRefused, disk
<1>c. CASE Tombstone
  BY <1>c, EmptyIsSeq DEF Tombstone, Bury
<1>d. CASE ReplyWithCode \/ ReplyWithoutCode \/ LlmFails
  BY <1>d DEF ReplyWithCode, ReplyWithoutCode, LlmFails
<1>e. CASE Aborts \/ Kill
  BY <1>e, EmptyIsSeq DEF Aborts, Kill, disk
<1>f. CASE RunPasses \/ RunFails
  BY <1>f DEF RunPasses, RunFails, disk
<1>g. CASE AttemptEnds
  <2>1. Result \in Good(campaign)
    BY <1>g, ResultIsGood
  <2>2. results \in Seq(Good(campaign))
    OBVIOUS
  <2>3. Append(results, Result) \in Seq(Good(campaign))
    BY <2>1, <2>2, AppendProperties
  <2>. QED BY <1>g, <2>3 DEF AttemptEnds, disk
<1>h. CASE Journals
  BY <1>h DEF Journals
<1>i. CASE Replaces
  BY <1>i DEF Replaces
<1>j. CASE UNCHANGED vars
  BY <1>j DEF vars, disk
<1>. QED BY <1>a, <1>b, <1>c, <1>d, <1>e, <1>f, <1>g, <1>h, <1>i, <1>j DEF Next, Work

\* From its tombstone on the file is the campaign's.
LEMMA FileStep ==
    ASSUME Inv, [Next]_vars
    PROVE  FileIsOwn'
<1>. USE DEF Inv, FileIsOwn
<1>a. CASE Begin
  BY <1>a DEF Begin
<1>b. CASE RenameRefused \/ Kill
  BY <1>b DEF RenameRefused, Kill, Dying, disk, Stopped
<1>c. CASE Tombstone \/ Replaces
  BY <1>c DEF Tombstone, Bury, Replaces
<1>d. CASE ReplyWithCode \/ ReplyWithoutCode \/ LlmFails
  BY <1>d DEF ReplyWithCode, ReplyWithoutCode, LlmFails, Asking
<1>e. CASE Aborts
  BY <1>e DEF Aborts, Asking
<1>f. CASE RunPasses \/ RunFails \/ AttemptEnds \/ Journals
  BY <1>f DEF RunPasses, RunFails, AttemptEnds, Journals, disk
<1>g. CASE UNCHANGED vars
  BY <1>g DEF vars, disk
<1>. QED BY <1>a, <1>b, <1>c, <1>d, <1>e, <1>f, <1>g DEF Next, Work

\* The journal has the results before the file has them.
LEMMA JournalStep ==
    ASSUME Inv, [Next]_vars
    PROVE  JournalHasResults'
<1>. USE DEF Inv, JournalHasResults
<1>a. CASE Begin
  BY <1>a DEF Begin
<1>b. CASE RenameRefused
  BY <1>b DEF RenameRefused, Dying, disk
<1>c. CASE Tombstone
  BY <1>c DEF Tombstone, Bury
<1>d. CASE ReplyWithCode \/ ReplyWithoutCode \/ LlmFails
  BY <1>d DEF ReplyWithCode, ReplyWithoutCode, LlmFails, Asking
<1>e. CASE Aborts \/ Kill
  BY <1>e DEF Aborts, Kill, Dying, disk
<1>f. CASE RunPasses \/ RunFails
  BY <1>f DEF RunPasses, RunFails, disk
<1>g. CASE AttemptEnds
  BY <1>g DEF AttemptEnds, disk
<1>h. CASE Journals
  BY <1>h DEF Journals
<1>i. CASE Replaces
  BY <1>i DEF Replaces
<1>j. CASE UNCHANGED vars
  BY <1>j DEF vars, disk
<1>. QED BY <1>a, <1>b, <1>c, <1>d, <1>e, <1>f, <1>g, <1>h, <1>i, <1>j DEF Next, Work

\* The directories of the attempts so far are the campaign's, those of the attempts
\* to come are empty.
LEMMA DirsStep ==
    ASSUME Inv, [Next]_vars
    PROVE  DirsFollow'
<1>. USE SolveAssumption
<1>1. MaxIterations \in Nat \ {0} /\ MaxAttempts \in Nat \ {0}
  OBVIOUS
<1>2. \A a \in 1..MaxAttempts : OwnDir[a] = IF a = n THEN campaign ELSE dirs[a]
  BY OwnDirFacts DEF Inv
<1>. USE <1>1 DEF Inv, Typed, DirsFollow
<1>a. CASE Begin
  BY <1>a DEF Begin, Cleaned
<1>b. CASE RenameRefused
  BY <1>b DEF RenameRefused, Dying, disk
<1>c. CASE Tombstone
  BY <1>c DEF Tombstone, Fresh
<1>d. CASE ReplyWithCode \/ ReplyWithoutCode
  BY <1>d, <1>2 DEF ReplyWithCode, ReplyWithoutCode, Asking
<1>e. CASE LlmFails
  BY <1>e, <1>2 DEF LlmFails, GivesUp, Asking
<1>f. CASE Aborts
  BY <1>f DEF Aborts
<1>g. CASE RunPasses \/ RunFails
  BY <1>g DEF RunPasses, RunFails, disk
<1>h. CASE AttemptEnds
  BY <1>h DEF AttemptEnds, disk
<1>i. CASE Journals
  BY <1>i DEF Journals
<1>j. CASE Replaces
  BY <1>j DEF Replaces
<1>k. CASE Kill
  BY <1>k DEF Kill, Dying
<1>l. CASE UNCHANGED vars
  BY <1>l DEF vars, attempt, disk
<1>. QED BY <1>a, <1>b, <1>c, <1>d, <1>e, <1>f, <1>g, <1>h, <1>i, <1>j, <1>k, <1>l
     DEF Next, Work

(***************************************************************************)
(* The theorems.                                                           *)
(***************************************************************************)

\* The inductive invariant holds of every campaign (agent_solve_results).
THEOREM Invariance == Spec => []Inv
<1>1. Init => Inv
  <2>. SUFFICES ASSUME Init PROVE Inv
    OBVIOUS
  <2>. USE SolveAssumption DEF Init
  <2>1. Typed /\ Endings
    BY DEF Typed, Endings, Stages, Stopped, Kinds
  <2>2. RowsAreGood
    BY EmptyIsSeq DEF RowsAreGood
  <2>3. FileIsOwn /\ DirsFollow /\ JournalHasResults
    BY DEF FileIsOwn, DirsFollow, JournalHasResults
  <2>. QED BY <2>1, <2>2, <2>3 DEF Inv
<1>2. Inv /\ [Next]_vars => Inv'
  BY TypedStep, EndingsStep, RowsStep, FileStep, JournalStep, DirsStep DEF Inv
<1>. QED BY <1>1, <1>2, PTL DEF Spec

\* Whatever kills a campaign and whoever blocks its renames, from the tombstone on
\* the results file shows rows of this campaign or none, and at its end every
\* attempt directory is its own (cli.py, the tombstone and clean_stale_attempts).
THEOREM NothingStaleHolds == Spec => []NothingStale
<1>1. Inv => NothingStale
  <2>. SUFFICES ASSUME Inv PROVE NothingStale
    OBVIOUS
  <2>1. ASSUME NEW x \in DOMAIN file.rows PROVE file.rows[x].of = file.owner
    <3>1. file.rows[x] \in Good(file.owner)
      BY <2>1 DEF Inv, RowsAreGood
    <3>. QED BY <3>1 DEF Good
  <2>2. NoStaleRows
    BY <2>1 DEF Inv, FileIsOwn, NoStaleRows
  <2>3. ArtifactsAreOwn
    BY DEF Inv, DirsFollow, ArtifactsAreOwn
  <2>. QED BY <2>2, <2>3 DEF NothingStale
<1>. QED BY <1>1, Invariance, PTL

\* An attempt the report counts was solved or has used every one of its
\* iterations, those that ran nothing because the reply had no code included
\* (report.py, the effective attempts; agent.py, the error kind).
THEOREM CountsOnlyFullTriesHolds == Spec => []CountsOnlyFullTries
<1>1. Inv => CountsOnlyFullTries
  <2>. SUFFICES ASSUME Inv, NEW x \in Effective
                PROVE  Records[x].solved \/ Records[x].iterations = MaxIterations
    BY DEF CountsOnlyFullTries
  <2>1. x \in DOMAIN file.rows /\ (file.rows[x].kind # "infra" \/ file.rows[x].solved)
    BY DEF Effective, Records
  <2>2. file.rows[x] \in Good(file.owner)
    BY <2>1 DEF Inv, RowsAreGood
  <2>. QED BY <2>1, <2>2 DEF Good, Records
<1>. QED BY <1>1, Invariance, PTL

\* The journal has every attempt_result before results.jsonl may show it
\* (agent.py, solve; cli.py, the rename at the end).
THEOREM JournalHasResultsHolds == Spec => []JournalHasResults
<1>1. Inv => JournalHasResults
  BY DEF Inv
<1>. QED BY <1>1, Invariance, PTL

(***************************************************************************)
(* A run on the live board or on Renode.                                   *)
(***************************************************************************)

(***************************************************************************)
(* What the board has said and the host has kept: one stream of tokens,    *)
(* whatever of it has been ingested, has arrived, or is under way.         *)
(***************************************************************************)
Literal == Words \cup HexDigits \cup Expect
Token == [is : Literal, by : {"board", "old", "entry"}]
Note == [is : Literal, by : {"board", "old", "entry"}, at : Nat]

Plain(t) == [x \in DOMAIN t |-> Tok(t[x].is, t[x].by)]
Joint(t, d, l) == Plain(t) \o d \o l
Stream == Joint(text, driver, line)

Places == {"start", "boot", "probe", "wipe", "reset", "nudge", "ctrl-e", "banner", "paste",
           "cut", "step", "stamp", "send", "look", "weigh", "recv", "collect", "judge",
           "verdict", "done"}

ReplType ==
    /\ target \in {"real", "renode"} /\ owned \in BOOLEAN
    /\ mode \in {"old", "prompt", "paste", "entry"}
    /\ flash \in {"user", "none"} /\ entry \in {"honest", "dump", "broken"}
    /\ asked \in [sent : Nat, read : Nat]
    /\ printed \in SUBSET Expect /\ noise \in Nat
    /\ line \in Seq(Token) /\ driver \in Seq(Token) /\ text \in Seq(Note)
    /\ lost \in Nat /\ missing \in SUBSET {"first", "last"}
    /\ place \in Places /\ mark \in Nat /\ i \in Nat \ {0}
    /\ triggers \in Nat /\ since \in Nat \cup {NIL}
    /\ waited \in Seq([needle : Expect, since : Nat \cup {NIL}])
    /\ late \in BOOLEAN /\ passed \in BOOLEAN
    /\ error \in {"none", "infra", "timeout", "run"}
    /\ arrived \in [Expect -> Nat \cup {NIL}]

(***************************************************************************)
(* Sequences of tokens.                                                    *)
(***************************************************************************)

\* The stream, part by part.
LEMMA StreamParts ==
    ASSUME NEW t \in Seq(Note), NEW d \in Seq(Token), NEW l \in Seq(Token)
    PROVE  /\ Joint(t, d, l) \in Seq(Token)
           /\ Len(Joint(t, d, l)) = Len(t) + Len(d) + Len(l)
           /\ \A x \in DOMAIN t : x \in DOMAIN Joint(t, d, l) /\ Joint(t, d, l)[x] = Tok(t[x].is, t[x].by)
           /\ \A x \in DOMAIN d : /\ Len(t) + x \in DOMAIN Joint(t, d, l)
                                  /\ Joint(t, d, l)[Len(t) + x] = d[x]
           /\ \A x \in DOMAIN l : /\ Len(t) + Len(d) + x \in DOMAIN Joint(t, d, l)
                                  /\ Joint(t, d, l)[Len(t) + Len(d) + x] = l[x]
<1>1. Plain(t) \in Seq(Token) /\ Len(Plain(t)) = Len(t)
  <2>1. \A x \in DOMAIN t : Tok(t[x].is, t[x].by) \in Token
    <3>1. \A x \in DOMAIN t : t[x] \in Note
      BY ElementOfSeq
    <3>. QED BY <3>1 DEF Tok, Token, Note
  <2>. QED BY <2>1 DEF Plain
<1>2. Plain(t) \o d \in Seq(Token)
  BY <1>1
<1>3. \A x \in DOMAIN t : Plain(t)[x] = Tok(t[x].is, t[x].by)
  BY DEF Plain
<1>. HIDE DEF Plain
<1>4. Len(Plain(t) \o d) = Len(t) + Len(d)
  BY <1>1
<1>5. \A x \in DOMAIN t : (Plain(t) \o d)[x] = Plain(t)[x]
  BY <1>1
<1>6. \A x \in DOMAIN d : (Plain(t) \o d)[Len(t) + x] = d[x]
  BY <1>1
<1>. DEFINE pd == Plain(t) \o d
<1>. HIDE DEF pd
<1>7. Joint(t, d, l) = pd \o l
  BY DEF Joint, pd
<1>8. pd \in Seq(Token) /\ Len(pd) = Len(t) + Len(d) /\ pd \o l \in Seq(Token)
  BY <1>2, <1>4 DEF pd
<1>9. Len(pd \o l) = Len(t) + Len(d) + Len(l)
  <2>1. Len(pd \o l) = Len(pd) + Len(l)
    BY <1>8, ConcatProperties
  <2>. QED BY <1>8, <2>1
<1>10. \A x \in DOMAIN pd : (pd \o l)[x] = pd[x]
  BY <1>8
<1>11. \A x \in DOMAIN l : (pd \o l)[Len(t) + Len(d) + x] = l[x]
  BY <1>8
<1>12. \A x \in DOMAIN t : x \in DOMAIN (pd \o l) /\ (pd \o l)[x] = Tok(t[x].is, t[x].by)
  <2>1. \A x \in DOMAIN t : x \in DOMAIN pd /\ x \in DOMAIN (pd \o l)
    BY <1>8, <1>9
  <2>. QED BY <2>1, <1>3, <1>5, <1>10 DEF pd
<1>13. \A x \in DOMAIN d : Len(t) + x \in DOMAIN (pd \o l) /\ (pd \o l)[Len(t) + x] = d[x]
  <2>1. \A x \in DOMAIN d : Len(t) + x \in DOMAIN pd /\ Len(t) + x \in DOMAIN (pd \o l)
    BY <1>8, <1>9
  <2>. QED BY <2>1, <1>6, <1>10 DEF pd
<1>14. \A x \in DOMAIN l : Len(t) + Len(d) + x \in DOMAIN (pd \o l)
  BY <1>8, <1>9
<1>. QED BY <1>7, <1>8, <1>9, <1>11, <1>12, <1>13, <1>14

\* Each place of the stream is in one of the parts.
LEMMA StreamPlaces ==
    ASSUME NEW t \in Seq(Note), NEW d \in Seq(Token), NEW l \in Seq(Token),
           NEW x \in DOMAIN Joint(t, d, l)
    PROVE  /\ x \in 1..(Len(t) + Len(d) + Len(l))
           /\ \/ x \in DOMAIN t
              \/ \E y \in DOMAIN d : x = Len(t) + y
              \/ \E y \in DOMAIN l : x = Len(t) + Len(d) + y
<1>1. x \in 1..(Len(t) + Len(d) + Len(l))
  <2>1. Joint(t, d, l) \in Seq(Token) /\ Len(Joint(t, d, l)) = Len(t) + Len(d) + Len(l)
    BY StreamParts
  <2>. HIDE DEF Joint
  <2>. QED BY <2>1
<1>2. CASE x <= Len(t)
  BY <1>1, <1>2
<1>3. CASE x > Len(t) /\ x <= Len(t) + Len(d)
  <2>1. x - Len(t) \in DOMAIN d /\ x = Len(t) + (x - Len(t))
    BY <1>1, <1>3
  <2>. QED BY <1>1, <2>1
<1>4. CASE x > Len(t) + Len(d)
  <2>1. x - (Len(t) + Len(d)) \in DOMAIN l /\ x = Len(t) + Len(d) + (x - (Len(t) + Len(d)))
    BY <1>1, <1>4
  <2>. QED BY <1>1, <2>1
<1>. QED BY <1>1, <1>2, <1>3, <1>4

\* When all that has arrived is read, the rest is on the line.
LEMMA UnreadIsInLine ==
    ASSUME NEW t \in Seq(Note), NEW l \in Seq(Token),
           NEW x \in DOMAIN Joint(t, <<>>, l), x \notin DOMAIN t
    PROVE  \E z \in DOMAIN l : Joint(t, <<>>, l)[x] = l[z]
<1>. DEFINE d == <<>>
            s == Joint(t, d, l)
<1>1. d \in Seq(Token)
  OBVIOUS
<1>1a. DOMAIN d = {}
  OBVIOUS
<1>. HIDE DEF d
<1>2. \A z \in DOMAIN l : s[Len(t) + Len(d) + z] = l[z]
  BY <1>1, StreamParts, SMTT(40)
<1>3. x \in DOMAIN s
  BY DEF d
<1>4. \/ x \in DOMAIN t
      \/ \E z \in DOMAIN d : x = Len(t) + z
      \/ \E z \in DOMAIN l : x = Len(t) + Len(d) + z
  BY <1>1, <1>3, StreamPlaces
<1>. HIDE DEF s
<1>5. \E z \in DOMAIN l : s[x] = l[z]
  BY <1>1a, <1>2, <1>4
<1>. QED BY <1>5 DEF s, d

\* Two streams with the same tokens in the same places are the same.
LEMMA SameStream ==
    ASSUME NEW r \in Seq(Token), NEW s \in Seq(Token), Len(r) = Len(s),
           \A x \in 1..Len(r) : r[x] = s[x]
    PROVE  r = s
BY SeqEqual

(***************************************************************************)
(* How a step changes the stream.                                          *)
(***************************************************************************)

\* Ingestion only moves the border between what is read and what is not.
LEMMA IngestedType ==
    ASSUME ReplType
    PROVE  /\ Stamped \in Seq(Note) /\ Len(Stamped) = Len(driver)
           /\ \A x \in DOMAIN driver : Stamped[x] = [is |-> driver[x].is, by |-> driver[x].by, at |-> triggers]
           /\ Ingested \in Seq(Note) /\ Len(Ingested) = Len(text) + Len(driver)
           /\ \A x \in DOMAIN text : Ingested[x] = text[x]
           /\ \A x \in DOMAIN driver : Ingested[Len(text) + x] =
                  [is |-> driver[x].is, by |-> driver[x].by, at |-> triggers]
<1>0. text \in Seq(Note) /\ driver \in Seq(Token) /\ triggers \in Nat
  BY DEF ReplType
<1>1. \A x \in DOMAIN driver : driver[x] \in Token
  BY <1>0, ElementOfSeq
<1>2. \A x \in DOMAIN driver : [is |-> driver[x].is, by |-> driver[x].by, at |-> triggers] \in Note
  BY <1>0, <1>1 DEF Token, Note
<1>3. Stamped \in Seq(Note) /\ Len(Stamped) = Len(driver)
  BY <1>0, <1>2 DEF Stamped
<1>4. \A x \in DOMAIN driver : Stamped[x] = [is |-> driver[x].is, by |-> driver[x].by, at |-> triggers]
  BY DEF Stamped
<1>5. Ingested \in Seq(Note) /\ Len(Ingested) = Len(text) + Len(driver)
  BY <1>0, <1>3 DEF Ingested
<1>6. \A x \in DOMAIN text : Ingested[x] = text[x]
  BY <1>0, <1>3 DEF Ingested
<1>7. \A x \in DOMAIN driver : Ingested[Len(text) + x] = Stamped[x]
  BY <1>0, <1>3 DEF Ingested
<1>. QED BY <1>3, <1>4, <1>5, <1>6, <1>7

\* Ingestion keeps the stream.
LEMMA IngestionKeepsStream ==
    ASSUME ReplType
    PROVE  Joint(Ingested, <<>>, line) = Stream
<1>0. text \in Seq(Note) /\ driver \in Seq(Token) /\ line \in Seq(Token)
  BY DEF ReplType
<1>1. /\ Ingested \in Seq(Note) /\ Len(Ingested) = Len(text) + Len(driver)
      /\ \A x \in DOMAIN text : Ingested[x] = text[x]
      /\ \A x \in DOMAIN driver : Ingested[Len(text) + x] =
                  [is |-> driver[x].is, by |-> driver[x].by, at |-> triggers]
  BY IngestedType
<1>. HIDE DEF Ingested
<1>2. <<>> \in Seq(Token) /\ Len(<<>>) = 0
  OBVIOUS
<1>. DEFINE new == Joint(Ingested, <<>>, line)
            emp == <<>>
<1>. HIDE DEF emp
<1>2e. emp \in Seq(Token) /\ Len(emp) = 0
  BY <1>2 DEF emp
<1>3. /\ new \in Seq(Token) /\ Len(new) = Len(Ingested) + Len(emp) + Len(line)
      /\ \A x \in DOMAIN Ingested : new[x] = Tok(Ingested[x].is, Ingested[x].by)
      /\ \A x \in DOMAIN line : new[Len(Ingested) + Len(emp) + x] = line[x]
  BY <1>1, <1>2e, <1>0, StreamParts, ZenonT(40) DEF emp
<1>4. /\ Stream \in Seq(Token) /\ Len(Stream) = Len(text) + Len(driver) + Len(line)
      /\ \A x \in DOMAIN text : Stream[x] = Tok(text[x].is, text[x].by)
      /\ \A x \in DOMAIN driver : Stream[Len(text) + x] = driver[x]
      /\ \A x \in DOMAIN line : Stream[Len(text) + Len(driver) + x] = line[x]
  BY <1>0, StreamParts DEF Stream
<1>. HIDE DEF new
<1>. DEFINE old == Stream
<1>. HIDE DEF old
<1>5. Len(new) = Len(old)
  BY <1>0, <1>1, <1>2e, <1>3, <1>4 DEF old
<1>6. ASSUME NEW x \in 1..Len(new) PROVE new[x] = old[x]
  <2>1. x \in DOMAIN Joint(text, driver, line)
    BY <1>4, <1>5, <1>6 DEF old, Stream
  <2>2. \/ x \in DOMAIN text
        \/ \E y \in DOMAIN driver : x = Len(text) + y
        \/ \E y \in DOMAIN line : x = Len(text) + Len(driver) + y
    BY <1>0, <2>1, StreamPlaces
  <2>3. CASE x \in DOMAIN text
    <3>1. x \in DOMAIN Ingested
      BY <1>0, <1>1, <2>3
    <3>. QED BY <1>1, <1>3, <1>4, <2>3, <3>1 DEF old
  <2>4. ASSUME NEW y \in DOMAIN driver, x = Len(text) + y PROVE new[x] = old[x]
    <3>1. x \in DOMAIN Ingested
      BY <1>0, <1>1, <2>4
    <3>2. driver[y] \in Token
      BY <1>0, ElementOfSeq
    <3>3. driver[y] = Tok(driver[y].is, driver[y].by)
      BY <3>2 DEF Token, Tok
    <3>4. Ingested[x] = [is |-> driver[y].is, by |-> driver[y].by, at |-> triggers]
      BY <1>1, <2>4
    <3>5. new[x] = Tok(driver[y].is, driver[y].by)
      BY <1>3, <3>1, <3>4
    <3>. QED BY <1>4, <2>4, <3>3, <3>5 DEF old
  <2>5. ASSUME NEW y \in DOMAIN line, x = Len(text) + Len(driver) + y PROVE new[x] = old[x]
    <3>1. x = Len(Ingested) + Len(emp) + y
      BY <1>0, <1>1, <1>2e, <2>5
    <3>. QED BY <1>3, <1>4, <2>5, <3>1 DEF old
  <2>. QED BY <2>2, <2>3, <2>4, <2>5
<1>7. old \in Seq(Token)
  BY <1>4 DEF old
<1>8. new = old
  BY <1>3, <1>5, <1>6, <1>7, SameStream
<1>. QED BY <1>8 DEF new, old

\* What arrives goes from the line to the driver, and stays in its place of the stream.
LEMMA ArrivalKeepsStream ==
    ASSUME ReplType, line # <<>>
    PROVE  Joint(text, Append(driver, Head(line)), Tail(line)) = Stream
<1>0. text \in Seq(Note) /\ driver \in Seq(Token) /\ line \in Seq(Token)
  BY DEF ReplType
<1>. DEFINE d == Append(driver, Head(line))
            l == Tail(line)
            new == Joint(text, d, l)
            old == Joint(text, driver, line)
<1>1. Len(line) \in Nat \ {0} /\ Head(line) = line[1]
  BY <1>0
<1>2. /\ d \in Seq(Token) /\ Len(d) = Len(driver) + 1
      /\ \A x \in DOMAIN driver : d[x] = driver[x]
      /\ d[Len(driver) + 1] = line[1]
  <2>1. line[1] \in Token
    BY <1>0, <1>1
  <2>. QED BY <1>0, <1>1, <2>1
<1>3. l \in Seq(Token) /\ Len(l) = Len(line) - 1 /\ \A x \in DOMAIN l : l[x] = line[x + 1]
  BY <1>0, <1>1
<1>. HIDE DEF d, l
<1>4. /\ new \in Seq(Token) /\ Len(new) = Len(text) + Len(d) + Len(l)
      /\ \A x \in DOMAIN text : new[x] = Tok(text[x].is, text[x].by)
      /\ \A x \in DOMAIN d : new[Len(text) + x] = d[x]
      /\ \A x \in DOMAIN l : new[Len(text) + Len(d) + x] = l[x]
  <2>1. d \in Seq(Token) /\ l \in Seq(Token)
    BY <1>2, <1>3
  <2>. HIDE <1>2, <1>3
  <2>. QED BY <1>0, <2>1, StreamParts, ZenonT(40)
<1>5. /\ old \in Seq(Token) /\ Len(old) = Len(text) + Len(driver) + Len(line)
      /\ \A x \in DOMAIN text : old[x] = Tok(text[x].is, text[x].by)
      /\ \A x \in DOMAIN driver : old[Len(text) + x] = driver[x]
      /\ \A x \in DOMAIN line : old[Len(text) + Len(driver) + x] = line[x]
  BY <1>0, StreamParts
<1>6. ASSUME NEW x \in DOMAIN old
      PROVE  \/ x \in DOMAIN text
             \/ \E y \in DOMAIN driver : x = Len(text) + y
             \/ \E y \in DOMAIN line : x = Len(text) + Len(driver) + y
  BY <1>0, StreamPlaces
<1>. HIDE DEF new, old
<1>7. Len(new) = Len(old)
  BY <1>0, <1>1, <1>2, <1>3, <1>4, <1>5
<1>8. ASSUME NEW x \in 1..Len(new) PROVE new[x] = old[x]
  <2>1. x \in DOMAIN old
    BY <1>5, <1>7
  <2>3. CASE x \in DOMAIN text
    BY <1>4, <1>5, <2>3
  <2>4. ASSUME NEW y \in DOMAIN driver, x = Len(text) + y PROVE new[x] = old[x]
    <3>1. y \in DOMAIN d
      BY <1>0, <1>2
    <3>. QED BY <1>2, <1>4, <1>5, <2>4, <3>1
  <2>5. ASSUME NEW y \in DOMAIN line, x = Len(text) + Len(driver) + y PROVE new[x] = old[x]
    <3>0. old[x] = line[y]
      BY <1>5, <2>5
    <3>1. CASE y = 1
      <4>1. Len(driver) + 1 \in DOMAIN d
        BY <1>0, <1>2
      <4>2. x = Len(text) + (Len(driver) + 1)
        BY <1>0, <2>5, <3>1
      <4>3. new[Len(text) + (Len(driver) + 1)] = d[Len(driver) + 1]
        BY <1>4, <4>1
      <4>. QED BY <1>2, <3>0, <3>1, <4>2, <4>3
    <3>2. CASE y # 1
      <4>1. y - 1 \in DOMAIN l
        BY <1>0, <1>3, <3>2
      <4>2. x = Len(text) + Len(d) + (y - 1)
        BY <1>0, <1>2, <2>5
      <4>3. l[y - 1] = line[y]
        BY <1>0, <1>3, <4>1
      <4>4. new[Len(text) + Len(d) + (y - 1)] = l[y - 1]
        BY <1>4, <4>1
      <4>. QED BY <3>0, <4>2, <4>3, <4>4
    <3>. QED BY <3>1, <3>2
  <2>. QED BY <1>6, <2>1, <2>3, <2>4, <2>5
<1>9. new = old
  BY <1>4, <1>5, <1>7, <1>8, SameStream
<1>. QED BY <1>9 DEF new, old, d, l, Stream

\* What is said goes to the end.
LEMMA SpeechAppends ==
    ASSUME NEW t \in Seq(Note), NEW d \in Seq(Token), NEW l \in Seq(Token), NEW toks \in Seq(Token)
    PROVE  Joint(t, d, l \o toks) = Joint(t, d, l) \o toks
<1>1. Plain(t) \in Seq(Token)
  <2>1. \A x \in DOMAIN t : t[x] \in Note
    BY ElementOfSeq
  <2>2. \A x \in DOMAIN t : Tok(t[x].is, t[x].by) \in Token
    BY <2>1 DEF Tok, Token, Note
  <2>. QED BY <2>2, SMTT(40) DEF Plain
<1>2. Plain(t) \o d \in Seq(Token)
  BY <1>1
<1>. QED BY <1>2, ConcatAssociative, SMTT(40) DEF Joint

(* A selection of a stream: some of its tokens, in the same order. *)
Picks(f, r, s) ==
    /\ f \in [1..Len(r) -> 1..Len(s)]
    /\ \A x, y \in 1..Len(r) : x < y => f[x] < f[y]
    /\ \A x \in 1..Len(r) : r[x] = s[f[x]]
Selected(r, s) == \E f : Picks(f, r, s)

\* The link loses one token of the line.
LEMMA LossLeaves ==
    ASSUME NEW t \in Seq(Note), NEW d \in Seq(Token), NEW l \in Seq(Token), NEW k \in DOMAIN l
    PROVE  /\ RemoveAt(l, k) \in Seq(Token)
           /\ Len(Joint(t, d, RemoveAt(l, k))) = Len(Joint(t, d, l)) - 1
           /\ \A x \in 1..Len(Joint(t, d, RemoveAt(l, k))) :
                 Joint(t, d, RemoveAt(l, k))[x] =
                    Joint(t, d, l)[IF x < Len(t) + Len(d) + k THEN x ELSE x + 1]
<1>. DEFINE r == RemoveAt(l, k)
            new == Joint(t, d, r)
            old == Joint(t, d, l)
<1>0. k \in 1..Len(l)
  OBVIOUS
<1>1. /\ r \in Seq(Token) /\ Len(r) = Len(l) - 1
      /\ \A x \in 1..Len(r) : r[x] = IF x < k THEN l[x] ELSE l[x + 1]
  <2>. DEFINE a == SubSeq(l, 1, k - 1)
              b == SubSeq(l, k + 1, Len(l))
  <2>1. a \in Seq(Token) /\ Len(a) = k - 1 /\ \A x \in 1..(k - 1) : a[x] = l[x]
    BY <1>0
  <2>2. b \in Seq(Token) /\ Len(b) = Len(l) - k /\ \A x \in 1..(Len(l) - k) : b[x] = l[k + x]
    BY <1>0
  <2>3. r = a \o b
    BY DEF RemoveAt
  <2>. HIDE DEF a, b, r
  <2>4. /\ a \o b \in Seq(Token) /\ Len(a \o b) = Len(l) - 1
        /\ \A x \in 1..(Len(l) - 1) : (a \o b)[x] = IF x < k THEN a[x] ELSE b[x - (k - 1)]
    <3>1. a \o b \in Seq(Token) /\ Len(a \o b) = Len(a) + Len(b)
          /\ \A x \in 1..(Len(a) + Len(b)) : (a \o b)[x] = IF x <= Len(a) THEN a[x] ELSE b[x - Len(a)]
      BY <2>1, <2>2, ConcatProperties
    <3>2. Len(a) + Len(b) = Len(l) - 1
      BY <1>0, <2>1, <2>2
    <3>3. \A x \in 1..(Len(l) - 1) : x <= Len(a) <=> x < k
      BY <1>0, <2>1
    <3>. QED BY <2>1, <3>1, <3>2, <3>3
  <2>5. ASSUME NEW x \in 1..(Len(l) - 1) PROVE (a \o b)[x] = IF x < k THEN l[x] ELSE l[x + 1]
    <3>1. CASE x < k
      BY <1>0, <2>1, <2>4, <3>1
    <3>2. CASE ~(x < k)
      <4>1. x - (k - 1) \in 1..(Len(l) - k) /\ k + (x - (k - 1)) = x + 1
        BY <1>0, <3>2
      <4>2. b[x - (k - 1)] = l[x + 1]
        BY <2>2, <4>1
      <4>. QED BY <2>4, <3>2, <4>2
    <3>. QED BY <3>1, <3>2
  <2>. QED BY <2>3, <2>4, <2>5
<1>. HIDE DEF r
<1>4. /\ new \in Seq(Token) /\ Len(new) = Len(t) + Len(d) + Len(r)
      /\ \A x \in DOMAIN t : new[x] = Tok(t[x].is, t[x].by)
      /\ \A x \in DOMAIN d : new[Len(t) + x] = d[x]
      /\ \A x \in DOMAIN r : new[Len(t) + Len(d) + x] = r[x]
  BY <1>1, StreamParts, ZenonT(40)
<1>5. /\ old \in Seq(Token) /\ Len(old) = Len(t) + Len(d) + Len(l)
      /\ \A x \in DOMAIN t : old[x] = Tok(t[x].is, t[x].by)
      /\ \A x \in DOMAIN d : old[Len(t) + x] = d[x]
      /\ \A x \in DOMAIN l : old[Len(t) + Len(d) + x] = l[x]
  BY StreamParts
<1>6. ASSUME NEW x \in DOMAIN new
      PROVE  \/ x \in DOMAIN t
             \/ \E y \in DOMAIN d : x = Len(t) + y
             \/ \E y \in DOMAIN r : x = Len(t) + Len(d) + y
  BY <1>1, StreamPlaces
<1>. HIDE DEF new, old
<1>7. Len(new) = Len(old) - 1
  BY <1>0, <1>1, <1>4, <1>5
<1>8. ASSUME NEW x \in 1..Len(new)
      PROVE new[x] = old[IF x < Len(t) + Len(d) + k THEN x ELSE x + 1]
  <2>1. x \in DOMAIN new
    BY <1>4
  <2>3. CASE x \in DOMAIN t
    <3>1. x < Len(t) + Len(d) + k
      BY <1>0, <2>3
    <3>. QED BY <1>4, <1>5, <2>3, <3>1
  <2>4. ASSUME NEW y \in DOMAIN d, x = Len(t) + y
        PROVE  new[x] = old[IF x < Len(t) + Len(d) + k THEN x ELSE x + 1]
    <3>1. x < Len(t) + Len(d) + k
      BY <1>0, <2>4
    <3>. QED BY <1>4, <1>5, <2>4, <3>1
  <2>5. ASSUME NEW y \in DOMAIN r, x = Len(t) + Len(d) + y
        PROVE  new[x] = old[IF x < Len(t) + Len(d) + k THEN x ELSE x + 1]
    <3>0. new[x] = r[y] /\ y \in 1..Len(r)
      BY <1>1, <1>4, <2>5
    <3>1. CASE y < k
      <4>1. x < Len(t) + Len(d) + k /\ y \in DOMAIN l
        BY <1>0, <1>1, <2>5, <3>0, <3>1
      <4>. QED BY <1>1, <1>5, <2>5, <3>0, <3>1, <4>1
    <3>2. CASE ~(y < k)
      <4>1. ~(x < Len(t) + Len(d) + k) /\ y + 1 \in DOMAIN l /\ x + 1 = Len(t) + Len(d) + (y + 1)
        BY <1>0, <1>1, <2>5, <3>0, <3>2, SMTT(40)
      <4>2. old[Len(t) + Len(d) + (y + 1)] = l[y + 1]
        BY <1>5, <4>1
      <4>. QED BY <1>1, <3>0, <3>2, <4>1, <4>2
    <3>. QED BY <3>1, <3>2
  <2>. QED BY <1>6, <2>1, <2>3, <2>4, <2>5
<1>. QED BY <1>1, <1>7, <1>8 DEF new, old, r

\* A loss selects from the stream.
LEMMA LossSelects ==
    ASSUME NEW t \in Seq(Note), NEW d \in Seq(Token), NEW l \in Seq(Token), NEW k \in DOMAIN l
    PROVE  Selected(Joint(t, d, RemoveAt(l, k)), Joint(t, d, l))
<1>. DEFINE r == RemoveAt(l, k)
            new == Joint(t, d, r)
            old == Joint(t, d, l)
            c == Len(t) + Len(d) + k
            f == [x \in 1..Len(new) |-> IF x < c THEN x ELSE x + 1]
<1>1. /\ r \in Seq(Token) /\ Len(new) = Len(old) - 1
      /\ \A x \in 1..Len(new) : new[x] = old[IF x < c THEN x ELSE x + 1]
  BY LossLeaves
<1>2. old \in Seq(Token) /\ c \in Nat
  <2>1. old \in Seq(Token)
    BY StreamParts
  <2>. QED BY <2>1
<1>. HIDE DEF r, new, old, c
<1>3. Len(old) \in Nat /\ Len(new) \in Int
  BY <1>1, <1>2
<1>4. Picks(f, new, old)
  <2>1. f \in [1..Len(new) -> 1..Len(old)]
    BY <1>1, <1>2, <1>3
  <2>2. \A x, y \in 1..Len(new) : x < y => f[x] < f[y]
    BY <1>2, <1>3
  <2>3. \A x \in 1..Len(new) : new[x] = old[f[x]]
    BY <1>1
  <2>. QED BY <2>1, <2>2, <2>3 DEF Picks
<1>5. Selected(new, old)
  BY <1>4 DEF Selected
<1>. QED BY <1>5 DEF new, old, r

\* A cut drops a prefix of what has been ingested.
LEMMA CutLeaves ==
    ASSUME NEW t \in Seq(Note), NEW d \in Seq(Token), NEW l \in Seq(Token), NEW k \in 0..Len(t)
    PROVE  /\ Since(t, k) \in Seq(Note) /\ Len(Since(t, k)) = Len(t) - k
           /\ \A x \in 1..Len(Since(t, k)) : Since(t, k)[x] = t[x + k]
           /\ Len(Joint(Since(t, k), d, l)) = Len(Joint(t, d, l)) - k
           /\ \A x \in 1..Len(Joint(Since(t, k), d, l)) : Joint(Since(t, k), d, l)[x] = Joint(t, d, l)[x + k]
<1>. DEFINE r == Since(t, k)
            new == Joint(r, d, l)
            old == Joint(t, d, l)
<1>1. r \in Seq(Note) /\ Len(r) = Len(t) - k /\ \A x \in 1..Len(r) : r[x] = t[x + k]
  BY SMT DEF Since
<1>. HIDE DEF r
<1>4. /\ new \in Seq(Token) /\ Len(new) = Len(r) + Len(d) + Len(l)
      /\ \A x \in DOMAIN r : new[x] = Tok(r[x].is, r[x].by)
      /\ \A x \in DOMAIN d : new[Len(r) + x] = d[x]
      /\ \A x \in DOMAIN l : new[Len(r) + Len(d) + x] = l[x]
  BY <1>1, StreamParts, ZenonT(40)
<1>5. /\ old \in Seq(Token) /\ Len(old) = Len(t) + Len(d) + Len(l)
      /\ \A x \in DOMAIN t : old[x] = Tok(t[x].is, t[x].by)
      /\ \A x \in DOMAIN d : old[Len(t) + x] = d[x]
      /\ \A x \in DOMAIN l : old[Len(t) + Len(d) + x] = l[x]
  BY StreamParts
<1>6. ASSUME NEW x \in DOMAIN new
      PROVE  \/ x \in DOMAIN r
             \/ \E y \in DOMAIN d : x = Len(r) + y
             \/ \E y \in DOMAIN l : x = Len(r) + Len(d) + y
  <2>1. r \in Seq(Note) /\ x \in DOMAIN Joint(r, d, l)
    BY <1>1, <1>6
  <2>. QED BY <2>1, StreamPlaces
<1>. HIDE DEF new, old
<1>7. Len(new) = Len(old) - k
  BY <1>1, <1>4, <1>5
<1>8. ASSUME NEW x \in 1..Len(new) PROVE new[x] = old[x + k]
  <2>1. x \in DOMAIN new
    BY <1>4
  <2>2. CASE x \in DOMAIN r
    <3>1. x + k \in DOMAIN t /\ r[x] = t[x + k]
      BY <1>1, <2>2
    <3>. QED BY <1>4, <1>5, <2>2, <3>1
  <2>3. ASSUME NEW y \in DOMAIN d, x = Len(r) + y PROVE new[x] = old[x + k]
    <3>1. x + k = Len(t) + y
      BY <1>1, <2>3
    <3>. QED BY <1>4, <1>5, <2>3, <3>1
  <2>4. ASSUME NEW y \in DOMAIN l, x = Len(r) + Len(d) + y PROVE new[x] = old[x + k]
    <3>1. x + k = Len(t) + Len(d) + y
      BY <1>1, <2>4
    <3>. QED BY <1>4, <1>5, <2>4, <3>1
  <2>. QED BY <1>6, <2>1, <2>2, <2>3, <2>4
<1>. QED BY <1>1, <1>7, <1>8 DEF new, old, r

\* A cut selects from the stream.
LEMMA CutSelects ==
    ASSUME NEW t \in Seq(Note), NEW d \in Seq(Token), NEW l \in Seq(Token), NEW k \in 0..Len(t)
    PROVE  Selected(Joint(Since(t, k), d, l), Joint(t, d, l))
<1>. DEFINE new == Joint(Since(t, k), d, l)
            old == Joint(t, d, l)
            f == [x \in 1..Len(new) |-> x + k]
<1>1. Len(new) = Len(old) - k /\ \A x \in 1..Len(new) : new[x] = old[x + k]
  BY CutLeaves
<1>2. old \in Seq(Token) /\ k \in Nat
  <2>1. old \in Seq(Token)
    BY StreamParts
  <2>. QED BY <2>1
<1>. HIDE DEF new, old
<1>3. Len(old) \in Nat /\ Len(new) \in Int
  BY <1>1, <1>2
<1>4. Picks(f, new, old)
  <2>1. f \in [1..Len(new) -> 1..Len(old)]
    BY <1>1, <1>2, <1>3
  <2>2. \A x, y \in 1..Len(new) : x < y => f[x] < f[y]
    BY <1>2, <1>3
  <2>3. \A x \in 1..Len(new) : new[x] = old[f[x]]
    BY <1>1
  <2>. QED BY <2>1, <2>2, <2>3 DEF Picks
<1>5. Selected(new, old)
  BY <1>4 DEF Selected
<1>. QED BY <1>5 DEF new, old

(***************************************************************************)
(* Types.                                                                  *)
(***************************************************************************)

\* Words that are no literals of the task.
LEMMA WordsAreNoLiterals ==
    /\ Words \cap Expect = {} /\ "delay" \notin Expect /\ "write" \notin Expect
BY BoardAssumption

\* What is left by a cut is still text.
LEMMA CutType ==
    ASSUME NEW T, NEW s \in Seq(T), NEW what, Has(s, what)
    PROVE  /\ LastAt(s, what) \in 1..Len(s) /\ s[LastAt(s, what)].is = what
           /\ \A x \in 1..Len(s) : s[x].is = what => x <= LastAt(s, what)
           /\ After(s, what) \in Seq(T)
<1>. DEFINE P(x) == x \in DOMAIN s /\ s[x].is = what
<1>1. PICK k \in DOMAIN s : s[k].is = what
  BY DEF Has
<1>2. \E y \in DOMAIN s : s[y].is = what /\ \A z \in DOMAIN s : s[z].is = what => z <= y
  <2>. DEFINE G == {z \in 0..Len(s) : P(Len(s) - z)}
  <2>1. G # {} /\ G \subseteq Nat
    <3>1. Len(s) - k \in 0..Len(s) /\ Len(s) - (Len(s) - k) = k
      BY <1>1
    <3>. QED BY <1>1, <3>1
  <2>. HIDE DEF G
  <2>2. PICK g \in G : \A z \in G : ~(z < g)
    <3>1. IsWellFoundedOn(OpToRel(<, Nat), Nat)
      BY NatLessThanWellFounded
    <3>2. PICK g \in G : \A z \in G : <<z, g>> \notin OpToRel(<, Nat)
      BY <2>1, <3>1, WFMin
    <3>. QED BY <2>1, <3>2 DEF OpToRel
  <2>. QED
    <3>1. g \in 0..Len(s) /\ Len(s) - g \in DOMAIN s /\ s[Len(s) - g].is = what
      BY DEF G
    <3>2. ASSUME NEW z \in DOMAIN s, s[z].is = what PROVE z <= Len(s) - g
      <4>1. Len(s) - z \in 0..Len(s) /\ Len(s) - (Len(s) - z) = z
        BY <3>2
      <4>2. Len(s) - z \in G
        BY <3>2, <4>1 DEF G
      <4>3. ~(Len(s) - z < g)
        BY <2>2, <4>2
      <4>. QED BY <3>1, <3>2, <4>3
    <3>. QED BY <3>1, <3>2
<1>3. /\ LastAt(s, what) \in DOMAIN s /\ s[LastAt(s, what)].is = what
      /\ \A x \in DOMAIN s : s[x].is = what => x <= LastAt(s, what)
  BY <1>2 DEF LastAt
<1>4. After(s, what) \in Seq(T)
  BY <1>3 DEF After, Since
<1>. QED BY <1>3, <1>4

\* The answer to the probe is a sequence of tokens.
LEMMA ProbeAnswerType ==
    ASSUME NEW now
    PROVE  ProbeAnswer(now) \in Seq(Token)
<1>1. \A d \in DOMAIN Content : Content[d] \in HexDigits
  BY BoardAssumption, ElementOfSeq
<1>2. Len(Content) \in Nat /\ DOMAIN Content = 1..Len(Content)
  BY BoardAssumption
<1>3. [d \in DOMAIN Content |-> Tok(Content[d], "board")] \in Seq(Token)
  BY <1>1, <1>2 DEF Tok, Token, Literal
<1>4. <<Tok("absent", "board")>> \in Seq(Token) /\ <<Tok("mark", "board")>> \in Seq(Token)
      /\ <<Tok("end", "board")>> \in Seq(Token)
  BY DEF Tok, Token, Literal, Words
<1>5. <<>> \in Seq(Token)
  OBVIOUS
<1>. QED BY <1>3, <1>4, <1>5 DEF ProbeAnswer

\* The type invariant holds at the start.
LEMMA TypeInit == ReplInit => ReplType
<1>. SUFFICES ASSUME ReplInit PROVE ReplType
  OBVIOUS
<1>1. arrived \in [Expect -> Nat \cup {NIL}]
  BY DEF ReplInit
<1>2. asked \in [sent : Nat, read : Nat]
  BY DEF ReplInit, BoardInit
<1>3. mode \in {"old", "prompt", "paste", "entry"}
  BY DEF ReplInit, BoardInit
<1>4. line \in Seq(Token) /\ driver \in Seq(Token) /\ text \in Seq(Note)
      /\ waited \in Seq([needle : Expect, since : Nat \cup {NIL}])
  BY DEF ReplInit, BoardInit
<1>5. flash \in {"user", "none"} /\ place \in Places
  BY DEF ReplInit, BoardInit, Places
<1>6. target \in {"real", "renode"} /\ owned \in BOOLEAN /\ entry \in {"honest", "dump", "broken"}
      /\ printed \in SUBSET Expect /\ noise \in Nat /\ lost \in Nat /\ missing \in SUBSET {"first", "last"}
  BY DEF ReplInit, BoardInit
<1>7. mark \in Nat /\ i \in Nat \ {0} /\ triggers \in Nat /\ since \in Nat \cup {NIL}
  BY DEF ReplInit
<1>8. late \in BOOLEAN /\ passed \in BOOLEAN /\ error \in {"none", "infra", "timeout", "run"}
  BY DEF ReplInit
<1>. QED BY <1>1, <1>2, <1>3, <1>4, <1>5, <1>6, <1>7, <1>8 DEF ReplType

(* What is said, and when. *)
MaySay(t) ==
    \/ t = Tok("prompt", "board")
    \/ /\ mode = "old" /\ mode' = "old" /\ place' = place
       /\ t.by = "old" /\ t.is \in Expect \cup {"noise"}
    \/ /\ mode = "prompt" /\ mode' = "paste" /\ place = "ctrl-e" /\ place' = "banner"
       /\ t = Tok("banner", "board")
    \/ /\ place = "paste" /\ place' = "paste" /\ i \in 1..2 /\ i' = i + 1
       /\ t = Tok(Source[i], "board")
    \/ /\ mode = "entry" /\ mode' = "entry" /\ place' = place
       /\ \E p \in Expect \ printed : t = Tok(p, "entry") /\ printed' = printed \cup {p}
       /\ entry = "honest" => asked.read >= AskedBy(t.is)

(* How one step changes the link and the text. *)
Quietly == UNCHANGED <<text, driver, line>>
Ingests == text' = Ingested /\ driver' = <<>> /\ UNCHANGED line
Speaks == /\ UNCHANGED <<text, driver>>
          /\ \E t \in Token : line' = line \o <<t>> /\ MaySay(t)
LinkStep ==
    \/ Quietly \/ Ingests \/ Speaks
    \/ Probes \/ Resets \/ CutsEcho \/ JudgesRenode
    \/ BoardMoves /\ Arrives /\ UNCHANGED <<text, place>>
    \/ BoardMoves /\ Loses /\ UNCHANGED <<text, place>>

\* The runner changes the link in one of these ways.
LEMMA RunnerLinkStep ==
    ASSUME ReplType, Runner
    PROVE  LinkStep
<1>. USE DEF On, Goto, Fails, Pump, Drains, env, run, kept, link, device, AtStep, Step, Says
<1>1. CASE Opens
  BY <1>1 DEF Opens, LinkStep, Quietly, Ingests
<1>2. CASE ReadsProbe
  BY <1>2 DEF ReadsProbe, LinkStep, Quietly, Ingests
<1>3. CASE ProbeUnknown
  BY <1>3 DEF ProbeUnknown, LinkStep, Quietly
<1>4. CASE Wipes
  BY <1>4 DEF Wipes, LinkStep, Ingests
<1>5. CASE Connects
  <2>1. Tok("prompt", "board") \in Token
    BY DEF Tok, Token, Literal, Words
  <2>. QED BY <1>5, <2>1 DEF Connects, LinkStep, Quietly, Speaks, MaySay
<1>6. CASE SeesPrompt
  BY <1>6 DEF SeesPrompt, LinkStep, Quietly, Ingests
<1>7. CASE SendsCtrlE
  <2>1. Tok("banner", "board") \in Token
    BY DEF Tok, Token, Literal, Words
  <2>. QED BY <1>7, <2>1 DEF SendsCtrlE, TakesCtrlE, LinkStep, Quietly, Speaks, MaySay
<1>8. CASE SeesBanner
  BY <1>8 DEF SeesBanner, LinkStep, Quietly, Ingests
<1>9. CASE NoBanner
  BY <1>9 DEF NoBanner, LinkStep, Quietly
<1>10. CASE PastesLine
  <2>1. i \in 1..2 /\ Tok(Source[i], "board") \in Token
    BY <1>10 DEF PastesLine, Source, ReplType, Tok, Token, Literal, Words
  <2>. QED BY <1>10, <2>1 DEF PastesLine, TakesPasted, LinkStep, Quietly, Speaks, MaySay
<1>11. CASE PasteLate
  BY <1>11 DEF PasteLate, LinkStep, Quietly
<1>12. CASE Executes
  BY <1>12 DEF Executes, LinkStep, Quietly
<1>13. CASE Delay
  BY <1>13 DEF Delay, LinkStep, Quietly
<1>14. CASE StimulusOver
  BY <1>14 DEF StimulusOver, LinkStep, Quietly
<1>15. CASE BeginWrite
  BY <1>15 DEF BeginWrite, LinkStep, Ingests
<1>16. CASE Stamps
  BY <1>16 DEF Stamps, LinkStep, Quietly
<1>17. CASE Sends
  BY <1>17 DEF Sends, LinkStep, Quietly
<1>18. CASE BeginWait
  BY <1>18 DEF BeginWait, LinkStep, Quietly
<1>19. CASE LooksForStamp
  BY <1>19 DEF LooksForStamp, LinkStep, Ingests
<1>20. CASE Weighs
  BY <1>20 DEF Weighs, LinkStep, Ingests
<1>21. CASE RenodeWaits
  BY <1>21 DEF RenodeWaits, LinkStep, Quietly
<1>22. CASE Receives
  BY <1>22 DEF Receives, LinkStep, Ingests
<1>23. CASE ReceiveEnds
  BY <1>23 DEF ReceiveEnds, LinkStep, Quietly
<1>24. CASE Collects
  BY <1>24 DEF Collects, LinkStep, Ingests
<1>25. CASE CollectOver
  BY <1>25 DEF CollectOver, LinkStep, Quietly
<1>26. CASE JudgesReal
  BY <1>26 DEF JudgesReal, LinkStep, Ingests
<1>27. CASE Verdict
  BY <1>27 DEF Verdict, LinkStep, Quietly
<1>28. CASE Probes \/ Resets \/ CutsEcho \/ JudgesRenode
  BY <1>28 DEF LinkStep
<1>. QED
  BY <1>1, <1>2, <1>3, <1>4, <1>5, <1>6, <1>7, <1>8, <1>9, <1>10, <1>11, <1>12, <1>13, <1>14,
     <1>15, <1>16, <1>17, <1>18, <1>19, <1>20, <1>21, <1>22, <1>23, <1>24, <1>25, <1>26, <1>27,
     <1>28 DEF Runner

\* So does every step.
LEMMA AnyLinkStep ==
    ASSUME ReplType, ReplNext
    PROVE  LinkStep
<1>1. CASE Runner
  BY <1>1, RunnerLinkStep
<1>2. CASE DeadlinePasses
  BY <1>2 DEF DeadlinePasses, LinkStep, Quietly, kept, link
<1>3. CASE BoardMoves
  <2>0. UNCHANGED <<text, place>> /\ BoardStep
    BY <1>3 DEF BoardMoves, kept
  <2>1. CASE OldPrints
    <3>1. \A p \in Expect \cup {"noise"} : Tok(p, "old") \in Token
      BY DEF Tok, Token, Literal, Words
    <3>. QED BY <2>0, <2>1, <3>1 DEF OldPrints, Says, Tok, LinkStep, Speaks, MaySay
  <2>2. CASE OldEnds \/ EntryReads
    BY <2>0, <2>2 DEF OldEnds, EntryReads, link, LinkStep, Quietly
  <2>3. CASE EntryPrints
    <3>1. \A p \in Expect : Tok(p, "entry") \in Token
      BY DEF Tok, Token, Literal
    <3>2. \A p \in Expect : Tok(p, "entry").is = p
      BY DEF Tok
    <3>3. UNCHANGED <<text, driver, mode, place>>
      BY <2>0, <2>3 DEF EntryPrints
    <3>4. PICK p \in Expect \ printed : /\ entry = "honest" => asked.read >= AskedBy(p)
                                       /\ printed' = printed \cup {p}
                                       /\ line' = line \o <<Tok(p, "entry")>>
      BY <2>3 DEF EntryPrints, Says
    <3>5. mode = "entry"
      BY <2>3 DEF EntryPrints
    <3>6. MaySay(Tok(p, "entry"))
      BY <3>2, <3>3, <3>4, <3>5 DEF MaySay
    <3>. QED BY <3>1, <3>3, <3>4, <3>6 DEF LinkStep, Speaks
  <2>4. CASE EntryEnds
    <3>1. Tok("prompt", "board") \in Token
      BY DEF Tok, Token, Literal, Words
    <3>. QED BY <2>0, <2>4, <3>1 DEF EntryEnds, Says, LinkStep, Speaks, MaySay
  <2>5. CASE Arrives \/ Loses
    BY <1>3, <2>0, <2>5 DEF LinkStep
  <2>. QED BY <2>0, <2>1, <2>2, <2>3, <2>4, <2>5 DEF BoardStep
<1>. QED BY <1>1, <1>2, <1>3 DEF ReplNext

\* The sequences stay sequences.
LEMMA LinkTypeStep ==
    ASSUME ReplType, LinkStep
    PROVE  line' \in Seq(Token) /\ driver' \in Seq(Token) /\ text' \in Seq(Note)
<1>0. line \in Seq(Token) /\ driver \in Seq(Token) /\ text \in Seq(Note)
  BY DEF ReplType
<1>1. CASE Quietly
  BY <1>0, <1>1 DEF Quietly
<1>2. Ingested \in Seq(Note) /\ <<>> \in Seq(Token)
  BY IngestedType
<1>3. CASE Ingests
  BY <1>0, <1>2, <1>3 DEF Ingests
<1>4. CASE Speaks
  <2>1. PICK t \in Token : line' = line \o <<t>>
    BY <1>4 DEF Speaks
  <2>2. line \o <<t>> \in Seq(Token)
    BY <1>0
  <2>. QED BY <1>0, <1>4, <2>1, <2>2 DEF Speaks
<1>5. CASE Probes
  <2>1. line' = line \/ line' = line \o ProbeAnswer(mode')
    BY <1>5 DEF Probes, Says
  <2>2. line' \in Seq(Token)
    BY <1>0, <2>1, ProbeAnswerType, ConcatProperties
  <2>3. text' = Ingested /\ driver' = <<>>
    BY <1>5 DEF Probes
  <2>. QED BY <1>2, <2>2, <2>3
<1>6. CASE Resets
  <2>1. text' = <<>> /\ driver' = <<>> /\ line' = line
    BY <1>6 DEF Resets
  <2>. QED BY <1>0, <1>2, <2>1
<1>7. CASE CutsEcho
  <2>1. driver' = <<>> /\ line' = line
    BY <1>7 DEF CutsEcho
  <2>2. text' = Ingested \/ (Has(Ingested, "last") /\ text' = After(Ingested, "last"))
    BY <1>7 DEF CutsEcho
  <2>3. text' \in Seq(Note)
    BY <1>2, <2>2, CutType
  <2>. QED BY <1>0, <1>2, <2>1, <2>3
<1>8. CASE JudgesRenode
  <2>1. driver' = driver /\ line' = line
    BY <1>8 DEF JudgesRenode, link
  <2>2. text' = text \/ (Has(text, "last") /\ text' = After(text, "last"))
    BY <1>8 DEF JudgesRenode
  <2>3. text' \in Seq(Note)
    BY <1>0, <2>2, CutType
  <2>. QED BY <1>0, <2>1, <2>3
<1>9. CASE BoardMoves /\ Arrives /\ UNCHANGED <<text, place>>
  <2>1. line # <<>> /\ driver' = Append(driver, Head(line)) /\ line' = Tail(line)
    BY <1>9 DEF Arrives
  <2>. QED BY <1>0, <1>9, <2>1
<1>10. CASE BoardMoves /\ Loses /\ UNCHANGED <<text, place>>
  <2>1. driver' = driver /\ \E k \in DOMAIN line : line' = RemoveAt(line, k)
    BY <1>10 DEF Loses
  <2>. QED BY <1>0, <1>10, <2>1, LossLeaves
<1>. QED BY <1>1, <1>3, <1>4, <1>5, <1>6, <1>7, <1>8, <1>9, <1>10 DEF LinkStep

(* The control variables of the runner and the board. *)
ControlType ==
    /\ target \in {"real", "renode"} /\ owned \in BOOLEAN
    /\ mode \in {"old", "prompt", "paste", "entry"}
    /\ flash \in {"user", "none"} /\ entry \in {"honest", "dump", "broken"}
    /\ missing \in SUBSET {"first", "last"}
    /\ place \in Places
    /\ late \in BOOLEAN /\ passed \in BOOLEAN
    /\ error \in {"none", "infra", "timeout", "run"}

\* Places and modes keep their types.
LEMMA ControlTypeStep ==
    ASSUME ReplType, ReplNext
    PROVE  ControlType'
<1>0. ControlType
  BY DEF ReplType, ControlType
<1>. USE DEF ControlType, Places, On, Goto, Fails, env, run, kept, link, device, AtStep
<1>1. CASE Opens \/ Probes \/ ReadsProbe \/ ProbeUnknown \/ Wipes \/ Resets
  <2>1. CASE Opens
    BY <1>0, <2>1 DEF Opens, Pump, Interrupted, AfterReset
  <2>2. CASE Probes
    BY <1>0, <2>2 DEF Probes, Pump, Interrupted, AfterReset
  <2>3. CASE ReadsProbe
    BY <1>0, <2>3 DEF ReadsProbe, Pump, Interrupted, AfterReset
  <2>4. CASE ProbeUnknown
    BY <1>0, <2>4 DEF ProbeUnknown, Pump, Interrupted, AfterReset
  <2>5. CASE Wipes
    BY <1>0, <2>5 DEF Wipes, Pump, Interrupted, AfterReset
  <2>6. CASE Resets
    BY <1>0, <2>6 DEF Resets, Pump, Interrupted, AfterReset
  <2>. QED BY <1>1, <2>1, <2>2, <2>3, <2>4, <2>5, <2>6
<1>2. CASE Connects \/ SeesPrompt \/ SendsCtrlE \/ SeesBanner \/ NoBanner
  <2>1. CASE Connects
    BY <1>0, <2>1 DEF Connects, Pump, TakesCtrlE
  <2>2. CASE SeesPrompt
    BY <1>0, <2>2 DEF SeesPrompt, Pump, TakesCtrlE
  <2>3. CASE SendsCtrlE
    BY <1>0, <2>3 DEF SendsCtrlE, Pump, TakesCtrlE
  <2>4. CASE SeesBanner
    BY <1>0, <2>4 DEF SeesBanner, Pump, TakesCtrlE
  <2>5. CASE NoBanner
    BY <1>0, <2>5 DEF NoBanner, Pump, TakesCtrlE
  <2>. QED BY <1>2, <2>1, <2>2, <2>3, <2>4, <2>5
<1>3. CASE PastesLine
  <2>1. i \in 1..2 /\ Source[i] \in {"first", "last"}
    BY <1>3 DEF PastesLine, Source, ReplType
  <2>. QED BY <1>0, <1>3, <2>1, ZenonT(40) DEF PastesLine, TakesPasted
<1>4. CASE PasteLate \/ Executes \/ CutsEcho \/ Delay \/ StimulusOver \/ BeginWrite \/ Stamps \/ Sends
  BY <1>0, <1>4 DEF PasteLate, Executes, CutsEcho, Delay, StimulusOver, BeginWrite, Drains, Pump, Stamps, Sends
<1>5. CASE BeginWait \/ LooksForStamp \/ Weighs \/ RenodeWaits \/ Receives \/ ReceiveEnds
  <2>1. CASE BeginWait
    BY <1>0, <2>1 DEF BeginWait, Pump
  <2>2. CASE LooksForStamp
    BY <1>0, <2>2 DEF LooksForStamp, Pump
  <2>3. CASE Weighs
    BY <1>0, <2>3 DEF Weighs, Pump
  <2>4. CASE RenodeWaits
    BY <1>0, <2>4 DEF RenodeWaits, Pump
  <2>5. CASE Receives
    BY <1>0, <2>5 DEF Receives, Pump
  <2>6. CASE ReceiveEnds
    BY <1>0, <2>6 DEF ReceiveEnds, Pump
  <2>. QED BY <1>5, <2>1, <2>2, <2>3, <2>4, <2>5, <2>6
<1>6. CASE Collects \/ CollectOver \/ JudgesReal \/ JudgesRenode \/ Verdict \/ DeadlinePasses
  <2>1. CASE Collects
    BY <1>0, <2>1 DEF Collects, Pump
  <2>2. CASE CollectOver
    BY <1>0, <2>2 DEF CollectOver, Pump
  <2>3. CASE JudgesReal
    BY <1>0, <2>3 DEF JudgesReal, Pump
  <2>4. CASE JudgesRenode
    BY <1>0, <2>4 DEF JudgesRenode, Pump
  <2>5. CASE Verdict
    BY <1>0, <2>5 DEF Verdict, Pump
  <2>6. CASE DeadlinePasses
    BY <1>0, <2>6 DEF DeadlinePasses, Pump
  <2>. QED BY <1>6, <2>1, <2>2, <2>3, <2>4, <2>5, <2>6
<1>7. CASE BoardMoves
  BY <1>0, <1>7 DEF BoardMoves, BoardStep, OldPrints, OldEnds, EntryReads, EntryPrints, EntryEnds, Arrives, Loses
<1>. QED BY <1>1, <1>2, <1>3, <1>4, <1>5, <1>6, <1>7 DEF ReplNext, Runner

(* The counters, and what is remembered. *)
CountType ==
    /\ asked \in [sent : Nat, read : Nat] /\ noise \in Nat /\ lost \in Nat
    /\ mark \in Nat /\ i \in Nat \ {0} /\ triggers \in Nat /\ since \in Nat \cup {NIL}

\* Counters keep their types.
LEMMA CountTypeStep ==
    ASSUME ReplType, ReplNext, text' \in Seq(Note)
    PROVE  CountType'
<1>0. CountType /\ Len(text) \in Nat /\ Len(text') \in Nat
  BY DEF ReplType, CountType
<1>. USE DEF CountType, On, Goto, Fails, env, run, kept, link, device, AtStep
<1>1. CASE Opens \/ Probes \/ ReadsProbe \/ ProbeUnknown \/ Wipes \/ Resets
  BY <1>0, <1>1, SMTT(40) DEF Opens, Probes, ReadsProbe, ProbeUnknown, Wipes, Resets, Pump
<1>2. CASE Connects \/ SeesPrompt \/ SendsCtrlE \/ SeesBanner \/ NoBanner \/ PastesLine
  BY <1>0, <1>2, SMTT(40) DEF Connects, SeesPrompt, SendsCtrlE, SeesBanner, NoBanner, Pump, PastesLine, TakesPasted
<1>4. CASE PasteLate \/ Executes \/ CutsEcho \/ Delay \/ StimulusOver \/ BeginWrite \/ Stamps \/ Sends
  BY <1>0, <1>4, SMTT(40) DEF PasteLate, Executes, CutsEcho, Delay, StimulusOver, BeginWrite, Drains, Pump, Stamps, Sends
<1>5. CASE BeginWait \/ LooksForStamp \/ Weighs \/ RenodeWaits \/ Receives \/ ReceiveEnds
  BY <1>0, <1>5 DEF BeginWait, LooksForStamp, Weighs, RenodeWaits, Receives, ReceiveEnds, Pump
<1>6. CASE Collects \/ CollectOver \/ JudgesReal \/ JudgesRenode \/ Verdict \/ DeadlinePasses
  BY <1>0, <1>6 DEF Collects, CollectOver, JudgesReal, JudgesRenode, Verdict, DeadlinePasses, Pump
<1>7. CASE BoardMoves
  BY <1>0, <1>7 DEF BoardMoves, BoardStep, OldPrints, OldEnds, EntryReads, EntryPrints, EntryEnds, Arrives, Loses
<1>. QED BY <1>1, <1>2, <1>4, <1>5, <1>6, <1>7 DEF ReplNext, Runner

(* What the run has seen so far. *)
HistoryType ==
    /\ printed \in SUBSET Expect
    /\ waited \in Seq([needle : Expect, since : Nat \cup {NIL}])
    /\ arrived \in [Expect -> Nat \cup {NIL}]

\* What is remembered of waits and answers keeps its type.
LEMMA HistoryTypeStep ==
    ASSUME ReplType, ReplNext
    PROVE  HistoryType'
<1>0. HistoryType /\ triggers \in Nat /\ since \in Nat \cup {NIL}
  BY DEF ReplType, HistoryType
<1>. USE DEF Goto, Fails, env, run, kept, link, device, AtStep, HistoryType
<1>1. CASE Opens \/ Probes \/ ReadsProbe \/ ProbeUnknown \/ Wipes \/ Resets
  BY <1>0, <1>1 DEF Opens, Probes, ReadsProbe, ProbeUnknown, Wipes, Resets
<1>2. CASE Connects \/ SeesPrompt \/ SendsCtrlE \/ SeesBanner \/ NoBanner \/ PastesLine
  BY <1>0, <1>2 DEF Connects, SeesPrompt, SendsCtrlE, SeesBanner, NoBanner, PastesLine
<1>3. CASE PasteLate \/ Executes \/ CutsEcho \/ Delay \/ StimulusOver \/ BeginWrite \/ Stamps \/ Sends
  BY <1>0, <1>3 DEF PasteLate, Executes, CutsEcho, Delay, StimulusOver, BeginWrite, Stamps, Sends
<1>4. CASE BeginWait
  <2>1. Step \in Expect /\ waited' = Append(waited, [needle |-> Step, since |-> since])
    BY <1>4 DEF BeginWait
  <2>2. [needle |-> Step, since |-> since] \in [needle : Expect, since : Nat \cup {NIL}]
    BY <1>0, <2>1
  <2>3. waited' \in Seq([needle : Expect, since : Nat \cup {NIL}])
    BY <1>0, <2>1, <2>2, AppendProperties
  <2>. QED BY <1>0, <1>4, <2>3 DEF BeginWait
<1>5. CASE LooksForStamp \/ Weighs \/ RenodeWaits \/ Receives \/ ReceiveEnds
  BY <1>0, <1>5 DEF LooksForStamp, Weighs, RenodeWaits, Receives, ReceiveEnds
<1>6. CASE Collects \/ CollectOver \/ JudgesReal \/ JudgesRenode \/ Verdict \/ DeadlinePasses
  BY <1>0, <1>6 DEF Collects, CollectOver, JudgesReal, JudgesRenode, Verdict, DeadlinePasses
<1>7. CASE BoardMoves
  <2>1. Drained \in Nat
    BY <1>0 DEF Drained
  <2>2. arrived' \in [Expect -> Nat \cup {NIL}]
    BY <1>0, <1>7, <2>1 DEF BoardMoves
  <2>3. printed' \in SUBSET Expect /\ waited' = waited
    BY <1>0, <1>7 DEF BoardMoves, BoardStep, OldPrints, OldEnds, EntryReads, EntryPrints, EntryEnds, Arrives, Loses
  <2>. QED BY <1>0, <2>2, <2>3
<1>. QED BY <1>1, <1>2, <1>3, <1>4, <1>5, <1>6, <1>7 DEF ReplNext, Runner

\* The type invariant is inductive.
LEMMA TypeStep == ReplType /\ ReplNext => ReplType'
<1>. SUFFICES ASSUME ReplType, ReplNext PROVE ReplType'
  OBVIOUS
<1>1. line' \in Seq(Token) /\ driver' \in Seq(Token) /\ text' \in Seq(Note)
  BY AnyLinkStep, LinkTypeStep
<1>2. ControlType' /\ HistoryType' /\ CountType'
  BY <1>1, ControlTypeStep, HistoryTypeStep, CountTypeStep
<1>. QED BY <1>1, <1>2 DEF ReplType, ControlType, HistoryType, CountType

\* A stuttering step keeps it.
LEMMA TypeStutters == ReplType /\ UNCHANGED replVars => ReplType'
BY DEF ReplType, replVars, run, kept, env, device, link

(* The board obeys: where the runner is, and what the board does. *)
Before == {"start", "boot", "probe", "wipe", "reset", "nudge"}
Playing == {"step", "stamp", "send", "look", "weigh", "recv", "collect", "judge"}
Over == {"verdict", "done"}
OnlyReal == {"boot", "probe", "wipe", "reset", "cut", "stamp", "send", "look", "weigh"}

PlaceInv ==
    /\ target = "renode" => mode # "old" /\ flash = "none"
    /\ place \in Before => mode \in {"old", "prompt"}
    /\ place \in {"ctrl-e", "banner"} => mode \in {"old", "prompt", "paste"}
    /\ place = "paste" => i \in 1..3
    /\ place \in Playing \cup {"cut"} => mode \in {"entry", "prompt"}
    /\ place = "cut" => i = 1
    /\ place \in OnlyReal => target = "real"
    /\ place \in {"nudge", "recv"} => target = "renode"
    /\ place \in {"ctrl-e", "banner", "paste"} /\ target = "real" => mark = 0
    /\ place \in {"look", "weigh"} => i \in DOMAIN Stimulus /\ Stimulus[i] \in Expect
    /\ place \in {"stamp", "send"} => i \in DOMAIN Stimulus /\ Stimulus[i] = "write"
    /\ place \notin Over => error = "none"
    /\ place # "done" => ~passed
    /\ passed => error = "none"

\* The board and the runner begin together.
LEMMA PlaceInit == ReplInit => PlaceInv
BY DEF ReplInit, BoardInit, PlaceInv, Before, Playing, Over, OnlyReal

\* Each place of the runner has its mode of the board, and its targets.
LEMMA PlaceStep ==
    ASSUME ReplType, PlaceInv, ReplNext
    PROVE  PlaceInv'
<1>0. /\ target \in {"real", "renode"} /\ i \in Nat \ {0} /\ Len(Stimulus) \in Nat /\ DOMAIN Stimulus = 1..Len(Stimulus)
      /\ mode \in {"old", "prompt", "paste", "entry"} /\ passed \in BOOLEAN
  BY BoardAssumption DEF ReplType
<1>. USE DEF PlaceInv, Before, Playing, Over, OnlyReal, On, Goto, Fails, env, run, kept, link, device, AtStep
<1>1. CASE Opens \/ Probes \/ ReadsProbe \/ ProbeUnknown \/ Wipes \/ Resets
  BY <1>0, <1>1 DEF Opens, Probes, ReadsProbe, ProbeUnknown, Wipes, Resets, Pump, Interrupted, AfterReset
<1>2. CASE Connects \/ SeesPrompt \/ SendsCtrlE \/ SeesBanner \/ NoBanner \/ PastesLine
  BY <1>0, <1>2 DEF Connects, SeesPrompt, SendsCtrlE, SeesBanner, NoBanner, PastesLine, TakesPasted, TakesCtrlE, Pump, Source
<1>3. CASE PasteLate \/ Executes \/ CutsEcho \/ Delay \/ StimulusOver \/ BeginWrite \/ Stamps \/ Sends
  BY <1>0, <1>3 DEF PasteLate, Executes, CutsEcho, Delay, StimulusOver, BeginWrite, Stamps, Sends, Step, Drains, Pump
<1>4. CASE BeginWait \/ LooksForStamp \/ Weighs \/ RenodeWaits \/ Receives \/ ReceiveEnds
  BY <1>0, <1>4 DEF BeginWait, LooksForStamp, Weighs, RenodeWaits, Receives, ReceiveEnds, Step, Pump
<1>6. CASE Collects \/ CollectOver \/ JudgesReal \/ JudgesRenode \/ Verdict \/ DeadlinePasses
  BY <1>0, <1>6 DEF Collects, CollectOver, JudgesReal, JudgesRenode, Verdict, DeadlinePasses, Pump
<1>7. CASE BoardMoves
  BY <1>0, <1>7 DEF BoardMoves, BoardStep, OldPrints, OldEnds, EntryReads, EntryPrints, EntryEnds, Arrives, Loses
<1>. QED BY <1>1, <1>2, <1>3, <1>4, <1>6, <1>7 DEF ReplNext, Runner

(***************************************************************************)
(* The stream of a step.                                                   *)
(***************************************************************************)

\* A stream selects itself.
LEMMA SelectsItself ==
    ASSUME NEW s \in Seq(Token)
    PROVE  Selected(s, s)
<1>. DEFINE f == [x \in 1..Len(s) |-> x]
<1>1. Picks(f, s, s)
  BY DEF Picks
<1>. QED BY <1>1 DEF Selected

\* A step keeps the stream or takes some of it, or says something at its end.
LEMMA StreamStep ==
    ASSUME ReplType, ReplNext
    PROVE  /\ Stream \in Seq(Token) /\ Stream' \in Seq(Token)
           /\ \/ Selected(Stream', Stream)
              \/ \E t \in Token : Stream' = Stream \o <<t>> /\ MaySay(t)
              \/ Probes /\ Stream' = Stream \o ProbeAnswer(mode')
           /\ \/ Stream' = Stream \/ \E t \in Seq(Token) : Stream' = Stream \o t
              \/ Resets \/ CutsEcho \/ JudgesRenode \/ (BoardMoves /\ Loses /\ UNCHANGED <<text, place>>)
<1>0. line \in Seq(Token) /\ driver \in Seq(Token) /\ text \in Seq(Note)
  BY DEF ReplType
<1>1. LinkStep
  BY AnyLinkStep
<1>2. line' \in Seq(Token) /\ driver' \in Seq(Token) /\ text' \in Seq(Note)
  BY <1>1, LinkTypeStep
<1>3. Stream \in Seq(Token) /\ Stream' \in Seq(Token)
  BY <1>0, <1>2, StreamParts DEF Stream
<1>. DEFINE Goal == /\ \/ Selected(Stream', Stream)
                       \/ \E t \in Token : Stream' = Stream \o <<t>> /\ MaySay(t)
                       \/ Probes /\ Stream' = Stream \o ProbeAnswer(mode')
                    /\ \/ Stream' = Stream \/ \E t \in Seq(Token) : Stream' = Stream \o t
                       \/ Resets \/ CutsEcho \/ JudgesRenode \/ (BoardMoves /\ Loses /\ UNCHANGED <<text, place>>)
<1>4. Ingested \in Seq(Note) /\ Joint(Ingested, <<>>, line) = Stream /\ <<>> \in Seq(Token)
  BY IngestedType, IngestionKeepsStream
<1>5. Stream' = Stream => Goal
  <2>. SUFFICES ASSUME Stream' = Stream PROVE Goal
    OBVIOUS
  <2>1. Selected(Stream', Stream)
    BY <1>3, SelectsItself
  <2>. QED BY <2>1
<1>5a. Selected(Stream', Stream) /\ (Resets \/ CutsEcho \/ JudgesRenode \/ (BoardMoves /\ Loses /\ UNCHANGED <<text, place>>)) => Goal
  OBVIOUS
<1>5b. ASSUME NEW t \in Token, Stream' = Stream \o <<t>>, MaySay(t) PROVE Goal
  <2>1. <<t>> \in Seq(Token)
    OBVIOUS
  <2>. QED BY <1>5b, <2>1
<1>5c. Probes /\ Stream' = Stream \o ProbeAnswer(mode') => Goal
  <2>. SUFFICES ASSUME Probes, Stream' = Stream \o ProbeAnswer(mode') PROVE Goal
    OBVIOUS
  <2>1. ProbeAnswer(mode') \in Seq(Token)
    BY ProbeAnswerType
  <2>. QED BY <2>1
<1>. SUFFICES Goal
  BY <1>3
<1>. HIDE DEF Goal
<1>6. CASE Quietly
  <2>1. Stream' = Stream
    BY <1>6 DEF Quietly, Stream
  <2>. QED BY <1>5, <2>1
<1>7. CASE Ingests
  <2>1. Stream' = Joint(Ingested, <<>>, line)
    BY <1>7 DEF Ingests, Stream
  <2>. QED BY <1>4, <1>5, <2>1
<1>8. CASE Speaks
  <2>1. PICK t \in Token : line' = line \o <<t>> /\ MaySay(t)
    BY <1>8 DEF Speaks
  <2>2. Stream' = Joint(text, driver, line \o <<t>>)
    BY <1>8, <2>1 DEF Speaks, Stream
  <2>3. <<t>> \in Seq(Token)
    OBVIOUS
  <2>4. Stream' = Stream \o <<t>>
    BY <1>0, <2>2, <2>3, SpeechAppends DEF Stream
  <2>. QED BY <1>5b, <2>1, <2>4
<1>9. CASE Probes
  <2>1. text' = Ingested /\ driver' = <<>> /\ (line' = line \/ line' = line \o ProbeAnswer(mode'))
    BY <1>9 DEF Probes, Says
  <2>2. CASE line' = line
    <3>1. Stream' = Joint(Ingested, <<>>, line)
      BY <2>1, <2>2 DEF Stream
    <3>. QED BY <1>4, <1>5, <3>1
  <2>3. CASE line' = line \o ProbeAnswer(mode')
    <3>1. Stream' = Joint(Ingested, <<>>, line \o ProbeAnswer(mode'))
      BY <2>1, <2>3 DEF Stream
    <3>2. ProbeAnswer(mode') \in Seq(Token)
      BY ProbeAnswerType
    <3>3. Stream' = Stream \o ProbeAnswer(mode')
      BY <1>0, <1>4, <3>1, <3>2, SpeechAppends, ZenonT(40)
    <3>. QED BY <1>9, <3>3, <1>5c
  <2>. QED BY <2>1, <2>2, <2>3
<1>10. CASE Resets
  <2>1. text' = <<>> /\ driver' = <<>> /\ line' = line
    BY <1>10 DEF Resets
  <2>2. Len(Ingested) \in 0..Len(Ingested) /\ Since(Ingested, Len(Ingested)) = <<>>
    BY <1>4 DEF Since
  <2>3. Stream' = Joint(Since(Ingested, Len(Ingested)), <<>>, line)
    BY <2>1, <2>2 DEF Stream
  <2>4. Selected(Stream', Stream)
    BY <1>0, <1>4, <2>2, <2>3, CutSelects
  <2>. QED BY <1>5a, <1>10, <2>4
<1>11. CASE CutsEcho
  <2>1. driver' = <<>> /\ line' = line
    BY <1>11 DEF CutsEcho
  <2>2. text' = Ingested \/ (Has(Ingested, "last") /\ text' = After(Ingested, "last"))
    BY <1>11 DEF CutsEcho
  <2>3. CASE text' = Ingested
    <3>1. Stream' = Joint(Ingested, <<>>, line)
      BY <2>1, <2>3 DEF Stream
    <3>. QED BY <1>4, <1>5, <3>1
  <2>4. CASE Has(Ingested, "last") /\ text' = After(Ingested, "last")
    <3>1. LastAt(Ingested, "last") \in 0..Len(Ingested)
      <4>1. LastAt(Ingested, "last") \in 1..Len(Ingested)
        BY <1>4, <2>4, CutType
      <4>. QED BY <1>4, <4>1
    <3>2. Stream' = Joint(Since(Ingested, LastAt(Ingested, "last")), <<>>, line)
      BY <2>1, <2>4 DEF Stream, After
    <3>3. Selected(Stream', Stream)
      BY <1>0, <1>4, <3>1, <3>2, CutSelects
    <3>. QED BY <1>5a, <1>11, <3>3
  <2>. QED BY <2>2, <2>3, <2>4
<1>12. CASE JudgesRenode
  <2>1. driver' = driver /\ line' = line
    BY <1>12 DEF JudgesRenode, link
  <2>2. text' = text \/ (Has(text, "last") /\ text' = After(text, "last"))
    BY <1>12 DEF JudgesRenode
  <2>3. CASE text' = text
    <3>1. Stream' = Stream
      BY <2>1, <2>3 DEF Stream
    <3>. QED BY <1>5, <3>1
  <2>4. CASE Has(text, "last") /\ text' = After(text, "last")
    <3>1. LastAt(text, "last") \in 0..Len(text)
      <4>1. LastAt(text, "last") \in 1..Len(text)
        BY <1>0, <2>4, CutType
      <4>. QED BY <1>0, <4>1
    <3>2. Stream' = Joint(Since(text, LastAt(text, "last")), driver, line)
      BY <2>1, <2>4 DEF Stream, After
    <3>3. Selected(Stream', Stream)
      BY <1>0, <3>1, <3>2, CutSelects DEF Stream
    <3>. QED BY <1>5a, <1>12, <3>3
  <2>. QED BY <2>2, <2>3, <2>4
<1>13. CASE BoardMoves /\ Arrives /\ UNCHANGED <<text, place>>
  <2>1. Stream' = Joint(text, Append(driver, Head(line)), Tail(line)) /\ line # <<>>
    BY <1>13 DEF Arrives, Stream
  <2>2. Stream' = Stream
    BY <2>1, ArrivalKeepsStream
  <2>. QED BY <1>5, <2>2
<1>14. CASE BoardMoves /\ Loses /\ UNCHANGED <<text, place>>
  <2>1. PICK k \in DOMAIN line : line' = RemoveAt(line, k)
    BY <1>14 DEF Loses
  <2>2. Stream' = Joint(text, driver, RemoveAt(line, k))
    BY <1>14, <2>1 DEF Loses, Stream
  <2>3. Selected(Stream', Stream)
    BY <1>0, <2>2, LossSelects DEF Stream
  <2>. QED BY <1>5a, <1>14, <2>3
<1>. QED
  BY <1>1, <1>6, <1>7, <1>8, <1>9, <1>10, <1>11, <1>12, <1>13, <1>14 DEF LinkStep

(***************************************************************************)
(* The order of the stream: the old program, the echo, the entry.          *)
(***************************************************************************)
(* The rank of a token: the old program and the prompt first, then the     *)
(* banner, the first and the last line of the echo, then the entry. A      *)
(* prompt may come anywhere, and the entry prints each answer once.        *)
Rank(t) ==
    IF t.by = "entry" THEN 4
    ELSE IF t.is = "banner" THEN 1 ELSE IF t.is = "first" THEN 2 ELSE IF t.is = "last" THEN 3 ELSE 0
Low(t, k) == t.is = "prompt" \/ Rank(t) <= k
Follows(t, u) ==
    \/ t.is = "prompt" \/ u.is = "prompt"
    \/ Rank(t) < Rank(u)
    \/ Rank(t) = 0 /\ Rank(u) = 0
    \/ Rank(t) = 4 /\ Rank(u) = 4 /\ t.is # u.is
Ordered(s) == \A x, y \in 1..Len(s) : x < y => Follows(s[x], s[y])

(* What has been said so far, by where the runner is.                      *)
HeardInv ==
    /\ \A t \in ToSet(Stream) : t.by = "entry" => t.is \in printed
    /\ mode = "old" \/ place \in Before => \A t \in ToSet(Stream) : Low(t, 0)
    /\ place \in {"ctrl-e", "banner"} =>
         \A t \in ToSet(Stream) : Low(t, IF mode = "paste" THEN 1 ELSE 0)
    /\ place = "paste" => mode = "paste" /\ \A t \in ToSet(Stream) : Low(t, i)
    /\ target = "renode" =>
         \A t \in ToSet(Stream) : t.by = "entry" \/ t.is \in {"prompt", "banner", "first", "last"}

\* The tokens of a sequence and of a selection of it.
LEMMA SetOfStream ==
    ASSUME NEW s \in Seq(Token)
    PROVE  /\ ToSet(s) \subseteq Token
           /\ ToSet(s) = {s[x] : x \in 1..Len(s)}
           /\ \A r \in Seq(Token) : ToSet(s \o r) = ToSet(s) \cup ToSet(r)
           /\ \A t \in Token : ToSet(s \o <<t>>) = ToSet(s) \cup {t}
           /\ \A r \in Seq(Token) : Selected(r, s) => ToSet(r) \subseteq ToSet(s)
<1>1. \A r \in Seq(Token) : ToSet(r) = {r[x] : x \in 1..Len(r)}
  BY DEF ToSet
<1>2. ToSet(s) \subseteq Token
  BY ElementOfSeq, <1>1
<1>3. ASSUME NEW r \in Seq(Token) PROVE ToSet(s \o r) = ToSet(s) \cup ToSet(r)
  <2>1. s \o r \in Seq(Token) /\ Len(s \o r) = Len(s) + Len(r)
        /\ \A x \in 1..(Len(s) + Len(r)) : (s \o r)[x] = IF x <= Len(s) THEN s[x] ELSE r[x - Len(s)]
    BY ConcatProperties
  <2>. DEFINE c == s \o r
  <2>. HIDE DEF c
  <2>2. Len(s) \in Nat /\ Len(r) \in Nat /\ Len(c) = Len(s) + Len(r)
    BY <2>1 DEF c
  <2>3. \A x \in 1..Len(s) : x \in 1..Len(c) /\ c[x] = s[x]
    BY <2>1, <2>2 DEF c
  <2>4. \A x \in 1..Len(r) : x + Len(s) \in 1..Len(c) /\ c[x + Len(s)] = r[x]
    BY <2>1, <2>2 DEF c
  <2>5. \A x \in 1..Len(c) : x \in 1..Len(s) \/ (x - Len(s) \in 1..Len(r) /\ c[x] = r[x - Len(s)])
    BY <2>1, <2>2 DEF c
  <2>6. {c[x] : x \in 1..Len(c)} = {s[x] : x \in 1..Len(s)} \cup {r[x] : x \in 1..Len(r)}
    <3>1. ASSUME NEW x \in 1..Len(c) PROVE c[x] \in {s[y] : y \in 1..Len(s)} \cup {r[y] : y \in 1..Len(r)}
      BY <2>3, <2>5
    <3>2. ASSUME NEW x \in 1..Len(s) PROVE s[x] \in {c[y] : y \in 1..Len(c)}
      BY <2>3
    <3>3. ASSUME NEW x \in 1..Len(r) PROVE r[x] \in {c[y] : y \in 1..Len(c)}
      BY <2>4
    <3>. QED BY <3>1, <3>2, <3>3
  <2>7. c \in Seq(Token)
    BY <2>1 DEF c
  <2>8. ToSet(c) = ToSet(s) \cup ToSet(r)
    BY <1>1, <2>6, <2>7
  <2>. QED BY <2>8 DEF c
<1>4. ASSUME NEW t \in Token PROVE ToSet(s \o <<t>>) = ToSet(s) \cup {t}
  <2>1. <<t>> \in Seq(Token)
    OBVIOUS
  <2>2. ToSet(<<t>>) = {t}
    BY DEF ToSet
  <2>. QED BY <1>3, <2>1, <2>2
<1>5. ASSUME NEW r \in Seq(Token), Selected(r, s) PROVE ToSet(r) \subseteq ToSet(s)
  <2>1. PICK f : Picks(f, r, s)
    BY <1>5 DEF Selected
  <2>2. \A x \in 1..Len(r) : f[x] \in 1..Len(s) /\ r[x] = s[f[x]]
    BY <2>1 DEF Picks
  <2>. QED BY <1>1, <2>2
<1>. QED BY <1>1, <1>2, <1>3, <1>4, <1>5

\* The rank of what a step may say.
LEMMA RankOfSpeech ==
    ASSUME NEW t \in Token, MaySay(t)
    PROVE  \/ t.is = "prompt"
           \/ /\ mode = "old" /\ mode' = "old" /\ place' = place
              /\ Rank(t) = 0 /\ t.by = "old"
           \/ /\ mode = "prompt" /\ mode' = "paste" /\ place = "ctrl-e" /\ place' = "banner"
              /\ Rank(t) = 1 /\ t.is = "banner" /\ t.by = "board"
           \/ /\ place = "paste" /\ place' = "paste" /\ i \in 1..2 /\ i' = i + 1
              /\ Rank(t) = i + 1 /\ t.is \in {"first", "last"} /\ t.by = "board"
           \/ /\ mode = "entry" /\ mode' = "entry" /\ place' = place
              /\ Rank(t) = 4 /\ t.by = "entry" /\ t.is \in Expect /\ t.is \notin printed
              /\ t.is \in printed' /\ (entry = "honest" => asked.read >= AskedBy(t.is))
<1>1. CASE t = Tok("prompt", "board")
  BY <1>1 DEF Tok
<1>2. CASE mode = "old" /\ mode' = "old" /\ place' = place /\ t.by = "old" /\ t.is \in Expect \cup {"noise"}
  BY <1>2, WordsAreNoLiterals DEF Rank, Words
<1>3. CASE mode = "prompt" /\ mode' = "paste" /\ place = "ctrl-e" /\ place' = "banner" /\ t = Tok("banner", "board")
  BY <1>3 DEF Rank, Tok
<1>4. CASE place = "paste" /\ place' = "paste" /\ i \in 1..2 /\ i' = i + 1 /\ t = Tok(Source[i], "board")
  BY <1>4 DEF Rank, Tok, Source
<1>5. CASE /\ mode = "entry" /\ mode' = "entry" /\ place' = place
           /\ \E p \in Expect \ printed : t = Tok(p, "entry") /\ printed' = printed \cup {p}
           /\ entry = "honest" => asked.read >= AskedBy(t.is)
  BY <1>5 DEF Rank, Tok
<1>. QED BY <1>1, <1>2, <1>3, <1>4, <1>5 DEF MaySay

\* The answer to the probe is the board's own talk.
LEMMA ProbeAnswerTokens ==
    ASSUME NEW now, NEW t \in ToSet(ProbeAnswer(now))
    PROVE  t.by = "board" /\ t.is \in {"absent", "mark", "end"} \cup HexDigits /\ Rank(t) = 0
<1>1. \A d \in DOMAIN Content : Content[d] \in HexDigits
  BY BoardAssumption, ElementOfSeq
<1>2. Len(Content) \in Nat /\ DOMAIN Content = 1..Len(Content)
  BY BoardAssumption
<1>. DEFINE a == <<Tok("mark", "board")>>
            b == [d \in DOMAIN Content |-> Tok(Content[d], "board")]
            c == <<Tok("end", "board")>>
            e == <<Tok("absent", "board")>>
<1>3. a \in Seq(Token) /\ b \in Seq(Token) /\ c \in Seq(Token) /\ e \in Seq(Token)
  <2>1. b \in Seq(Token)
    BY <1>1, <1>2 DEF Tok, Token, Literal
  <2>. QED BY <2>1 DEF Tok, Token, Literal, Words
<1>4. ToSet(a) = {Tok("mark", "board")} /\ ToSet(c) = {Tok("end", "board")} /\ ToSet(e) = {Tok("absent", "board")}
  BY DEF ToSet
<1>5. \A u \in ToSet(b) : u.by = "board" /\ u.is \in HexDigits
  BY <1>1 DEF ToSet, Tok
<1>. HIDE DEF a, b, c, e
<1>6. a \o b \in Seq(Token)
  BY <1>3
<1>7. ToSet((a \o b) \o c) = ToSet(a) \cup ToSet(b) \cup ToSet(c)
  BY <1>3, <1>6, SetOfStream, ZenonT(40)
<1>8. ToSet(<<>>) = {}
  BY DEF ToSet
<1>9. ProbeAnswer(now) \in {<<>>, e, (a \o b) \o c}
  BY DEF ProbeAnswer, a, b, c, e
<1>10. t \in ToSet(e) \/ t \in ToSet(a) \/ t \in ToSet(b) \/ t \in ToSet(c)
  BY <1>7, <1>8, <1>9
<1>11. t.by = "board" /\ t.is \in {"absent", "mark", "end"} \cup HexDigits
  BY <1>4, <1>5, <1>10 DEF Tok
<1>12. Rank(t) = 0
  BY <1>11 DEF Rank, HexDigits
<1>. QED BY <1>11, <1>12

\* What a step does to place, mode and the step at hand.
LEMMA PlaceMoves ==
    ASSUME ReplType, PlaceInv, ReplNext
    PROVE  /\ target' = target /\ printed \subseteq printed'
           /\ place' \in Before => place \in Before
           /\ mode' = "old" => mode = "old" \/ place = "reset"
           /\ place' \in {"ctrl-e", "banner"} => place \in Before \cup {"ctrl-e", "banner"}
           /\ place \in {"ctrl-e", "banner"} /\ place' # "paste" /\ mode = "paste" => mode' = "paste"
           /\ mode' = "paste" => mode = "paste" \/ SendsCtrlE
           /\ place' = "paste" => \/ place = "paste" /\ i' >= i /\ (mode = "paste" => mode' = "paste")
                                  \/ SeesBanner /\ mode' = mode /\ i' = 1 /\ place = "banner"
<1>0. i \in Nat
  BY DEF ReplType
<1>. USE <1>0 DEF PlaceInv, Before, Playing, Over, OnlyReal, On, Goto, Fails, env, run, kept, link, device, AtStep
<1>1. CASE Opens \/ Probes \/ ReadsProbe \/ ProbeUnknown \/ Wipes \/ Resets
  <2>1. CASE Opens
    BY <2>1 DEF Opens, Interrupted, AfterReset
  <2>2. CASE Probes
    BY <2>2 DEF Probes, Interrupted, AfterReset
  <2>3. CASE ReadsProbe
    BY <2>3 DEF ReadsProbe, Interrupted, AfterReset
  <2>4. CASE ProbeUnknown
    BY <2>4 DEF ProbeUnknown, Interrupted, AfterReset
  <2>5. CASE Wipes
    BY <2>5 DEF Wipes, Interrupted, AfterReset
  <2>6. CASE Resets
    BY <2>6 DEF Resets, Interrupted, AfterReset
  <2>. QED BY <1>1, <2>1, <2>2, <2>3, <2>4, <2>5, <2>6
<1>2. CASE Connects \/ SeesPrompt \/ SendsCtrlE \/ SeesBanner \/ NoBanner \/ PastesLine
  BY <1>2 DEF Connects, SeesPrompt, SendsCtrlE, SeesBanner, NoBanner, PastesLine, TakesCtrlE
<1>3. CASE PasteLate \/ Executes \/ CutsEcho \/ Delay \/ StimulusOver \/ BeginWrite \/ Stamps \/ Sends
  BY <1>3 DEF PasteLate, Executes, CutsEcho, Delay, StimulusOver, BeginWrite, Stamps, Sends
<1>4. CASE BeginWait \/ LooksForStamp \/ Weighs \/ RenodeWaits \/ Receives \/ ReceiveEnds
  BY <1>4 DEF BeginWait, LooksForStamp, Weighs, RenodeWaits, Receives, ReceiveEnds
<1>6. CASE Collects \/ CollectOver \/ JudgesReal \/ JudgesRenode \/ Verdict \/ DeadlinePasses
  BY <1>6 DEF Collects, CollectOver, JudgesReal, JudgesRenode, Verdict, DeadlinePasses
<1>7. CASE BoardMoves
  <2>1. target' = target /\ place' = place /\ i' = i
    BY <1>7 DEF BoardMoves
  <2>2. printed \subseteq printed' /\ (mode' = mode \/ (mode \in {"old", "entry"} /\ mode' = "prompt"))
    BY <1>7 DEF BoardMoves, BoardStep, OldPrints, OldEnds, EntryReads, EntryPrints, EntryEnds, Arrives, Loses
  <2>. QED BY <2>1, <2>2
<1>. QED BY <1>1, <1>2, <1>3, <1>4, <1>6, <1>7 DEF ReplNext, Runner

\* What is in the text is in the stream.
LEMMA TextInStream ==
    ASSUME NEW t \in Seq(Note), NEW d \in Seq(Token), NEW l \in Seq(Token)
    PROVE  /\ \A u \in ToSet(t) : Tok(u.is, u.by) \in ToSet(Joint(t, d, l))
           /\ ToSet(d) \subseteq ToSet(Joint(t, d, l)) /\ ToSet(l) \subseteq ToSet(Joint(t, d, l))
           /\ \A v \in ToSet(Joint(t, d, l)) :
                v \in ToSet(d) \/ v \in ToSet(l) \/ \E u \in ToSet(t) : v = Tok(u.is, u.by)
<1>. DEFINE s == Joint(t, d, l)
<1>1. /\ s \in Seq(Token)
      /\ \A x \in DOMAIN t : x \in DOMAIN s /\ s[x] = Tok(t[x].is, t[x].by)
      /\ \A x \in DOMAIN d : Len(t) + x \in DOMAIN s /\ s[Len(t) + x] = d[x]
      /\ \A x \in DOMAIN l : Len(t) + Len(d) + x \in DOMAIN s /\ s[Len(t) + Len(d) + x] = l[x]
  BY StreamParts
<1>2. ASSUME NEW x \in DOMAIN s
      PROVE  \/ x \in DOMAIN t
             \/ \E y \in DOMAIN d : x = Len(t) + y
             \/ \E y \in DOMAIN l : x = Len(t) + Len(d) + y
  BY StreamPlaces
<1>. HIDE DEF s
<1>3. /\ ToSet(s) = {s[x] : x \in DOMAIN s} /\ ToSet(t) = {t[x] : x \in DOMAIN t}
      /\ ToSet(d) = {d[x] : x \in DOMAIN d} /\ ToSet(l) = {l[x] : x \in DOMAIN l}
  BY DEF ToSet
<1>4. \A u \in ToSet(t) : Tok(u.is, u.by) \in ToSet(s)
  BY <1>1, <1>3
<1>5. ToSet(d) \subseteq ToSet(s) /\ ToSet(l) \subseteq ToSet(s)
  BY <1>1, <1>3
<1>6. ASSUME NEW v \in ToSet(s)
      PROVE  v \in ToSet(d) \/ v \in ToSet(l) \/ \E u \in ToSet(t) : v = Tok(u.is, u.by)
  BY <1>1, <1>2, <1>3
<1>. QED BY <1>4, <1>5, <1>6 DEF s

\* What the runner looks for in the text is in the set of its tokens.
LEMMA HasIsMember ==
    ASSUME NEW T, NEW t \in Seq(T), NEW what
    PROVE  /\ Has(t, what) <=> \E u \in ToSet(t) : u.is = what
           /\ \A k \in Nat : Has(Since(t, k), what) => Has(t, what)
<1>1. Has(t, what) <=> \E u \in ToSet(t) : u.is = what
  BY DEF Has, ToSet
<1>2. ASSUME NEW k \in Nat, Has(Since(t, k), what) PROVE Has(t, what)
  <2>1. PICK x \in DOMAIN Since(t, k) : Since(t, k)[x].is = what
    BY <1>2 DEF Has
  <2>2. x + k \in DOMAIN t /\ Since(t, k)[x] = t[x + k]
    BY <2>1 DEF Since
  <2>. QED BY <2>1, <2>2 DEF Has
<1>. QED BY <1>1, <1>2

\* At the start nothing has been said but by the old program.
LEMMA HeardInit == ReplInit => HeardInv /\ Ordered(Stream)
<1>. SUFFICES ASSUME ReplInit PROVE HeardInv /\ Ordered(Stream)
  OBVIOUS
<1>1. Stream = <<>>
  BY DEF ReplInit, BoardInit, Stream, Joint, Plain
<1>2. ToSet(Stream) = {} /\ Len(Stream) = 0
  BY <1>1 DEF ToSet
<1>. QED BY <1>2 DEF HeardInv, Ordered, ReplInit

\* A step keeps what has been said in the bounds of its place.
LEMMA HeardStep ==
    ASSUME ReplType, ReplType', PlaceInv, HeardInv, ReplNext
    PROVE  HeardInv'
<1>0. i \in Nat /\ i' \in Nat /\ printed \subseteq Expect /\ text' \in Seq(Note) /\ driver' \in Seq(Token) /\ line' \in Seq(Token)
      /\ mark' \in Nat
  BY DEF ReplType
<1>1. Stream \in Seq(Token) /\ Stream' \in Seq(Token)
  BY StreamStep
<1>2. /\ target' = target /\ printed \subseteq printed'
      /\ place' \in Before => place \in Before
      /\ mode' = "old" => mode = "old" \/ place = "reset"
      /\ place' \in {"ctrl-e", "banner"} => place \in Before \cup {"ctrl-e", "banner"}
      /\ place \in {"ctrl-e", "banner"} /\ place' # "paste" /\ mode = "paste" => mode' = "paste"
      /\ mode' = "paste" => mode = "paste" \/ SendsCtrlE
      /\ place' = "paste" => \/ place = "paste" /\ i' >= i /\ (mode = "paste" => mode' = "paste")
                             \/ SeesBanner /\ mode' = mode /\ i' = 1 /\ place = "banner"
  BY PlaceMoves
<1>3. \/ ToSet(Stream') \subseteq ToSet(Stream)
      \/ \E t \in Token : ToSet(Stream') = ToSet(Stream) \cup {t} /\ MaySay(t)
      \/ Probes /\ ToSet(Stream') = ToSet(Stream) \cup ToSet(ProbeAnswer(mode'))
  <2>1. CASE Selected(Stream', Stream)
    BY <1>1, <2>1, SetOfStream
  <2>2. ASSUME NEW t \in Token, Stream' = Stream \o <<t>>, MaySay(t)
        PROVE  ToSet(Stream') = ToSet(Stream) \cup {t}
    BY <1>1, <2>2, SetOfStream
  <2>3. Stream' = Stream \o ProbeAnswer(mode') => ToSet(Stream') = ToSet(Stream) \cup ToSet(ProbeAnswer(mode'))
    BY <1>1, ProbeAnswerType, SetOfStream
  <2>. QED BY <2>1, <2>2, <2>3, StreamStep
<1>. DEFINE old == ToSet(Stream)
            new == ToSet(Stream')
<1>4. old \subseteq Token /\ new \subseteq Token
  BY <1>1, SetOfStream
<1>4a. \A t \in Token : Rank(t) \in 0..4
  BY DEF Rank
<1>5. ASSUME NEW t \in new
      PROVE  \/ t \in old
             \/ MaySay(t)
             \/ Probes /\ t.by = "board" /\ Rank(t) = 0
  BY <1>3, ProbeAnswerTokens
<1>6. \A t \in old : t.by = "entry" => t.is \in printed
  BY DEF HeardInv
<1>7. ASSUME NEW t \in new, t.by = "entry" PROVE t.is \in printed'
  <2>1. CASE t \in old
    BY <1>2, <1>6, <1>7, <2>1
  <2>2. CASE MaySay(t)
    <3>1. t \in Token
      BY <1>4
    <3>. QED BY <1>7, <2>2, <3>1 DEF MaySay, Tok
  <2>. QED BY <1>5, <1>7, <2>1, <2>2
<1>8. ASSUME mode' = "old" \/ place' \in Before, NEW t \in new PROVE Low(t, 0)
  <2>1. CASE t \in old
    BY <1>2, <1>8, <2>1 DEF HeardInv, Before
  <2>2. CASE MaySay(t)
    <3>1. t \in Token
      BY <1>4
    <3>2. mode \in {"entry", "paste"} => place \notin Before
      BY DEF PlaceInv
    <3>3. place = "paste" => mode = "paste"
      BY DEF HeardInv
    <3>. QED BY <1>2, <1>8, <2>2, <3>1, <3>2, <3>3, RankOfSpeech DEF Low, Before
  <2>3. CASE Probes /\ t.by = "board" /\ Rank(t) = 0
    BY <2>3 DEF Low
  <2>. QED BY <1>5, <2>1, <2>2, <2>3
<1>9. ASSUME place' \in {"ctrl-e", "banner"}, NEW t \in new
      PROVE  Low(t, IF mode' = "paste" THEN 1 ELSE 0)
  <2>0. Rank(t) \in 0..4
    BY <1>4, <1>4a
  <2>1. CASE t \in old
    <3>1. CASE place \in Before
      <4>1. Low(t, 0)
        BY <2>1, <3>1 DEF HeardInv
      <4>. QED BY <2>0, <4>1 DEF Low
    <3>2. CASE place \in {"ctrl-e", "banner"}
      <4>1. Low(t, IF mode = "paste" THEN 1 ELSE 0)
        BY <2>1, <3>2 DEF HeardInv
      <4>2. mode = "paste" => mode' = "paste"
        BY <1>2, <1>9, <3>2
      <4>. QED BY <2>0, <4>1, <4>2 DEF Low
    <3>. QED BY <1>2, <1>9, <3>1, <3>2
  <2>2. CASE MaySay(t)
    <3>1. t \in Token
      BY <1>4
    <3>2. mode = "entry" /\ place' = place => FALSE
      BY <1>9 DEF PlaceInv
    <3>. QED BY <1>9, <2>2, <2>0, <3>1, <3>2, RankOfSpeech DEF Low
  <2>3. CASE Probes /\ t.by = "board" /\ Rank(t) = 0
    BY <2>3 DEF Low
  <2>. QED BY <1>5, <2>1, <2>2, <2>3
<1>10. ASSUME place' = "paste" PROVE mode' = "paste" /\ \A t \in new : Low(t, i')
  <2>1. CASE place = "paste" /\ i' >= i /\ (mode = "paste" => mode' = "paste")
    <3>1. mode = "paste" /\ \A t \in old : Low(t, i)
      BY <2>1 DEF HeardInv
    <3>2. ASSUME NEW t \in new PROVE Low(t, i')
      <4>0. Rank(t) \in 0..4 /\ t \in Token
        BY <1>4, <1>4a
      <4>1. CASE t \in old
        <5>1. Low(t, i)
          BY <3>1, <4>1
        <5>. QED BY <1>0, <2>1, <4>0, <5>1 DEF Low
      <4>2. CASE MaySay(t)
        BY <1>0, <2>1, <3>1, <4>0, <4>2, RankOfSpeech DEF Low
      <4>3. CASE Probes /\ t.by = "board" /\ Rank(t) = 0
        BY <1>0, <4>3 DEF Low
      <4>. QED BY <1>5, <4>1, <4>2, <4>3
    <3>. QED BY <2>1, <3>1, <3>2
  <2>2. CASE SeesBanner /\ mode' = mode /\ i' = 1 /\ place = "banner"
    <3>1. Has(Since(text', mark'), "banner") /\ mark' = mark
      BY <1>10, <2>2 DEF SeesBanner, Goto
    <3>2. Has(text', "banner")
      BY <1>0, <3>1, HasIsMember
    <3>3. PICK u \in ToSet(text') : u.is = "banner"
      BY <1>0, <3>2, HasIsMember
    <3>4. Tok(u.is, u.by) \in new
      <4>1. Tok(u.is, u.by) \in ToSet(Joint(text', driver', line'))
        BY <1>0, TextInStream
      <4>. QED BY <4>1 DEF Stream
    <3>5. \A t \in new : t \in old
      <4>1. ~Probes /\ \A t \in new : ~MaySay(t) \/ t.is = "prompt"
        <5>1. place' = "paste" /\ place = "banner" /\ mode' = mode
          BY <1>10, <2>2
        <5>2. \A t \in Token : MaySay(t) => t.is = "prompt"
          BY <5>1, RankOfSpeech
        <5>. QED BY <1>4, <5>1, <5>2 DEF Probes, On
      <4>2. Stream' = Stream
        <5>1. driver' = <<>> /\ text' = Ingested /\ line' = line
          BY <2>2 DEF SeesBanner, Pump
        <5>. QED BY <5>1, IngestionKeepsStream DEF Stream
      <4>. QED BY <4>2
    <3>6. \A t \in old : Low(t, IF mode = "paste" THEN 1 ELSE 0)
      BY <2>2 DEF HeardInv
    <3>. DEFINE v == Tok(u.is, u.by)
    <3>7. v \in old /\ v.is = "banner"
      BY <3>3, <3>4, <3>5 DEF Tok
    <3>. HIDE DEF v
    <3>8. "banner" \notin printed /\ v.by # "entry"
      BY <1>0, <1>6, <3>7, WordsAreNoLiterals DEF Words
    <3>9. Rank(v) = 1
      BY <3>7, <3>8 DEF Rank
    <3>10. mode = "paste"
      BY <3>6, <3>7, <3>9 DEF Low
    <3>. QED BY <2>2, <3>5, <3>6, <3>10
  <2>. QED BY <1>2, <1>10, <2>1, <2>2
<1>11. ASSUME target' = "renode", NEW t \in new
       PROVE  t.by = "entry" \/ t.is \in {"prompt", "banner", "first", "last"}
  <2>1. CASE t \in old
    BY <1>2, <1>11, <2>1 DEF HeardInv
  <2>2. CASE MaySay(t)
    <3>1. t \in Token
      BY <1>4
    <3>2. mode # "old"
      BY <1>2, <1>11 DEF PlaceInv
    <3>. QED BY <2>2, <3>1, <3>2, RankOfSpeech
  <2>3. CASE Probes
    BY <1>2, <1>11, <2>3 DEF Probes, On
  <2>. QED BY <1>5, <2>1, <2>2, <2>3
<1>. QED BY <1>7, <1>8, <1>9, <1>10, <1>11 DEF HeardInv

\* A step keeps the order: selections do, and what is said last ranks last.
LEMMA OrderStep ==
    ASSUME ReplType, ReplType', PlaceInv, HeardInv, HeardInv', Ordered(Stream), ReplNext
    PROVE  Ordered(Stream')
<1>1. Stream \in Seq(Token) /\ Stream' \in Seq(Token)
  BY StreamStep
<1>2. CASE Selected(Stream', Stream)
  <2>1. PICK f : Picks(f, Stream', Stream)
    BY <1>2 DEF Selected
  <2>2. ASSUME NEW x \in 1..Len(Stream'), NEW y \in 1..Len(Stream'), x < y
        PROVE  Follows(Stream'[x], Stream'[y])
    <3>1. f[x] \in 1..Len(Stream) /\ f[y] \in 1..Len(Stream) /\ f[x] < f[y]
      BY <2>1, <2>2 DEF Picks
    <3>2. Stream'[x] = Stream[f[x]] /\ Stream'[y] = Stream[f[y]]
      BY <2>1 DEF Picks
    <3>. QED BY <3>1, <3>2 DEF Ordered
  <2>. QED BY <2>2 DEF Ordered
<1>3. ASSUME NEW t \in Token, Stream' = Stream \o <<t>>, MaySay(t)
      PROVE  Ordered(Stream')
  <2>1. Len(Stream') = Len(Stream) + 1 /\ Stream'[Len(Stream) + 1] = t
        /\ \A x \in 1..Len(Stream) : Stream'[x] = Stream[x]
    BY <1>1, <1>3
  <2>2. ASSUME NEW x \in 1..Len(Stream) PROVE Follows(Stream[x], t)
    <3>. DEFINE u == Stream[x]
    <3>1. u \in ToSet(Stream) /\ u \in Token
      BY <1>1, <2>2, SetOfStream
    <3>. HIDE DEF u
    <3>2. Rank(u) \in 0..4 /\ Rank(u) = 4 => u.by = "entry"
      BY DEF Rank
    <3>3. u.by = "entry" => u.is \in printed
      BY <3>1 DEF HeardInv
    <3>3a. Rank(u) \in 0..4
      BY DEF Rank
    <3>4. CASE t.is = "prompt"
      BY <3>4 DEF Follows, u
    <3>5. CASE mode = "old" /\ Rank(t) = 0
      <4>1. Low(u, 0)
        BY <3>1, <3>5 DEF HeardInv
      <4>. QED BY <3>3a, <3>5, <4>1 DEF Follows, Low, u
    <3>6. CASE mode = "prompt" /\ place = "ctrl-e" /\ Rank(t) = 1
      <4>1. Low(u, 0)
        BY <3>1, <3>6 DEF HeardInv
      <4>. QED BY <3>3a, <3>6, <4>1 DEF Follows, Low, u
    <3>7. CASE place = "paste" /\ i \in 1..2 /\ Rank(t) = i + 1
      <4>1. Low(u, i)
        BY <3>1, <3>7 DEF HeardInv
      <4>. QED BY <3>3a, <3>7, <4>1 DEF Follows, Low, u
    <3>8. CASE Rank(t) = 4 /\ t.is \notin printed
      BY <3>2, <3>3, <3>3a, <3>8 DEF Follows, u
    <3>. QED BY <1>3, <3>4, <3>5, <3>6, <3>7, <3>8, RankOfSpeech
  <2>3. Len(Stream) \in Nat
    BY <1>1
  <2>4. ASSUME NEW x \in 1..Len(Stream'), NEW y \in 1..Len(Stream'), x < y
        PROVE  Follows(Stream'[x], Stream'[y])
    <3>1. x \in 1..Len(Stream) /\ (y \in 1..Len(Stream) \/ y = Len(Stream) + 1)
      BY <2>1, <2>3, <2>4
    <3>. QED BY <2>1, <2>2, <2>4, <3>1 DEF Ordered
  <2>. QED BY <2>4 DEF Ordered
<1>4. CASE Probes
  <2>1. place' \in Before
    BY <1>4 DEF Probes, Goto, Before
  <2>2. \A t \in ToSet(Stream') : Low(t, 0) /\ Rank(t) \in 0..4
    BY <2>1 DEF HeardInv, Rank
  <2>3. ASSUME NEW x \in 1..Len(Stream'), NEW y \in 1..Len(Stream'), x < y
        PROVE  Follows(Stream'[x], Stream'[y])
    <3>1. Stream'[x] \in ToSet(Stream') /\ Stream'[y] \in ToSet(Stream')
      BY <1>1, SetOfStream
    <3>. QED BY <2>2, <3>1 DEF Low, Follows
  <2>. QED BY <2>3 DEF Ordered
<1>. QED BY <1>2, <1>3, <1>4, StreamStep

(***************************************************************************)
(* What is scored.                                                         *)
(***************************************************************************)
Heard(what) == \E t \in ToSet(Stream) : t.is = what
Clean(s) == \A t \in ToSet(s) : t.is = "prompt" \/ t.by = "entry"
Scored(t) == \A u \in ToSet(t) : \A p \in Expect : Shows(u, p) => u.by = "entry" /\ u.is = p

(* Until the cut the echo's first line is in the stream, unless it was     *)
(* lost; after it the stream is clean, and so is what the verdict was made *)
(* on.                                                                     *)
EchoInv ==
    /\ place \in {"paste", "cut"} /\ target = "real" => Has(text, "banner")
    /\ EchoBegins /\ (place = "cut" \/ (place = "paste" /\ i > 1)) => Heard("first")
    /\ EchoBegins /\ place \in Playing /\ target = "renode" => Heard("first")
CleanInv ==
    /\ EchoBegins /\ place \in Playing /\ target = "real" => Clean(Stream)
    /\ EchoBegins /\ place \in Over /\ error = "none" => Scored(text)
    /\ passed => AllFound(text)

\* Behind the last echoed line there is only what the entry says.
LEMMA BehindTheEcho ==
    ASSUME NEW t \in Seq(Note), NEW d \in Seq(Token), NEW l \in Seq(Token), Ordered(Joint(t, d, l)),
           \A u \in ToSet(Joint(t, d, l)) : u.by = "entry" => u.is \in Expect, Has(t, "last")
    PROVE  Clean(Joint(After(t, "last"), d, l))
<1>. DEFINE c == LastAt(t, "last")
            s == Joint(t, d, l)
            r == Joint(Since(t, c), d, l)
<1>1. c \in 1..Len(t) /\ t[c].is = "last"
  BY CutType
<1>2. c \in 0..Len(t) /\ Len(t) \in Nat
  BY <1>1
<1>3. s \in Seq(Token) /\ r \in Seq(Token)
  BY <1>2, CutLeaves, StreamParts
<1>4. Len(r) = Len(s) - c /\ \A x \in 1..Len(r) : r[x] = s[x + c]
  BY <1>2, CutLeaves
<1>5. c \in DOMAIN s /\ s[c] = Tok(t[c].is, t[c].by)
  <2>1. \A x \in DOMAIN t : x \in DOMAIN s /\ s[x] = Tok(t[x].is, t[x].by)
    BY StreamParts
  <2>. HIDE DEF c, s
  <2>2. c \in DOMAIN t
    BY <1>1
  <2>. QED BY <2>1, <2>2
<1>6. r = Joint(After(t, "last"), d, l)
  BY DEF After
<1>. HIDE DEF s, r, c
<1>7. s[c].is = "last" /\ s[c] \in ToSet(s)
  BY <1>1, <1>5 DEF Tok, ToSet
<1>8. s[c].by # "entry"
  BY <1>7, WordsAreNoLiterals DEF s, Words
<1>9. Rank(s[c]) = 3
  BY <1>7, <1>8 DEF Rank
<1>10. ASSUME NEW x \in 1..Len(r) PROVE r[x].is = "prompt" \/ r[x].by = "entry"
  <2>1. x + c \in 1..Len(s) /\ c \in 1..Len(s) /\ c < x + c
    BY <1>2, <1>3, <1>4, <1>5
  <2>2. Follows(s[c], s[x + c])
    BY <2>1 DEF Ordered, s
  <2>3. Rank(s[x + c]) \in 0..4 /\ (Rank(s[x + c]) = 4 => s[x + c].by = "entry")
    BY DEF Rank
  <2>4. s[x + c].is = "prompt" \/ 3 < Rank(s[x + c]) \/ Rank(s[x + c]) = 4
    BY <1>7, <1>9, <2>2 DEF Follows
  <2>. QED BY <1>4, <2>3, <2>4
<1>11. Clean(r)
  BY <1>3, <1>10, SetOfStream DEF Clean
<1>. QED BY <1>6, <1>11

\* A clean token shows a literal only if the entry has printed it.
LEMMA CleanShows ==
    ASSUME NEW u, NEW p \in Expect, u.is = "prompt" \/ (u.by = "entry" /\ u.is \in Expect), Shows(u, p)
    PROVE  u.by = "entry" /\ u.is = p
BY WordsAreNoLiterals DEF Shows, Words

\* In a clean text every literal is the entry's.
LEMMA CleanIsScored ==
    ASSUME NEW t \in Seq(Note), NEW d \in Seq(Token), NEW l \in Seq(Token), Clean(Joint(t, d, l)),
           \A u \in ToSet(Joint(t, d, l)) : u.by = "entry" => u.is \in Expect
    PROVE  Scored(t)
<1>1. ASSUME NEW u \in ToSet(t), NEW p \in Expect, Shows(u, p) PROVE u.by = "entry" /\ u.is = p
  <2>1. Tok(u.is, u.by) \in ToSet(Joint(t, d, l))
    BY TextInStream
  <2>. DEFINE v == Tok(u.is, u.by)
  <2>2. v.is = u.is /\ v.by = u.by
    BY DEF Tok
  <2>. HIDE DEF v
  <2>3. v \in ToSet(Joint(t, d, l))
    BY <2>1 DEF v
  <2>4. v.is = "prompt" \/ v.by = "entry"
    BY <2>3 DEF Clean
  <2>5. u.is = "prompt" \/ (u.by = "entry" /\ u.is \in Expect)
    BY <2>2, <2>3, <2>4
  <2>. QED BY <1>1, <2>5, CleanShows
<1>. QED BY <1>1 DEF Scored

\* The link loses one token at most, and counts a lost line of the echo.
LEMMA LossKeeps ==
    ASSUME NEW t \in Seq(Note), NEW d \in Seq(Token), NEW l \in Seq(Token), NEW k \in DOMAIN l
    PROVE  ToSet(Joint(t, d, l)) \subseteq ToSet(Joint(t, d, RemoveAt(l, k))) \cup {l[k]}
<1>. DEFINE r == Joint(t, d, RemoveAt(l, k))
            s == Joint(t, d, l)
            c == Len(t) + Len(d) + k
<1>1. /\ RemoveAt(l, k) \in Seq(Token) /\ Len(r) = Len(s) - 1
      /\ \A x \in 1..Len(r) : r[x] = s[IF x < c THEN x ELSE x + 1]
  BY LossLeaves
<1>2. r \in Seq(Token)
  BY <1>1, StreamParts
<1>3. s \in Seq(Token) /\ s[c] = l[k] /\ c \in DOMAIN s
  BY StreamParts
<1>. HIDE DEF r, s, c
<1>4. Len(r) \in Nat /\ Len(s) \in Nat /\ c \in 1..Len(s)
  BY <1>2, <1>3
<1>4a. Len(r) = Len(s) - 1
  BY <1>1
<1>5. ASSUME NEW x \in 1..Len(s), x # c PROVE s[x] \in ToSet(r)
  <2>1. CASE x < c
    <3>1. x \in 1..Len(r)
      BY <1>4, <1>4a, <2>1
    <3>2. r[x] = s[x]
      BY <1>1, <2>1, <3>1
    <3>. QED BY <1>2, <3>1, <3>2, SetOfStream
  <2>2. CASE x > c
    <3>1. x - 1 \in 1..Len(r) /\ ~(x - 1 < c) /\ (x - 1) + 1 = x
      BY <1>4, <1>4a, <2>2
    <3>2. r[x - 1] = s[x]
      BY <1>1, <3>1
    <3>. QED BY <1>2, <3>1, <3>2, SetOfStream
  <2>. QED BY <1>4, <1>5, <2>1, <2>2
<1>6. \A v \in ToSet(s) : \E x \in 1..Len(s) : v = s[x]
  BY <1>3, SetOfStream
<1>7. ToSet(s) \subseteq ToSet(r) \cup {l[k]}
  BY <1>3, <1>5, <1>6
<1>. QED BY <1>7 DEF r, s

\* While the echo begins, its first line is in the stream.
LEMMA FirstStaysHeard ==
    ASSUME ReplType, ReplNext, ~Resets, ~CutsEcho, ~JudgesRenode, Heard("first"), EchoBegins'
    PROVE  Heard("first")'
<1>1. Stream \in Seq(Token) /\ Stream' \in Seq(Token)
  BY StreamStep
<1>2. PICK t \in ToSet(Stream) : t.is = "first"
  BY DEF Heard
<1>3. CASE Stream' = Stream
  BY <1>2, <1>3 DEF Heard
<1>4. ASSUME NEW r \in Seq(Token), Stream' = Stream \o r PROVE Heard("first")'
  <2>1. ToSet(Stream') = ToSet(Stream) \cup ToSet(r)
    BY <1>1, <1>4, SetOfStream
  <2>. QED BY <1>2, <2>1 DEF Heard
<1>5. CASE BoardMoves /\ Loses /\ UNCHANGED <<text, place>>
  <2>0. line \in Seq(Token) /\ driver \in Seq(Token) /\ text \in Seq(Note)
    BY DEF ReplType
  <2>1. PICK k \in DOMAIN line : line' = RemoveAt(line, k)
                  /\ missing' = missing \cup ({line[k].is} \cap {"first", "last"})
    BY <1>5 DEF Loses
  <2>2. driver' = driver
    BY <1>5 DEF Loses
  <2>3. text' = text
    BY <1>5
  <2>4. line[k].is # "first"
    BY <2>1 DEF EchoBegins
  <2>5. ToSet(Stream) \subseteq ToSet(Stream') \cup {line[k]}
    BY <2>0, <2>1, <2>2, <2>3, LossKeeps DEF Stream
  <2>. QED BY <1>2, <2>4, <2>5 DEF Heard
<1>. QED BY <1>3, <1>4, <1>5, StreamStep

\* How the echo, the playing and the verdict are reached.
LEMMA EchoMoves ==
    ASSUME ReplType, PlaceInv, ReplNext
    PROVE  /\ missing \subseteq missing'
           /\ place' \in {"paste", "cut"} => (place \in {"paste", "cut"} /\ text' = text) \/ SeesBanner
           /\ place' = "cut" \/ (place' = "paste" /\ i' > 1) =>
                place = "cut" \/ (place = "paste" /\ i > 1) \/ (PastesLine /\ i = 1)
           /\ place' \in Playing /\ target = "renode" => place \in Playing \/ (place = "paste" /\ i > 1)
           /\ place' \in Playing /\ target = "real" => place \in Playing \/ CutsEcho
           /\ place' \in Over /\ error' = "none" =>
                \/ place \in Over /\ error = "none" /\ text' = text
                \/ JudgesReal \/ JudgesRenode
           /\ passed' => (passed /\ text' = text) \/ Verdict
<1>0. i \in Nat \ {0} /\ target \in {"real", "renode"} /\ passed \in BOOLEAN
  BY DEF ReplType
<1>. USE <1>0 DEF PlaceInv, Before, Playing, Over, OnlyReal, On, Goto, Fails, env, run, kept, link, device, AtStep
<1>1. CASE Opens \/ Probes \/ ReadsProbe \/ ProbeUnknown \/ Wipes \/ Resets
  BY <1>1 DEF Opens, Probes, ReadsProbe, ProbeUnknown, Wipes, Resets, Pump
<1>2. CASE Connects \/ SeesPrompt \/ SendsCtrlE \/ SeesBanner \/ NoBanner \/ PastesLine
  BY <1>2 DEF Connects, SeesPrompt, SendsCtrlE, SeesBanner, NoBanner, PastesLine, TakesPasted, Pump, Source
<1>3. CASE PasteLate \/ Executes \/ CutsEcho \/ Delay \/ StimulusOver \/ BeginWrite \/ Stamps \/ Sends
  BY <1>3 DEF PasteLate, Executes, CutsEcho, Delay, StimulusOver, BeginWrite, Stamps, Sends, Drains, Pump, Source
<1>4. CASE BeginWait \/ LooksForStamp \/ Weighs \/ RenodeWaits \/ Receives \/ ReceiveEnds
  BY <1>4 DEF BeginWait, LooksForStamp, Weighs, RenodeWaits, Receives, ReceiveEnds, Pump
<1>6. CASE Collects \/ CollectOver \/ JudgesReal \/ JudgesRenode \/ Verdict \/ DeadlinePasses
  BY <1>6 DEF Collects, CollectOver, JudgesReal, JudgesRenode, Verdict, DeadlinePasses, Pump
<1>7. CASE BoardMoves
  <2>1. missing \subseteq missing'
    BY <1>7 DEF BoardMoves, BoardStep, OldPrints, OldEnds, EntryReads, EntryPrints, EntryEnds, Arrives, Loses
  <2>. QED BY <1>7, <2>1 DEF BoardMoves
<1>. QED BY <1>1, <1>2, <1>3, <1>4, <1>6, <1>7 DEF ReplNext, Runner

\* A step keeps the echo's beginning in the stream until the cut.
LEMMA EchoStep ==
    ASSUME ReplType, ReplType', PlaceInv, PlaceInv', EchoInv, ReplNext
    PROVE  EchoInv'
<1>0. text' \in Seq(Note) /\ mark' \in Nat /\ target' = target
  BY PlaceMoves DEF ReplType
<1>1. /\ missing \subseteq missing'
      /\ place' \in {"paste", "cut"} => (place \in {"paste", "cut"} /\ text' = text) \/ SeesBanner
      /\ place' = "cut" \/ (place' = "paste" /\ i' > 1) =>
           place = "cut" \/ (place = "paste" /\ i > 1) \/ (PastesLine /\ i = 1)
      /\ place' \in Playing /\ target = "renode" => place \in Playing \/ (place = "paste" /\ i > 1)
  BY EchoMoves
<1>2. EchoBegins' => EchoBegins
  BY <1>1 DEF EchoBegins
<1>3. ASSUME place' \in {"paste", "cut"}, target' = "real" PROVE Has(text', "banner")
  <2>1. CASE place \in {"paste", "cut"} /\ text' = text
    BY <1>0, <1>3, <2>1 DEF EchoInv
  <2>2. CASE SeesBanner
    <3>1. Has(Since(text', mark'), "banner")
      BY <1>3, <2>2 DEF SeesBanner, Goto
    <3>. QED BY <1>0, <3>1, HasIsMember
  <2>. QED BY <1>1, <1>3, <2>1, <2>2
<1>4. ~(place' \in {"paste", "cut"} /\ (Resets \/ CutsEcho \/ JudgesRenode))
  BY DEF Resets, CutsEcho, JudgesRenode, Goto, Fails
<1>5. ~(place' \in Playing /\ target = "renode" /\ (Resets \/ CutsEcho \/ JudgesRenode))
  BY DEF Resets, CutsEcho, JudgesRenode, Goto, Fails, On, Playing
<1>6. ASSUME EchoBegins', place' = "cut" \/ (place' = "paste" /\ i' > 1) PROVE Heard("first")'
  <2>1. CASE place = "cut" \/ (place = "paste" /\ i > 1)
    <3>1. Heard("first")
      BY <1>2, <1>6, <2>1 DEF EchoInv
    <3>. QED BY <1>4, <1>6, <3>1, FirstStaysHeard
  <2>2. CASE PastesLine /\ i = 1
    <3>1. line' = line \o <<Tok("first", "board")>> \/ "first" \in missing'
      BY <2>2 DEF PastesLine, TakesPasted, Says, Source
    <3>2. line' = line \o <<Tok("first", "board")>> /\ text' = text /\ driver' = driver
      BY <1>6, <2>2, <3>1 DEF PastesLine, EchoBegins, kept
    <3>3. line \in Seq(Token) /\ text \in Seq(Note) /\ driver \in Seq(Token) /\ <<Tok("first", "board")>> \in Seq(Token)
          /\ Tok("first", "board") \in Token
      BY DEF ReplType, Tok, Token, Literal, Words
    <3>4. Stream' = Stream \o <<Tok("first", "board")>>
      BY <3>2, <3>3, SpeechAppends DEF Stream
    <3>5. Stream \in Seq(Token)
      BY StreamStep
    <3>6. Tok("first", "board") \in ToSet(Stream')
      BY <3>3, <3>4, <3>5, SetOfStream
    <3>. QED BY <3>6 DEF Heard, Tok
  <2>. QED BY <1>1, <1>6, <2>1, <2>2
<1>7. ASSUME EchoBegins', place' \in Playing, target' = "renode" PROVE Heard("first")'
  <2>1. Heard("first")
    BY <1>0, <1>1, <1>2, <1>7 DEF EchoInv
  <2>. QED BY <1>0, <1>5, <1>7, <2>1, FirstStaysHeard
<1>. QED BY <1>3, <1>6, <1>7 DEF EchoInv

\* The real target's cut leaves only what the entry says.
LEMMA CutIsClean ==
    ASSUME ReplType, HeardInv, Ordered(Stream), EchoInv, CutsEcho, EchoBegins, place' = "step"
    PROVE  Clean(Stream')
<1>0. text \in Seq(Note) /\ line \in Seq(Token) /\ <<>> \in Seq(Token) /\ Ingested \in Seq(Note) /\ Len(text) \in Nat
  BY IngestedType DEF ReplType
<1>1. Joint(Ingested, <<>>, line) = Stream
  BY IngestionKeepsStream
<1>2. driver' = <<>> /\ line' = line /\ target = "real" /\ place = "cut" /\ Paced /\ ~TailLost(Ingested)
      /\ text' = IF Has(Ingested, "last") THEN After(Ingested, "last") ELSE Ingested
  BY DEF CutsEcho, On, Fails, Goto
<1>3. \A u \in ToSet(Stream) : u.by = "entry" => u.is \in Expect
  BY DEF HeardInv, ReplType
<1>4. CASE Has(Ingested, "last")
  <2>1. Clean(Joint(After(Ingested, "last"), <<>>, line))
    BY <1>0, <1>1, <1>3, <1>4, BehindTheEcho
  <2>2. Stream' = Joint(After(Ingested, "last"), <<>>, line)
    BY <1>2, <1>4 DEF Stream
  <2>. QED BY <2>1, <2>2
<1>5. CASE ~Has(Ingested, "last")
  <2>. DEFINE b == LastAt(Ingested, "banner")
  <2>1. Has(Ingested, "banner")
    <3>1. PICK x \in DOMAIN text : text[x].is = "banner"
      BY <1>2 DEF EchoInv, Has
    <3>2. x \in DOMAIN Ingested /\ Ingested[x] = text[x]
      BY <1>0, IngestedType, <3>1 DEF ReplType
    <3>. QED BY <3>1, <3>2 DEF Has
  <2>2. b \in 1..Len(Ingested) /\ Ingested[b].is = "banner"
    BY <1>0, <2>1, CutType
  <2>3. ~Has(After(Ingested, "banner"), "first")
    BY <1>2, <1>5, <2>1 DEF TailLost
  <2>. HIDE DEF b
  <2>4. /\ Stream \in Seq(Token) /\ b \in 1..Len(Stream)
        /\ \A x \in DOMAIN Ingested : x \in DOMAIN Stream /\ Stream[x] = Tok(Ingested[x].is, Ingested[x].by)
    <3>1. /\ Joint(Ingested, <<>>, line) \in Seq(Token)
          /\ \A x \in DOMAIN Ingested : x \in DOMAIN Joint(Ingested, <<>>, line)
                /\ Joint(Ingested, <<>>, line)[x] = Tok(Ingested[x].is, Ingested[x].by)
      BY <1>0, StreamParts
    <3>2. b \in DOMAIN Ingested
      BY <1>0, <2>2
    <3>. QED BY <1>1, <3>1, <3>2
  <2>5. Stream[b].is = "banner" /\ Stream[b] \in ToSet(Stream)
    <3>1. b \in DOMAIN Ingested
      BY <1>0, <2>2
    <3>2. Stream[b] = Tok(Ingested[b].is, Ingested[b].by)
      BY <2>4, <3>1
    <3>3. Stream[b] \in ToSet(Stream)
      BY <2>4, SetOfStream
    <3>. QED BY <2>2, <3>2, <3>3 DEF Tok
  <2>6. Rank(Stream[b]) = 1
    BY <1>3, <2>5, WordsAreNoLiterals DEF Rank, Words
  <2>7. Heard("first")
    BY <1>2 DEF EchoInv
  <2>8. PICK y \in 1..Len(Stream) : Stream[y].is = "first"
    BY <2>4, <2>7, SetOfStream DEF Heard
  <2>9. Rank(Stream[y]) = 2
    <3>1. Stream[y] \in ToSet(Stream)
      BY <2>4, SetOfStream
    <3>. QED BY <1>3, <2>8, <3>1, WordsAreNoLiterals DEF Rank, Words
  <2>10. b < y
    <3>1. CASE y < b
      <4>1. Follows(Stream[y], Stream[b])
        BY <2>4, <3>1 DEF Ordered
      <4>. QED BY <2>5, <2>6, <2>8, <2>9, <4>1 DEF Follows
    <3>2. CASE y = b
      BY <2>5, <2>8, <3>2
    <3>. QED BY <2>4, <3>1, <3>2
  <2>11. CASE y \in DOMAIN Ingested
    <3>0. Stream[y] = Tok(Ingested[y].is, Ingested[y].by)
      BY <2>4, <2>11
    <3>1. Ingested[y].is = "first"
      BY <2>8, <3>0 DEF Tok
    <3>2. b \in 0..Len(Ingested)
      BY <1>0, <2>2
    <3>3. /\ Since(Ingested, b) \in Seq(Note) /\ Len(Since(Ingested, b)) = Len(Ingested) - b
          /\ \A x \in 1..Len(Since(Ingested, b)) : Since(Ingested, b)[x] = Ingested[x + b]
      BY <1>0, <3>2, CutLeaves
    <3>4. y - b \in 1..Len(Since(Ingested, b)) /\ (y - b) + b = y
      BY <1>0, <2>2, <2>10, <2>11, <3>3
    <3>5. Since(Ingested, b)[y - b].is = "first"
      BY <3>1, <3>3, <3>4
    <3>6. Has(Since(Ingested, b), "first")
      BY <3>3, <3>4, <3>5 DEF Has
    <3>. QED BY <2>3, <3>6 DEF After, b
  <2>12. CASE y \notin DOMAIN Ingested
    <3>1. y \in DOMAIN Joint(Ingested, <<>>, line)
      BY <1>1, <2>4
    <3>2. PICK z \in DOMAIN line : Joint(Ingested, <<>>, line)[y] = line[z]
      BY <1>0, <2>12, <3>1, UnreadIsInLine
    <3>5. line[z].is = "first"
      BY <1>1, <2>8, <3>2
    <3>. QED BY <1>2, <3>5 DEF Paced, WrittenLast
  <2>. QED BY <2>11, <2>12
<1>. QED BY <1>4, <1>5

\* A step keeps what is played and scored clean.
LEMMA CleanStep ==
    ASSUME ReplType, ReplType', PlaceInv, PlaceInv', HeardInv, HeardInv', Ordered(Stream),
           EchoInv, CleanInv, ReplNext
    PROVE  CleanInv'
<1>0. target' = target /\ target \in {"real", "renode"} /\ printed \subseteq Expect /\ printed' \subseteq Expect
  BY PlaceMoves DEF ReplType
<1>1. /\ missing \subseteq missing'
      /\ place' \in Playing /\ target = "real" => place \in Playing \/ CutsEcho
      /\ place' \in Over /\ error' = "none" =>
           \/ place \in Over /\ error = "none" /\ text' = text
           \/ JudgesReal \/ JudgesRenode
      /\ passed' => (passed /\ text' = text) \/ Verdict
  BY EchoMoves
<1>2. EchoBegins' => EchoBegins
  BY <1>1 DEF EchoBegins
<1>3. Stream \in Seq(Token) /\ Stream' \in Seq(Token)
  BY StreamStep
<1>4. \A u \in ToSet(Stream) : u.by = "entry" => u.is \in Expect
  BY <1>0 DEF HeardInv
<1>5. ASSUME EchoBegins', place' \in Playing, target' = "real" PROVE Clean(Stream')
  <2>1. CASE CutsEcho
    <3>1. place' = "step"
      BY <1>5, <2>1 DEF CutsEcho, Goto, Fails, Playing
    <3>. QED BY <1>2, <1>5, <2>1, <3>1, CutIsClean
  <2>2. CASE place \in Playing
    <3>1. Clean(Stream)
      BY <1>0, <1>2, <1>5, <2>2 DEF CleanInv
    <3>2. CASE Selected(Stream', Stream)
      <4>1. ToSet(Stream') \subseteq ToSet(Stream)
        BY <1>3, <3>2, SetOfStream
      <4>. QED BY <3>1, <4>1 DEF Clean
    <3>3. ASSUME NEW t \in Token, Stream' = Stream \o <<t>>, MaySay(t) PROVE Clean(Stream')
      <4>1. ToSet(Stream') = ToSet(Stream) \cup {t}
        BY <1>3, <3>3, SetOfStream
      <4>2. t.is = "prompt" \/ t.by = "entry"
        BY <2>2, <3>3, RankOfSpeech DEF Playing, PlaceInv
      <4>. QED BY <3>1, <4>1, <4>2 DEF Clean
    <3>4. ~Probes
      BY <2>2 DEF Probes, On, Playing
    <3>. QED BY <3>2, <3>3, <3>4, StreamStep
  <2>. QED BY <1>0, <1>1, <1>5, <2>1, <2>2
<1>6. ASSUME EchoBegins', place' \in Over, error' = "none" PROVE Scored(text')
  <2>1. CASE place \in Over /\ error = "none" /\ text' = text
    BY <1>2, <1>6, <2>1 DEF CleanInv, Scored
  <2>2. CASE JudgesReal
    <3>1. place = "judge" /\ target = "real" /\ text' = Ingested
      BY <2>2 DEF JudgesReal, On, Pump
    <3>2. Clean(Stream)
      BY <1>2, <1>6, <3>1 DEF CleanInv, Playing
    <3>3. Ingested \in Seq(Note) /\ <<>> \in Seq(Token) /\ line \in Seq(Token) /\ Joint(Ingested, <<>>, line) = Stream
      BY IngestedType, IngestionKeepsStream DEF ReplType
    <3>4. Scored(Ingested)
      BY <1>4, <3>2, <3>3, CleanIsScored
    <3>. QED BY <3>1, <3>4
  <2>3. CASE JudgesRenode
    <3>0. text \in Seq(Note) /\ driver \in Seq(Token) /\ line \in Seq(Token) /\ place = "judge" /\ target = "renode"
      BY <2>3 DEF JudgesRenode, On, ReplType
    <3>1. \/ ~Has(text, "first") /\ text' = text
          \/ Has(text, "first") /\ Has(text, "last") /\ text' = After(text, "last")
      BY <1>6, <2>3 DEF JudgesRenode, Fails
    <3>2. CASE Has(text, "last") /\ text' = After(text, "last")
      <4>1. Clean(Joint(After(text, "last"), driver, line))
        BY <1>4, <3>0, <3>2, BehindTheEcho DEF Stream
      <4>2. After(text, "last") \in Seq(Note)
        BY <3>0, <3>2, CutType
      <4>3. driver' = driver /\ line' = line
        BY <2>3 DEF JudgesRenode, link
      <4>4. Stream' = Joint(After(text, "last"), driver, line)
        BY <3>2, <4>3 DEF Stream
      <4>5. \A u \in ToSet(Joint(After(text, "last"), driver, line)) : u.by = "entry" => u.is \in Expect
        BY <1>0, <4>4 DEF HeardInv
      <4>6. Scored(After(text, "last"))
        BY <3>0, <4>1, <4>2, <4>5, CleanIsScored
      <4>. QED BY <3>2, <4>6
    <3>3. CASE ~Has(text, "first") /\ text' = text
      <4>1. Heard("first")
        BY <1>2, <1>6, <3>0 DEF EchoInv, Playing
      <4>2. PICK y \in 1..Len(Stream) : Stream[y].is = "first"
        BY <1>3, <4>1, SetOfStream DEF Heard
      <4>3. Rank(Stream[y]) = 2
        <5>1. Stream[y] \in ToSet(Stream)
          BY <1>3, SetOfStream
        <5>. QED BY <1>4, <4>2, <5>1, WordsAreNoLiterals DEF Rank, Words
      <4>4. \A x \in DOMAIN text : x \in DOMAIN Stream /\ Stream[x] = Tok(text[x].is, text[x].by)
        BY <3>0, StreamParts DEF Stream
      <4>5. y \notin DOMAIN text
        <5>1. ASSUME y \in DOMAIN text PROVE FALSE
          <6>1. Stream[y] = Tok(text[y].is, text[y].by)
            BY <4>4, <5>1
          <6>2. text[y].is = "first"
            BY <4>2, <6>1 DEF Tok
          <6>. QED BY <3>3, <5>1, <6>2 DEF Has
        <5>. QED BY <5>1
      <4>6. ASSUME NEW u \in ToSet(text), NEW p \in Expect, Shows(u, p) PROVE u.by = "entry" /\ u.is = p
        <5>1. PICK x \in DOMAIN text : u = text[x]
          BY DEF ToSet
        <5>2. x \in 1..Len(Stream) /\ x < y
          <6>1. x \in 1..Len(text) /\ y \notin 1..Len(text) /\ x \in DOMAIN Stream
            BY <3>0, <4>4, <4>5
          <6>. QED BY <1>3, <3>0, <6>1
        <5>3. Follows(Stream[x], Stream[y])
          BY <5>2 DEF Ordered
        <5>4. Stream[x] = Tok(u.is, u.by) /\ Stream[x] \in ToSet(Stream)
          BY <1>3, <4>4, <5>1, <5>2, SetOfStream
        <5>5. Stream[x].is = u.is /\ Stream[x].by = u.by
          BY <5>4 DEF Tok
        <5>6. u.is = "prompt" \/ Rank(Stream[x]) < 2
          BY <4>2, <4>3, <5>3, <5>5 DEF Follows
        <5>7. u.is \in {"prompt", "banner"}
          <6>1. u.by = "entry" \/ u.is \in {"prompt", "banner", "first", "last"}
            BY <3>0, <5>4, <5>5 DEF HeardInv
          <6>. QED BY <5>5, <5>6, <6>1 DEF Rank
        <5>. QED BY <4>6, <5>7, WordsAreNoLiterals DEF Shows, Words
      <4>. QED BY <3>3, <4>6 DEF Scored
    <3>. QED BY <3>1, <3>2, <3>3
  <2>. QED BY <1>1, <1>6, <2>1, <2>2, <2>3
<1>7. ASSUME passed' PROVE AllFound(text')
  <2>1. CASE passed /\ text' = text
    BY <2>1 DEF CleanInv, AllFound, Found
  <2>2. CASE Verdict
    BY <1>7, <2>2 DEF Verdict, kept
  <2>. QED BY <1>1, <1>7, <2>1, <2>2
<1>. QED BY <1>5, <1>6, <1>7 DEF CleanInv

(***************************************************************************)
(* When an answer arrives, and how it is stamped.                          *)
(***************************************************************************)
(* An answer in the text is stamped no later than it arrived, and one in   *)
(* the driver arrived after the last drain.                                *)
ArriveInv ==
    /\ \A u \in ToSet(text) : u.by = "entry" => arrived[u.is] \in Nat /\ u.at <= arrived[u.is]
    /\ \A u \in ToSet(driver) : u.by = "entry" => arrived[u.is] \in Nat /\ Drained <= arrived[u.is]
    /\ \A u \in ToSet(line) : u.by = "entry" => arrived[u.is] = NIL
    /\ \A p \in Expect \ printed : arrived[p] = NIL

\* Nothing of the entry has arrived at the start.
LEMMA ArriveInit == ReplInit => ArriveInv
<1>. SUFFICES ASSUME ReplInit PROVE ArriveInv
  OBVIOUS
<1>1. text = <<>> /\ driver = <<>> /\ line = <<>> /\ arrived = [p \in Expect |-> NIL]
  BY DEF ReplInit, BoardInit
<1>2. ToSet(text) = {} /\ ToSet(driver) = {} /\ ToSet(line) = {}
  BY <1>1 DEF ToSet
<1>. QED BY <1>1, <1>2 DEF ArriveInv

\* What only one or two of the actions change.
LEMMA RareMoves ==
    ASSUME ReplType, PlaceInv, ReplNext
    PROVE  /\ entry' = "honest" => entry = "honest"
           /\ waited' = waited \/ BeginWait
           /\ (triggers' = triggers /\ since' = since) \/ Stamps
           /\ error' = "run" => error = "run" \/ JudgesReal \/ RenodeWaits
           /\ Drained' = Drained \/ driver' = <<>>
           /\ (arrived' = arrived /\ printed' = printed) \/ BoardMoves
<1>. USE DEF PlaceInv, OnlyReal, On, Goto, Fails, env, run, kept, link, device, AtStep, Drained
<1>1. CASE Opens \/ Probes \/ ReadsProbe \/ ProbeUnknown \/ Wipes \/ Resets
  BY <1>1 DEF Opens, Probes, ReadsProbe, ProbeUnknown, Wipes, Resets, Pump
<1>2. CASE Connects \/ SeesPrompt \/ SendsCtrlE \/ SeesBanner \/ NoBanner \/ PastesLine
  BY <1>2 DEF Connects, SeesPrompt, SendsCtrlE, SeesBanner, NoBanner, PastesLine, TakesCtrlE, TakesPasted, Pump
<1>3. CASE PasteLate \/ Executes \/ CutsEcho \/ Delay \/ StimulusOver \/ BeginWrite \/ Stamps \/ Sends
  BY <1>3 DEF PasteLate, Executes, CutsEcho, Delay, StimulusOver, BeginWrite, Stamps, Sends, Drains, Pump
<1>4. CASE BeginWait \/ LooksForStamp \/ Weighs \/ RenodeWaits \/ Receives \/ ReceiveEnds
  BY <1>4 DEF BeginWait, LooksForStamp, Weighs, RenodeWaits, Receives, ReceiveEnds, Pump
<1>6. CASE Collects \/ CollectOver \/ JudgesReal \/ JudgesRenode \/ Verdict \/ DeadlinePasses
  BY <1>6 DEF Collects, CollectOver, JudgesReal, JudgesRenode, Verdict, DeadlinePasses, Pump
<1>7. CASE BoardMoves
  <2>1. entry' = entry
    BY <1>7 DEF BoardMoves, BoardStep, OldPrints, OldEnds, EntryReads, EntryPrints, EntryEnds, Arrives, Loses
  <2>. QED BY <1>7, <2>1 DEF BoardMoves
<1>. QED BY <1>1, <1>2, <1>3, <1>4, <1>6, <1>7 DEF ReplNext, Runner

\* An ingested token was read before or had arrived.
LEMMA IngestedTokens ==
    ASSUME ReplType, NEW u \in ToSet(Ingested)
    PROVE  \/ u \in ToSet(text)
           \/ u.at = triggers /\ \E v \in ToSet(driver) : v.is = u.is /\ v.by = u.by
<1>0. driver \in Seq(Token) /\ text \in Seq(Note) /\ triggers \in Nat
  BY DEF ReplType
<1>1. /\ Ingested \in Seq(Note) /\ Len(Ingested) = Len(text) + Len(driver)
      /\ \A x \in DOMAIN text : Ingested[x] = text[x]
      /\ \A x \in DOMAIN driver : Ingested[Len(text) + x] =
                [is |-> driver[x].is, by |-> driver[x].by, at |-> triggers]
  BY IngestedType
<1>2. PICK x \in DOMAIN Ingested : u = Ingested[x]
  BY DEF ToSet
<1>. HIDE DEF Ingested
<1>3. x \in DOMAIN text \/ (x - Len(text) \in DOMAIN driver /\ x = Len(text) + (x - Len(text)))
  BY <1>0, <1>1, <1>2
<1>4. CASE x \in DOMAIN text
  BY <1>1, <1>2, <1>4 DEF ToSet
<1>5. CASE x - Len(text) \in DOMAIN driver /\ x = Len(text) + (x - Len(text))
  <2>. DEFINE y == x - Len(text)
  <2>1. y \in DOMAIN driver /\ Ingested[Len(text) + y] = [is |-> driver[y].is, by |-> driver[y].by, at |-> triggers]
    BY <1>1, <1>5
  <2>2. u = [is |-> driver[y].is, by |-> driver[y].by, at |-> triggers]
    BY <1>2, <1>5, <2>1
  <2>. HIDE DEF y
  <2>3. driver[y] \in ToSet(driver)
    BY <2>1 DEF ToSet
  <2>. QED BY <2>2, <2>3
<1>. QED BY <1>3, <1>4, <1>5

\* Where what is read, has arrived or is under way comes from.
LEMMA TextGrows ==
    ASSUME ReplType, ReplType', ReplNext
    PROVE  \/ BoardMoves /\ Arrives /\ text' = text
           \/ /\ \A u \in ToSet(text') :
                   \/ u \in ToSet(text)
                   \/ u.at = triggers /\ \E v \in ToSet(driver) : v.is = u.is /\ v.by = u.by
              /\ driver' = driver \/ driver' = <<>>
              /\ \A u \in ToSet(line') : u \in ToSet(line) \/ MaySay(u) \/ u.by = "board"
<1>0. /\ line \in Seq(Token) /\ driver \in Seq(Token) /\ text \in Seq(Note) /\ triggers \in Nat
      /\ line' \in Seq(Token) /\ driver' \in Seq(Token) /\ text' \in Seq(Note)
  BY DEF ReplType
<1>. DEFINE Kept(t) == \A u \in ToSet(t) :
                   \/ u \in ToSet(text)
                   \/ u.at = triggers /\ \E v \in ToSet(driver) : v.is = u.is /\ v.by = u.by
            Said(l) == \A u \in ToSet(l) : u \in ToSet(line) \/ MaySay(u) \/ u.by = "board"
<1>1. LinkStep
  BY AnyLinkStep
<1>2. Kept(text) /\ Said(line)
  OBVIOUS
<1>3. Kept(Ingested)
  BY IngestedTokens
<1>4. ASSUME NEW T, NEW t \in Seq(T), Has(t, "last") PROVE ToSet(After(t, "last")) \subseteq ToSet(t)
  <2>. DEFINE c == LastAt(t, "last")
  <2>1. c \in 1..Len(t)
    BY <1>4, CutType
  <2>. HIDE DEF c
  <2>1a. c \in 0..Len(t) /\ Len(t) \in Nat
    BY <2>1
  <2>1b. /\ Since(t, c) \in Seq(T) /\ Len(Since(t, c)) = Len(t) - c
         /\ \A x \in 1..Len(Since(t, c)) : Since(t, c)[x] = t[x + c]
    BY <2>1a, SMT DEF Since
  <2>1c. DOMAIN Since(t, c) = 1..(Len(t) - c)
    BY <2>1b
  <2>2. \A x \in DOMAIN Since(t, c) : x + c \in DOMAIN t /\ Since(t, c)[x] = t[x + c]
    BY <2>1a, <2>1b, <2>1c
  <2>3. ToSet(Since(t, c)) \subseteq ToSet(t)
    BY <2>2 DEF ToSet
  <2>. QED BY <2>3 DEF After, c
<1>. DEFINE Goal == Kept(text') /\ (driver' = driver \/ driver' = <<>>) /\ Said(line')
<1>5. Goal \/ (BoardMoves /\ Arrives /\ text' = text) =>
           \/ BoardMoves /\ Arrives /\ text' = text
           \/ /\ \A u \in ToSet(text') :
                   \/ u \in ToSet(text)
                   \/ u.at = triggers /\ \E v \in ToSet(driver) : v.is = u.is /\ v.by = u.by
              /\ driver' = driver \/ driver' = <<>>
              /\ \A u \in ToSet(line') : u \in ToSet(line) \/ MaySay(u) \/ u.by = "board"
  OBVIOUS
<1>. SUFFICES Goal \/ (BoardMoves /\ Arrives /\ text' = text)
  BY <1>5
<1>. HIDE DEF Kept, Said
<1>6. CASE Quietly
  BY <1>2, <1>6 DEF Quietly
<1>7. CASE Ingests
  BY <1>2, <1>3, <1>7 DEF Ingests
<1>8. CASE Speaks
  <2>1. PICK t \in Token : line' = line \o <<t>> /\ MaySay(t)
    BY <1>8 DEF Speaks
  <2>2. ToSet(line') = ToSet(line) \cup {t}
    BY <1>0, <2>1, SetOfStream
  <2>3. Said(line')
    BY <2>1, <2>2 DEF Said
  <2>. QED BY <1>2, <1>8, <2>3 DEF Speaks
<1>9. CASE Probes
  <2>1. text' = Ingested /\ driver' = <<>> /\ (line' = line \/ line' = line \o ProbeAnswer(mode'))
    BY <1>9 DEF Probes, Says
  <2>2. ToSet(line') \subseteq ToSet(line) \cup ToSet(ProbeAnswer(mode'))
    <3>1. ProbeAnswer(mode') \in Seq(Token)
      BY ProbeAnswerType
    <3>2. ToSet(line \o ProbeAnswer(mode')) = ToSet(line) \cup ToSet(ProbeAnswer(mode'))
      BY <1>0, <3>1, SetOfStream
    <3>. QED BY <2>1, <3>2
  <2>3. Said(line')
    BY <2>2, ProbeAnswerTokens DEF Said
  <2>. QED BY <1>3, <2>1, <2>3
<1>10. CASE Resets
  <2>1. text' = <<>> /\ driver' = <<>> /\ line' = line
    BY <1>10 DEF Resets
  <2>2. ToSet(<<>>) = {}
    BY DEF ToSet
  <2>. QED BY <1>2, <2>1, <2>2 DEF Kept
<1>11. CASE CutsEcho
  <2>1. driver' = <<>> /\ line' = line
    BY <1>11 DEF CutsEcho
  <2>2. text' = Ingested \/ (Has(Ingested, "last") /\ text' = After(Ingested, "last"))
    BY <1>11 DEF CutsEcho
  <2>3. Ingested \in Seq(Note)
    BY IngestedType
  <2>4. ToSet(text') \subseteq ToSet(Ingested)
    BY <1>4, <2>2, <2>3
  <2>5. Kept(text')
    BY <1>3, <2>4 DEF Kept
  <2>. QED BY <1>2, <2>1, <2>5
<1>12. CASE JudgesRenode
  <2>1. driver' = driver /\ line' = line
    BY <1>12 DEF JudgesRenode, link
  <2>2. text' = text \/ (Has(text, "last") /\ text' = After(text, "last"))
    BY <1>12 DEF JudgesRenode
  <2>4. ToSet(text') \subseteq ToSet(text)
    BY <1>0, <1>4, <2>2
  <2>5. Kept(text')
    BY <2>4 DEF Kept
  <2>. QED BY <1>2, <2>1, <2>5
<1>13. CASE BoardMoves /\ Arrives /\ UNCHANGED <<text, place>>
  BY <1>13
<1>14. CASE BoardMoves /\ Loses /\ UNCHANGED <<text, place>>
  <2>1. PICK k \in DOMAIN line : line' = RemoveAt(line, k) /\ driver' = driver
    BY <1>14 DEF Loses
  <2>2. ToSet(line') \subseteq ToSet(line)
    <3>1. /\ RemoveAt(line, k) \in Seq(Token)
      BY <1>0, LossLeaves
    <3>2. Selected(Joint(<<>>, <<>>, line'), Joint(<<>>, <<>>, line))
      <4>1. <<>> \in Seq(Note) /\ <<>> \in Seq(Token)
        OBVIOUS
      <4>. QED BY <1>0, <2>1, <4>1, LossSelects
    <3>3. \A l \in Seq(Token) : Joint(<<>>, <<>>, l) = l
      BY DEF Joint, Plain
    <3>4. Selected(line', line)
      BY <1>0, <3>2, <3>3
    <3>. QED BY <1>0, <3>4, SetOfStream
  <2>3. Said(line')
    BY <2>2 DEF Said
  <2>. QED BY <1>2, <1>14, <2>1, <2>3
<1>. QED BY <1>1, <1>6, <1>7, <1>8, <1>9, <1>10, <1>11, <1>12, <1>13, <1>14 DEF LinkStep

\* A stamp in the text is no later than the arrival in the driver.
LEMMA ArriveStep ==
    ASSUME ReplType, ReplType', PlaceInv, HeardInv, HeardInv', Ordered(Stream), ArriveInv, ReplNext
    PROVE  ArriveInv'
<1>0. /\ line \in Seq(Token) /\ driver \in Seq(Token) /\ text \in Seq(Note)
      /\ line' \in Seq(Token) /\ driver' \in Seq(Token) /\ text' \in Seq(Note)
      /\ triggers \in Nat /\ NIL \notin Nat /\ printed \subseteq Expect
      /\ arrived \in [Expect -> Nat \cup {NIL}]
  BY RunAssumption DEF ReplType
<1>1. /\ Drained' = Drained \/ driver' = <<>>
      /\ (arrived' = arrived /\ printed' = printed) \/ BoardMoves
  BY RareMoves
<1>2. printed \subseteq printed'
  BY PlaceMoves
<1>3. Drained \in Nat /\ triggers <= Drained
  BY <1>0 DEF Drained
\* What is under way or has arrived from the entry is a literal it has printed.
<1>4. \A u \in ToSet(Stream) : u.by = "entry" => u.is \in printed
  BY DEF HeardInv
<1>5. ToSet(driver) \subseteq ToSet(Stream) /\ ToSet(line) \subseteq ToSet(Stream)
  BY <1>0, TextInStream DEF Stream
<1>5a. ToSet(driver) \subseteq Token /\ ToSet(line) \subseteq Token
  BY <1>0, SetOfStream
<1>6. CASE BoardMoves /\ Arrives /\ text' = text
  <2>. DEFINE h == Head(line)
  <2>1. /\ line # <<>> /\ driver' = Append(driver, h) /\ line' = Tail(line)
        /\ UNCHANGED <<printed, text, triggers, place>>
    BY <1>6 DEF Arrives, BoardMoves, device, run
  <2>2. h \in Token /\ h = line[1] /\ Len(line) \in Nat \ {0}
    BY <1>0, <2>1
  <2>3. h \in ToSet(line)
    <3>1. 1 \in DOMAIN line
      BY <1>0, <2>2
    <3>. QED BY <2>2, <3>1 DEF ToSet
  <2>. HIDE DEF h
  <2>4. driver' # driver /\ Last(driver') = h /\ ToSet(driver') = ToSet(driver) \cup {h}
    <3>1. Len(driver') = Len(driver) + 1 /\ driver'[Len(driver) + 1] = h
      BY <1>0, <2>1, <2>2
    <3>2. Len(driver) \in Nat
      BY <1>0
    <3>3. driver' # driver /\ Last(driver') = h
      BY <3>1, <3>2 DEF Last
    <3>4. driver' = driver \o <<h>>
      BY <1>0, <2>1, <2>2, AppendIsConcat
    <3>. QED BY <1>0, <2>2, <3>3, <3>4, SetOfStream
  <2>5. arrived' = [p \in Expect |->
            IF arrived[p] = NIL /\ h = Tok(p, "entry") THEN Drained ELSE arrived[p]]
    BY <1>6, <2>4 DEF BoardMoves
  <2>6. Drained' = Drained
    BY <2>1 DEF Drained
  <2>7. \A p \in Expect : h = Tok(p, "entry") => h.by = "entry" /\ h.is = p
    BY DEF Tok
  <2>8. h.by = "entry" => h = Tok(h.is, "entry") /\ h.is \in printed /\ arrived[h.is] = NIL
    <3>1. h.by = "entry" => h = Tok(h.is, "entry")
      BY <2>2 DEF Token, Tok
    <3>. QED BY <1>4, <1>5, <2>3, <3>1 DEF ArriveInv
  <2>9. \A p \in Expect : arrived[p] # NIL => arrived'[p] = arrived[p]
    BY <2>5
  <2>10. ASSUME NEW u \in ToSet(text'), u.by = "entry"
         PROVE  arrived'[u.is] \in Nat /\ u.at <= arrived'[u.is]
    <3>1. arrived[u.is] \in Nat /\ u.at <= arrived[u.is]
      BY <2>1, <2>10 DEF ArriveInv
    <3>2. u.is \in Expect
      <4>1. Tok(u.is, u.by) \in ToSet(Stream)
        BY <1>0, <2>1, TextInStream DEF Stream
      <4>2. Tok(u.is, u.by).is = u.is /\ Tok(u.is, u.by).by = u.by
        BY DEF Tok
      <4>. QED BY <1>0, <1>4, <2>10, <4>1, <4>2
    <3>. QED BY <1>0, <2>9, <3>1, <3>2
  <2>11. ASSUME NEW u \in ToSet(driver'), u.by = "entry"
         PROVE  arrived'[u.is] \in Nat /\ Drained' <= arrived'[u.is]
    <3>1. CASE u \in ToSet(driver)
      <4>1. arrived[u.is] \in Nat /\ Drained <= arrived[u.is] /\ u.is \in Expect
        BY <1>0, <1>4, <1>5, <2>11, <3>1 DEF ArriveInv
      <4>. QED BY <1>0, <2>6, <2>9, <4>1
    <3>2. CASE u = h
      <4>1. arrived'[h.is] = Drained
        BY <1>0, <2>5, <2>8, <2>11, <3>2
      <4>. QED BY <1>3, <2>6, <3>2, <4>1
    <3>. QED BY <2>4, <3>1, <3>2
  <2>12. ASSUME NEW u \in ToSet(line'), u.by = "entry" PROVE arrived'[u.is] = NIL
    <3>1. PICK z \in 1..Len(line') : u = line'[z]
      BY <1>0, SetOfStream
    <3>2. z + 1 \in 1..Len(line) /\ u = line[z + 1] /\ 1 \in 1..Len(line) /\ 1 < z + 1
      BY <1>0, <2>1, <2>2, <3>1
    <3>3. u \in ToSet(line)
      BY <1>0, <3>2, SetOfStream
    <3>4. arrived[u.is] = NIL /\ u.is \in Expect /\ u \in Token
      BY <1>0, <1>4, <1>5, <1>5a, <2>12, <3>3 DEF ArriveInv
    <3>5. h = Tok(u.is, "entry") => FALSE
      <4>. SUFFICES ASSUME h = Tok(u.is, "entry") PROVE FALSE
        OBVIOUS
      <4>. DEFINE a == Len(text) + Len(driver) + 1
                  b == Len(text) + Len(driver) + (z + 1)
      <4>1. /\ Stream \in Seq(Token)
            /\ \A x \in DOMAIN line : Len(text) + Len(driver) + x \in DOMAIN Stream
                                   /\ Stream[Len(text) + Len(driver) + x] = line[x]
        BY <1>0, StreamParts DEF Stream
      <4>2. a \in DOMAIN Stream /\ Stream[a] = h /\ b \in DOMAIN Stream /\ Stream[b] = u /\ a < b
        <5>1. 1 \in DOMAIN line /\ z + 1 \in DOMAIN line
          BY <1>0, <3>2
        <5>2. a < b
          BY <1>0, <3>2
        <5>. QED BY <2>2, <3>2, <4>1, <5>1, <5>2
      <4>. HIDE DEF a, b
      <4>3. Follows(h, u)
        BY <4>1, <4>2 DEF Ordered
      <4>4. h.is = u.is /\ h.by = "entry" /\ Rank(h) = 4 /\ Rank(u) = 4
        BY <2>12 DEF Tok, Rank
      <4>5. u.is # "prompt"
        BY <3>4, WordsAreNoLiterals DEF Words
      <4>. QED BY <4>3, <4>4, <4>5 DEF Follows
    <3>. QED BY <2>5, <3>4, <3>5
  <2>13. ASSUME NEW p \in Expect \ printed' PROVE arrived'[p] = NIL
    <3>1. arrived[p] = NIL
      BY <2>1, <2>13 DEF ArriveInv
    <3>2. h # Tok(p, "entry")
      BY <2>1, <2>7, <2>8, <2>13
    <3>. QED BY <2>5, <3>1, <3>2
  <2>. QED BY <2>10, <2>11, <2>12, <2>13 DEF ArriveInv
<1>7. CASE /\ \A u \in ToSet(text') :
                   \/ u \in ToSet(text)
                   \/ u.at = triggers /\ \E v \in ToSet(driver) : v.is = u.is /\ v.by = u.by
           /\ driver' = driver \/ driver' = <<>>
           /\ \A u \in ToSet(line') : u \in ToSet(line) \/ MaySay(u) \/ u.by = "board"
  <2>1. arrived' = arrived
    <3>1. CASE BoardMoves
      <4>0. ~Arrives
        <5>1. ASSUME Arrives PROVE FALSE
          <6>1. driver' = Append(driver, Head(line)) /\ line # <<>>
            BY <5>1 DEF Arrives
          <6>2. Head(line) \in Token
            BY <1>0, <6>1
          <6>3. Len(driver') = Len(driver) + 1 /\ Len(driver) \in Nat
            BY <1>0, <6>1, <6>2
          <6>. QED BY <1>7, <6>3
        <5>. QED BY <5>1
      <4>1. driver' = driver
        BY <3>1, <4>0 DEF BoardMoves, BoardStep, OldPrints, OldEnds, EntryReads, EntryPrints, EntryEnds, Loses, link
      <4>2. arrived' = [p \in Expect |-> arrived[p]]
        BY <3>1, <4>1 DEF BoardMoves
      <4>. QED BY <1>0, <4>2
    <3>. QED BY <1>1, <3>1
  <2>2. ASSUME NEW u \in ToSet(text'), u.by = "entry" PROVE arrived[u.is] \in Nat /\ u.at <= arrived[u.is]
    <3>1. CASE u \in ToSet(text)
      BY <2>2, <3>1 DEF ArriveInv
    <3>2. CASE u.at = triggers /\ \E v \in ToSet(driver) : v.is = u.is /\ v.by = u.by
      <4>1. arrived[u.is] \in Nat /\ Drained <= arrived[u.is]
        BY <2>2, <3>2 DEF ArriveInv
      <4>. QED BY <1>0, <1>3, <3>2, <4>1
    <3>. QED BY <1>7, <3>1, <3>2
  <2>3. ASSUME NEW u \in ToSet(driver'), u.by = "entry" PROVE arrived[u.is] \in Nat /\ Drained' <= arrived[u.is]
    <3>1. driver' # <<>>
      BY <2>3 DEF ToSet
    <3>. QED BY <1>1, <1>7, <2>3, <3>1 DEF ArriveInv
  <2>4. ASSUME NEW u \in ToSet(line'), u.by = "entry" PROVE arrived[u.is] = NIL
    <3>1. CASE u \in ToSet(line)
      BY <2>4, <3>1 DEF ArriveInv
    <3>2. CASE MaySay(u)
      <4>1. u.is \in Expect \ printed
        BY <2>4, <3>2 DEF MaySay, Tok
      <4>. QED BY <4>1 DEF ArriveInv
    <3>. QED BY <1>7, <2>4, <3>1, <3>2
  <2>5. \A p \in Expect \ printed' : arrived[p] = NIL
    BY <1>2 DEF ArriveInv
  <2>. QED BY <2>1, <2>2, <2>3, <2>4, <2>5 DEF ArriveInv
<1>. QED BY <1>6, <1>7, TextGrows

(***************************************************************************)
(* The counts: triggers stamped, sent and read, and the waits begun.       *)
(***************************************************************************)
(* The stamps of the triggers are 1, 2, ... and count the writes passed.   *)
CountInv == target = "real" =>
    /\ asked.read <= asked.sent /\ asked.sent <= triggers
    /\ since = IF triggers = 0 THEN NIL ELSE triggers
    /\ place \notin Playing \cup Over => triggers = 0 /\ asked.sent = 0 /\ waited = <<>>
    /\ place \in {"step", "stamp", "look", "weigh"} => triggers = Cardinality(WritesBefore(i))
    /\ place = "send" => triggers = Cardinality(WritesBefore(i)) + 1 /\ asked.sent < triggers

(* A wait was begun with the stamp of its own trigger.                     *)
WaitedInv == target = "real" /\ EveryWaitIsAsked =>
    \A x \in DOMAIN waited : waited[x].since # NIL /\ waited[x].since = AskedBy(waited[x].needle)

(* An honest answer is stamped with its trigger or later.                  *)
HonestInv == target = "real" /\ entry = "honest" =>
    /\ \A u \in ToSet(text) : u.by = "entry" => AskedBy(u.is) <= u.at
    /\ \A u \in ToSet(driver) \cup ToSet(line) : u.by = "entry" => AskedBy(u.is) <= triggers

\* Writes are counted as they are passed.
LEMMA WritesCount ==
    /\ Cardinality(WritesBefore(1)) = 0
    /\ \A s \in DOMAIN Stimulus :
         /\ Cardinality(WritesBefore(s)) \in Nat
         /\ Cardinality(WritesBefore(s + 1)) =
                IF Stimulus[s] = "write" THEN Cardinality(WritesBefore(s)) + 1
                ELSE Cardinality(WritesBefore(s))
<1>0. DOMAIN Stimulus = 1..Len(Stimulus) /\ Len(Stimulus) \in Nat
  BY BoardAssumption
<1>1. WritesBefore(1) = {}
  BY <1>0 DEF WritesBefore
<1>2. Cardinality(WritesBefore(1)) = 0
  BY <1>1, FS_EmptySet
<1>3. ASSUME NEW s \in DOMAIN Stimulus
      PROVE  /\ Cardinality(WritesBefore(s)) \in Nat
             /\ Cardinality(WritesBefore(s + 1)) =
                  IF Stimulus[s] = "write" THEN Cardinality(WritesBefore(s)) + 1
                  ELSE Cardinality(WritesBefore(s))
  <2>1. IsFiniteSet(WritesBefore(s))
    <3>1. WritesBefore(s) \subseteq 1..Len(Stimulus)
      BY <1>0 DEF WritesBefore
    <3>2. IsFiniteSet(1..Len(Stimulus))
      BY <1>0, FS_Interval
    <3>. QED BY <3>1, <3>2, FS_Subset
  <2>2. Cardinality(WritesBefore(s)) \in Nat
    BY <2>1, FS_CardinalityType
  <2>3. CASE Stimulus[s] = "write"
    <3>1. WritesBefore(s + 1) = WritesBefore(s) \cup {s}
      BY <1>0, <2>3 DEF WritesBefore
    <3>2. s \notin WritesBefore(s)
      BY <1>0 DEF WritesBefore
    <3>3. Cardinality(WritesBefore(s) \cup {s}) = Cardinality(WritesBefore(s)) + 1
      BY <2>1, <3>2, FS_AddElement
    <3>. QED BY <2>2, <2>3, <3>1, <3>3
  <2>4. CASE Stimulus[s] # "write"
    <3>1. WritesBefore(s + 1) = WritesBefore(s)
      BY <1>0, <2>4 DEF WritesBefore
    <3>. QED BY <2>2, <2>4, <3>1
  <2>. QED BY <2>3, <2>4
<1>. QED BY <1>2, <1>3

\* Nothing is counted at the start.
LEMMA CountsInit == ReplInit => CountInv /\ WaitedInv /\ HonestInv
<1>. SUFFICES ASSUME ReplInit PROVE CountInv /\ WaitedInv /\ HonestInv
  OBVIOUS
<1>1. text = <<>> /\ driver = <<>> /\ line = <<>> /\ waited = <<>>
  BY DEF ReplInit, BoardInit
<1>2. ToSet(text) = {} /\ ToSet(driver) = {} /\ ToSet(line) = {} /\ DOMAIN waited = {}
  BY <1>1 DEF ToSet
<1>3. CountInv
  BY DEF ReplInit, BoardInit, CountInv, Playing, Over
<1>. QED BY <1>2, <1>3 DEF WaitedInv, HonestInv

\* The triggers stamped are those passed in the stimulus.
LEMMA CountStep ==
    ASSUME ReplType, ReplType', PlaceInv, CountInv, ReplNext
    PROVE  CountInv'
<1>0. /\ asked \in [sent : Nat, read : Nat] /\ asked' \in [sent : Nat, read : Nat]
      /\ triggers \in Nat /\ triggers' \in Nat /\ i \in Nat \ {0} /\ i' \in Nat \ {0}
      /\ target \in {"real", "renode"} /\ DOMAIN Stimulus = 1..Len(Stimulus) /\ Len(Stimulus) \in Nat
  BY BoardAssumption DEF ReplType
<1>1. target' = target
  BY PlaceMoves
<1>. SUFFICES ASSUME target = "real" PROVE CountInv'
  BY <1>1 DEF CountInv
<1>. DEFINE C(s) == Cardinality(WritesBefore(s))
<1>2. C(1) = 0 /\ \A s \in DOMAIN Stimulus : C(s) \in Nat /\ C(s + 1) = IF Stimulus[s] = "write" THEN C(s) + 1 ELSE C(s)
  BY WritesCount
<1>3. "write" \notin Expect /\ "delay" # "write"
  BY WordsAreNoLiterals
<1>. DEFINE NewInv ==
    /\ asked'.read <= asked'.sent /\ asked'.sent <= triggers'
    /\ since' = IF triggers' = 0 THEN NIL ELSE triggers'
    /\ place' \notin Playing \cup Over => triggers' = 0 /\ asked'.sent = 0 /\ waited' = <<>>
    /\ place' \in {"step", "stamp", "look", "weigh"} => triggers' = C(i')
    /\ place' = "send" => triggers' = C(i') + 1 /\ asked'.sent < triggers'
<1>. SUFFICES NewInv
  BY DEF CountInv
<1>4. /\ asked.read <= asked.sent /\ asked.sent <= triggers
      /\ since = IF triggers = 0 THEN NIL ELSE triggers
      /\ place \notin Playing \cup Over => triggers = 0 /\ asked.sent = 0 /\ waited = <<>>
      /\ place \in {"step", "stamp", "look", "weigh"} => triggers = C(i)
      /\ place = "send" => triggers = C(i) + 1 /\ asked.sent < triggers
  BY DEF CountInv
<1>. HIDE DEF C
<1>. USE <1>0 DEF PlaceInv, Playing, Over, On, Goto, Fails, env, run, kept, link, device, AtStep
<1>5. CASE Opens \/ Probes \/ ReadsProbe \/ ProbeUnknown \/ Wipes \/ Resets
  BY <1>4, <1>5 DEF Opens, Probes, ReadsProbe, ProbeUnknown, Wipes, Resets, Pump
<1>6. CASE Connects \/ SeesPrompt \/ SendsCtrlE \/ SeesBanner \/ NoBanner \/ PastesLine
  BY <1>4, <1>6 DEF Connects, SeesPrompt, SendsCtrlE, SeesBanner, NoBanner, PastesLine
<1>7. CASE PasteLate \/ Executes \/ CutsEcho \/ StimulusOver
  BY <1>2, <1>4, <1>7 DEF PasteLate, Executes, CutsEcho, StimulusOver
<1>8. CASE Delay
  <2>1. i \in DOMAIN Stimulus /\ Stimulus[i] = "delay"
    BY <1>8 DEF Delay, Step
  <2>2. C(i + 1) = C(i)
    BY <1>2, <1>3, <2>1
  <2>. QED BY <1>4, <1>8, <2>2 DEF Delay
<1>9. CASE BeginWrite
  BY <1>4, <1>9 DEF BeginWrite
<1>10. CASE Stamps
  <2>1. C(i) \in Nat
    BY <1>2, <1>10 DEF Stamps
  <2>. QED BY <1>4, <1>10, <2>1 DEF Stamps
<1>11. CASE Sends
  <2>1. i \in DOMAIN Stimulus /\ Stimulus[i] = "write" /\ place = "send"
    BY <1>11 DEF Sends
  <2>2. C(i + 1) = C(i) + 1
    BY <1>2, <2>1
  <2>3. asked' = [asked EXCEPT !.sent = @ + 1] /\ triggers' = triggers /\ since' = since /\ i' = i + 1 /\ place' = "step"
    BY <1>11 DEF Sends
  <2>4. asked'.sent = asked.sent + 1 /\ asked'.read = asked.read
    BY <2>3
  <2>. QED BY <1>4, <2>1, <2>2, <2>3, <2>4
<1>12. CASE BeginWait
  BY <1>4, <1>12 DEF BeginWait
<1>13. CASE LooksForStamp
  <2>1. i \in DOMAIN Stimulus /\ Stimulus[i] \in Expect
    BY <1>13 DEF LooksForStamp
  <2>2. C(i + 1) = C(i)
    BY <1>2, <1>3, <2>1
  <2>. QED BY <1>4, <1>13, <2>2 DEF LooksForStamp
<1>14. CASE Weighs \/ RenodeWaits \/ Receives \/ ReceiveEnds
  BY <1>4, <1>14 DEF Weighs, RenodeWaits, Receives, ReceiveEnds
<1>15. CASE Collects \/ CollectOver \/ JudgesReal \/ JudgesRenode \/ Verdict \/ DeadlinePasses
  BY <1>4, <1>15 DEF Collects, CollectOver, JudgesReal, JudgesRenode, Verdict, DeadlinePasses
<1>16. CASE BoardMoves
  <2>1. UNCHANGED <<place, i, triggers, since, waited>>
    BY <1>16 DEF BoardMoves
  <2>2. asked' = asked \/ (asked.read < asked.sent /\ asked' = [asked EXCEPT !.read = @ + 1])
    BY <1>16 DEF BoardMoves, BoardStep, OldPrints, OldEnds, EntryReads, EntryPrints, EntryEnds, Arrives, Loses
  <2>3. asked'.sent = asked.sent /\ asked'.read <= asked.sent
    BY <1>4, <2>2
  <2>. QED BY <1>4, <2>1, <2>3
<1>. QED BY <1>5, <1>6, <1>7, <1>8, <1>9, <1>10, <1>11, <1>12, <1>13, <1>14, <1>15, <1>16 DEF ReplNext, Runner

\* A wait begins with the last stamp, which is its own trigger's.
LEMMA WaitedStep ==
    ASSUME ReplType, PlaceInv, CountInv, WaitedInv, ReplNext
    PROVE  WaitedInv'
<1>0. target' = target /\ waited \in Seq([needle : Expect, since : Nat \cup {NIL}])
      /\ (waited' = waited \/ BeginWait)
  BY PlaceMoves, RareMoves DEF ReplType
<1>. SUFFICES ASSUME target = "real", EveryWaitIsAsked
     PROVE  \A x \in DOMAIN waited' : waited'[x].since # NIL /\ waited'[x].since = AskedBy(waited'[x].needle)
  BY <1>0 DEF WaitedInv
<1>1. \A x \in DOMAIN waited : waited[x].since # NIL /\ waited[x].since = AskedBy(waited[x].needle)
  BY DEF WaitedInv
<1>2. CASE BeginWait
  <2>. DEFINE w == [needle |-> Step, since |-> since]
  <2>1. Step \in Expect /\ i \in DOMAIN Stimulus /\ place = "step" /\ waited' = Append(waited, w)
    BY <1>2, BoardAssumption DEF BeginWait, AtStep, ReplType
  <2>2. AskedBy(Step) = Cardinality(WritesBefore(i)) /\ AskedBy(Step) > 0
    BY <2>1 DEF EveryWaitIsAsked, Step
  <2>3. triggers = Cardinality(WritesBefore(i)) /\ since = IF triggers = 0 THEN NIL ELSE triggers
    BY <2>1 DEF CountInv
  <2>4. triggers \in Nat /\ NIL \notin Nat
    BY RunAssumption DEF ReplType
  <2>5. w.since # NIL /\ w.since = AskedBy(w.needle)
    BY <2>2, <2>3, <2>4
  <2>6. w \in [needle : Expect, since : Nat \cup {NIL}]
    BY <2>1 DEF ReplType
  <2>. HIDE DEF w
  <2>7. /\ Len(waited') = Len(waited) + 1 /\ DOMAIN waited' = 1..(Len(waited) + 1)
        /\ \A x \in 1..Len(waited) : waited'[x] = waited[x]
        /\ waited'[Len(waited) + 1] = w
    BY <1>0, <2>1, <2>6
  <2>8. Len(waited) \in Nat /\ DOMAIN waited = 1..Len(waited)
    BY <1>0
  <2>9. \A x \in DOMAIN waited' : x \in DOMAIN waited \/ x = Len(waited) + 1
    BY <2>7, <2>8
  <2>. QED BY <1>1, <2>5, <2>7, <2>8, <2>9
<1>. QED BY <1>0, <1>1, <1>2

\* An honest answer is stamped no earlier than the trigger it answers.
LEMMA HonestStep ==
    ASSUME ReplType, ReplType', PlaceInv, HeardInv, CountInv, CountInv', HonestInv, ReplNext
    PROVE  HonestInv'
<1>0. /\ line \in Seq(Token) /\ driver \in Seq(Token) /\ text \in Seq(Note)
      /\ line' \in Seq(Token) /\ driver' \in Seq(Token) /\ text' \in Seq(Note)
      /\ triggers \in Nat /\ triggers' \in Nat /\ asked \in [sent : Nat, read : Nat]
  BY DEF ReplType
<1>1. target' = target /\ (entry' = "honest" => entry = "honest")
  BY PlaceMoves, RareMoves
<1>. SUFFICES ASSUME target = "real", entry = "honest"
     PROVE  /\ \A u \in ToSet(text') : u.by = "entry" => AskedBy(u.is) <= u.at
            /\ \A u \in ToSet(driver') \cup ToSet(line') : u.by = "entry" => AskedBy(u.is) <= triggers'
  BY <1>1 DEF HonestInv
<1>2. triggers <= triggers'
  <2>1. triggers' = triggers \/ triggers' = triggers + 1
    BY RareMoves DEF Stamps
  <2>. QED BY <1>0, <2>1
<1>3. \A u \in ToSet(driver) \cup ToSet(line) : u.by = "entry" => AskedBy(u.is) <= triggers
  BY DEF HonestInv
<1>4. \A u \in ToSet(text) : u.by = "entry" => AskedBy(u.is) <= u.at
  BY DEF HonestInv
<1>5. ASSUME NEW p \in Expect PROVE AskedBy(p) \in Nat
  <2>. DEFINE A == {s \in DOMAIN Stimulus :
                Stimulus[s] = "write" /\ {z \in DOMAIN Stimulus : Stimulus[z] = p} # {}
                /\ \A w \in {z \in DOMAIN Stimulus : Stimulus[z] = p} : s < w}
  <2>1. DOMAIN Stimulus = 1..Len(Stimulus) /\ Len(Stimulus) \in Nat
    BY BoardAssumption
  <2>2. IsFiniteSet(1..Len(Stimulus)) /\ A \subseteq 1..Len(Stimulus)
    BY <2>1, FS_Interval
  <2>3. Cardinality(A) \in Nat
    BY <2>2, FS_Subset, FS_CardinalityType
  <2>. QED BY <2>3 DEF AskedBy
<1>6. \A u \in ToSet(driver) \cup ToSet(line) : u.by = "entry" => u.is \in Expect
  <2>1. ToSet(driver) \subseteq ToSet(Stream) /\ ToSet(line) \subseteq ToSet(Stream)
    BY <1>0, TextInStream DEF Stream
  <2>. QED BY <2>1 DEF HeardInv, ReplType
<1>7. CASE BoardMoves /\ Arrives /\ text' = text
  <2>1. ToSet(driver') \cup ToSet(line') \subseteq ToSet(driver) \cup ToSet(line)
    <3>1. line # <<>> /\ driver' = Append(driver, Head(line)) /\ line' = Tail(line)
      BY <1>7 DEF Arrives
    <3>2. Head(line) = line[1] /\ line[1] \in Token /\ 1 \in DOMAIN line
      BY <1>0, <3>1
    <3>3. \A x \in 1..Len(driver') : driver'[x] = line[1] \/ (x \in DOMAIN driver /\ driver'[x] = driver[x])
      BY <1>0, <3>1, <3>2
    <3>4. \A x \in 1..Len(line') : x + 1 \in DOMAIN line /\ line'[x] = line[x + 1]
      BY <1>0, <3>1
    <3>5. ToSet(driver') \subseteq ToSet(driver) \cup ToSet(line)
      BY <1>0, <3>2, <3>3 DEF ToSet
    <3>6. ToSet(line') \subseteq ToSet(line)
      <4>1. DOMAIN line' = 1..Len(line')
        BY <1>0
      <4>2. \A x \in DOMAIN line' : line'[x] \in ToSet(line)
        BY <3>4, <4>1 DEF ToSet
      <4>. QED BY <4>2 DEF ToSet
    <3>. QED BY <3>5, <3>6
  <2>2. triggers' = triggers
    BY <1>7 DEF BoardMoves, run
  <2>. QED BY <1>3, <1>4, <1>7, <2>1, <2>2
<1>8. CASE /\ \A u \in ToSet(text') :
                   \/ u \in ToSet(text)
                   \/ u.at = triggers /\ \E v \in ToSet(driver) : v.is = u.is /\ v.by = u.by
           /\ driver' = driver \/ driver' = <<>>
           /\ \A u \in ToSet(line') : u \in ToSet(line) \/ MaySay(u) \/ u.by = "board"
  <2>1. ASSUME NEW u \in ToSet(text'), u.by = "entry" PROVE AskedBy(u.is) <= u.at
    BY <1>3, <1>4, <1>8, <2>1
  <2>2. ToSet(<<>>) = {}
    BY DEF ToSet
  <2>3. ASSUME NEW u \in ToSet(driver') \cup ToSet(line'), u.by = "entry" PROVE AskedBy(u.is) <= triggers'
    <3>1. CASE u \in ToSet(driver) \cup ToSet(line)
      <4>1. AskedBy(u.is) <= triggers /\ AskedBy(u.is) \in Nat
        BY <1>3, <1>5, <1>6, <2>3, <3>1
      <4>. QED BY <1>0, <1>2, <4>1
    <3>2. CASE MaySay(u)
      <4>1. u.is \in Expect /\ asked.read >= AskedBy(u.is)
        BY <2>3, <3>2 DEF MaySay, Tok
      <4>2. asked.read <= asked.sent /\ asked.sent <= triggers
        BY DEF CountInv
      <4>3. AskedBy(u.is) \in Nat
        BY <1>5, <4>1
      <4>. QED BY <1>0, <1>2, <4>1, <4>2, <4>3
    <3>. QED BY <1>8, <2>2, <2>3, <3>1, <3>2
  <2>. QED BY <2>1, <2>3
<1>. QED BY <1>7, <1>8, TextGrows

\* There is a first place where a literal is shown.
LEMMA FirstAtType ==
    ASSUME NEW t \in Seq(Note), NEW p, Found(t, p)
    PROVE  FirstAt(t, p) \in DOMAIN t /\ Shows(t[FirstAt(t, p)], p) /\ t[FirstAt(t, p)] \in ToSet(t)
<1>. DEFINE G == {x \in DOMAIN t : Shows(t[x], p)}
<1>1. G # {} /\ G \subseteq Nat
  BY DEF Found
<1>2. PICK g \in G : \A z \in G : <<z, g>> \notin OpToRel(<, Nat)
  <2>1. IsWellFoundedOn(OpToRel(<, Nat), Nat)
    BY NatLessThanWellFounded
  <2>. HIDE DEF G
  <2>. QED BY <1>1, <2>1, WFMin
<1>3. \A z \in G : ~(z < g)
  BY <1>1, <1>2 DEF OpToRel
<1>4. \A m \in DOMAIN t : Shows(t[m], p) => g <= m
  BY <1>3
<1>5. FirstAt(t, p) \in DOMAIN t /\ Shows(t[FirstAt(t, p)], p)
  BY <1>4 DEF FirstAt
<1>. QED BY <1>5 DEF ToSet

(* A run without an error passed the check of its waits.                   *)
JudgedInv == place \in Over /\ target = "real" /\ error = "none" => ~Convicted(text)

\* The verdict convicts whom the stamps convict.
LEMMA JudgedStep ==
    ASSUME ReplType, PlaceInv, JudgedInv, ReplNext
    PROVE  JudgedInv'
<1>0. target' = target /\ (waited' = waited \/ BeginWait)
  BY PlaceMoves, RareMoves
<1>. SUFFICES ASSUME place' \in Over, target = "real", error' = "none" PROVE ~Convicted(text)'
  BY <1>0 DEF JudgedInv
<1>1. waited' = waited
  BY <1>0 DEF BeginWait, Goto, Over
<1>2. \/ place \in Over /\ error = "none" /\ text' = text
      \/ JudgesReal \/ JudgesRenode
  BY EchoMoves
<1>3. CASE place \in Over /\ error = "none" /\ text' = text
  <2>1. ~Convicted(text)
    BY <1>3 DEF JudgedInv
  <2>. QED BY <1>1, <1>3, <2>1 DEF Convicted, Found, Answered, FirstAt
<1>4. CASE JudgesReal
  BY <1>1, <1>4 DEF JudgesReal, Convicted
<1>5. CASE JudgesRenode
  BY <1>5 DEF JudgesRenode, On
<1>. QED BY <1>2, <1>3, <1>4, <1>5

\* An answer in the text after an honest entry was asked for it convicts nobody.
LEMMA HonestIsAnswered ==
    ASSUME ReplType, PlaceInv, HeardInv, CountInv, WaitedInv, HonestInv, CleanInv,
           EveryWaitIsAsked, target = "real", entry = "honest", EchoBegins, place = "judge"
    PROVE  ~Convicted(Ingested)
<1>0. /\ Ingested \in Seq(Note) /\ <<>> \in Seq(Token) /\ line \in Seq(Token)
      /\ driver \in Seq(Token) /\ text \in Seq(Note) /\ triggers \in Nat
      /\ Joint(Ingested, <<>>, line) = Stream
      /\ waited \in Seq([needle : Expect, since : Nat \cup {NIL}])
  BY IngestedType, IngestionKeepsStream DEF ReplType
<1>1. Scored(Ingested)
  <2>1. Clean(Stream)
    BY DEF CleanInv, Playing
  <2>2. \A u \in ToSet(Stream) : u.by = "entry" => u.is \in Expect
    BY DEF HeardInv, ReplType
  <2>. QED BY <1>0, <2>1, <2>2, CleanIsScored
<1>2. ASSUME NEW u \in ToSet(Ingested), u.by = "entry" PROVE u.at >= AskedBy(u.is)
  <2>1. \/ u \in ToSet(text)
        \/ u.at = triggers /\ \E v \in ToSet(driver) : v.is = u.is /\ v.by = u.by
    BY IngestedTokens
  <2>. QED BY <1>2, <2>1 DEF HonestInv
<1>3. ASSUME NEW x \in DOMAIN waited, Found(Ingested, waited[x].needle)
      PROVE  Answered(Ingested, waited[x].needle, waited[x].since)
  <2>. DEFINE p == waited[x].needle
              u == Ingested[FirstAt(Ingested, p)]
  <2>1. p \in Expect
    <3>1. waited[x] \in [needle : Expect, since : Nat \cup {NIL}]
      <4>. DEFINE T == [needle : Expect, since : Nat \cup {NIL}]
      <4>1. waited \in Seq(T)
        BY <1>0
      <4>. HIDE DEF T
      <4>2. waited[x] \in T
        BY <4>1, ElementOfSeq
      <4>. QED BY <4>2 DEF T
    <3>. QED BY <3>1
  <2>2. Shows(u, p) /\ u \in ToSet(Ingested)
    BY <1>0, <1>3, FirstAtType
  <2>3. u.by = "entry" /\ u.is = p
    BY <1>1, <2>1, <2>2 DEF Scored
  <2>4. u.at >= AskedBy(p)
    BY <1>2, <2>2, <2>3
  <2>5. waited[x].since # NIL /\ waited[x].since = AskedBy(p)
    BY DEF WaitedInv
  <2>. QED BY <1>3, <2>4, <2>5 DEF Answered
<1>. QED BY <1>3 DEF Convicted

\* Hence an honest entry is not convicted.
LEMMA ConvictStep ==
    ASSUME ReplType, PlaceInv, HeardInv, CountInv, WaitedInv, HonestInv, CleanInv,
           HonestNeverConvicted, ReplNext
    PROVE  HonestNeverConvicted'
<1>0. /\ target' = target /\ (entry' = "honest" => entry = "honest")
      /\ missing \subseteq missing'
      /\ error' = "run" => error = "run" \/ JudgesReal \/ RenodeWaits
  BY PlaceMoves, RareMoves, EchoMoves
<1>. SUFFICES ASSUME EveryWaitIsAsked, target = "real", entry = "honest", EchoBegins, error' = "run"
     PROVE  FALSE
  BY <1>0 DEF HonestNeverConvicted, EchoBegins
<1>1. error # "run"
  BY DEF HonestNeverConvicted
<1>2. ~RenodeWaits
  BY DEF RenodeWaits
<1>3. JudgesReal
  BY <1>0, <1>1, <1>2
<1>4. text' = Ingested /\ waited' = waited /\ place = "judge"
  BY <1>3 DEF JudgesReal, Pump, On
<1>5. Convicted(text')
  BY <1>3 DEF JudgesReal
<1>6. ~Convicted(Ingested)
  BY <1>4, HonestIsAnswered
<1>. QED BY <1>4, <1>5, <1>6

(***************************************************************************)
(* The backup: what the probe's answer looks like on its way.              *)
(***************************************************************************)
Reply == {"mark", "end", "absent"}

(* Between the marks there is all of the file, or one thing has been lost. *)
Fits(s, f, t, w) ==
    \/ t = f + Len(Content) + 1 /\ \A d \in 1..Len(Content) : s[f + d].is = Content[d]
    \/ t = f + Len(Content) /\ w = 1
Intact(s, m, w) ==
    /\ \A x \in (m + 1)..Len(s) : s[x].is # "absent"
    /\ \A f, t \in (m + 1)..Len(s) : s[f].is = "mark" /\ s[t].is = "end" => Fits(s, f, t, w)

(* The user's file is on the board until it is in the backup, and while    *)
(* the probe is read all of its answer that is not lost is on its way.     *)
KeptInv == owned /\ lost <= 1 =>
    /\ flash = "user" \/ backup = Content
    /\ place \in {"start", "boot", "probe", "wipe"} => flash = "user"
    /\ place = "wipe" => backup = Content
    /\ place \in {"start", "boot"} => \A t \in ToSet(Stream) : t.is \notin Reply
    /\ place = "probe" => mark <= Len(text) /\ Intact(Stream, mark, lost)

\* At the start the user's file is on the board.
LEMMA KeptInit == ReplInit => KeptInv
<1>. SUFFICES ASSUME ReplInit PROVE KeptInv
  OBVIOUS
<1>1. Stream = <<>>
  BY DEF ReplInit, BoardInit, Stream, Joint, Plain
<1>2. ToSet(Stream) = {}
  BY <1>1 DEF ToSet
<1>3. place = "start" /\ (owned => flash = "user")
  BY DEF ReplInit, BoardInit
<1>. QED BY <1>2, <1>3 DEF KeptInv

\* Which steps touch the file on the board, its backup and the place.
LEMMA KeptMoves ==
    ASSUME ReplType, PlaceInv, ReplNext
    PROVE  /\ owned' = owned /\ lost <= lost'
           /\ flash' = flash \/ Wipes
           /\ backup' = backup \/ ReadsProbe
           /\ place' \in {"start", "boot"} => place \in {"start", "boot"}
           /\ place' = "probe" =>
                Probes \/ ReadsProbe \/ (place = "probe" /\ text' = text /\ mark' = mark)
           /\ place' = "wipe" => place = "wipe" \/ ReadsProbe
<1>0. lost \in Nat
  BY DEF ReplType
<1>. USE <1>0 DEF On, Goto, Fails, env, run, kept, link, device, AtStep
<1>1. CASE Opens \/ Probes \/ ReadsProbe \/ ProbeUnknown \/ Wipes \/ Resets
  BY <1>1 DEF Opens, Probes, ReadsProbe, ProbeUnknown, Wipes, Resets, Pump
<1>2. CASE Connects \/ SeesPrompt \/ SendsCtrlE \/ SeesBanner \/ NoBanner \/ PastesLine
  BY <1>2 DEF Connects, SeesPrompt, SendsCtrlE, SeesBanner, NoBanner, PastesLine, TakesCtrlE, TakesPasted, Pump
<1>3. CASE PasteLate \/ Executes \/ CutsEcho \/ Delay \/ StimulusOver \/ BeginWrite \/ Stamps \/ Sends
  BY <1>3 DEF PasteLate, Executes, CutsEcho, Delay, StimulusOver, BeginWrite, Stamps, Sends, Drains, Pump
<1>4. CASE BeginWait \/ LooksForStamp \/ Weighs \/ RenodeWaits \/ Receives \/ ReceiveEnds
  BY <1>4 DEF BeginWait, LooksForStamp, Weighs, RenodeWaits, Receives, ReceiveEnds, Pump
<1>6. CASE Collects \/ CollectOver \/ JudgesReal \/ JudgesRenode \/ Verdict \/ DeadlinePasses
  BY <1>6 DEF Collects, CollectOver, JudgesReal, JudgesRenode, Verdict, DeadlinePasses, Pump
<1>7. CASE BoardMoves
  <2>1. flash' = flash /\ lost <= lost'
    BY <1>7 DEF BoardMoves, BoardStep, OldPrints, OldEnds, EntryReads, EntryPrints, EntryEnds, Arrives, Loses
  <2>. QED BY <1>7, <2>1 DEF BoardMoves
<1>. QED BY <1>1, <1>2, <1>3, <1>4, <1>6, <1>7 DEF ReplNext, Runner

\* What may be said outside the probe's answer is no part of one.
LEMMA SpeechIsNoReply ==
    ASSUME NEW t, MaySay(t)
    PROVE  t.is \notin Reply
<1>1. \A p \in Expect : p \notin Reply
  BY WordsAreNoLiterals DEF Words, Reply
<1>2. CASE t = Tok("prompt", "board")
  BY <1>2 DEF Tok, Reply
<1>3. CASE t.by = "old" /\ t.is \in Expect \cup {"noise"}
  BY <1>1, <1>3 DEF Reply
<1>4. CASE t = Tok("banner", "board")
  BY <1>4 DEF Tok, Reply
<1>5. CASE i \in 1..2 /\ t = Tok(Source[i], "board")
  BY <1>5 DEF Tok, Reply, Source
<1>6. CASE \E p \in Expect \ printed : t = Tok(p, "entry")
  BY <1>1, <1>6 DEF Tok
<1>. QED BY <1>2, <1>3, <1>4, <1>5, <1>6 DEF MaySay

\* The length of the file.
LEMMA ContentLength == Len(Content) \in Nat
BY BoardAssumption

\* More talk does not touch the answer.
LEMMA TalkLeavesIntact ==
    ASSUME NEW s \in Seq(Token), NEW u \in Token, NEW m \in Nat, NEW w \in Nat,
           Intact(s, m, w), u.is \notin Reply
    PROVE  Intact(s \o <<u>>, m, w)
<1>. DEFINE r == s \o <<u>>
<1>1. Len(r) = Len(s) + 1 /\ Len(s) \in Nat /\ r[Len(s) + 1] = u /\ \A x \in 1..Len(s) : r[x] = s[x]
  OBVIOUS
<1>0. Len(Content) \in Nat
  BY BoardAssumption
<1>. HIDE DEF r
<1>2. ASSUME NEW x \in (m + 1)..Len(r), r[x].is \in Reply PROVE x \in (m + 1)..Len(s) /\ r[x] = s[x]
  <2>1. x # Len(s) + 1
    BY <1>1, <1>2
  <2>2. x \in (m + 1)..Len(s) /\ x \in 1..Len(s)
    BY <1>1, <2>1
  <2>. QED BY <1>1, <2>2
<1>3. ASSUME NEW x \in (m + 1)..Len(r) PROVE r[x].is # "absent"
  <2>1. ASSUME r[x].is = "absent" PROVE FALSE
    BY <1>2, <2>1 DEF Reply, Intact
  <2>. QED BY <2>1
<1>4. ASSUME NEW f \in (m + 1)..Len(r), NEW t \in (m + 1)..Len(r), r[f].is = "mark", r[t].is = "end"
      PROVE  Fits(r, f, t, w)
  <2>1. f \in (m + 1)..Len(s) /\ r[f] = s[f] /\ t \in (m + 1)..Len(s) /\ r[t] = s[t]
    BY <1>2, <1>4 DEF Reply
  <2>2. Fits(s, f, t, w)
    BY <1>4, <2>1 DEF Intact
  <2>3. CASE t = f + Len(Content) + 1 /\ \A d \in 1..Len(Content) : s[f + d].is = Content[d]
    <3>1. \A d \in 1..Len(Content) : f + d \in 1..Len(s)
      BY <1>0, <1>1, <2>1, <2>3
    <3>2. \A d \in 1..Len(Content) : r[f + d].is = Content[d]
      BY <1>1, <2>3, <3>1
    <3>. QED BY <2>3, <3>2 DEF Fits
  <2>. QED BY <2>2, <2>3 DEF Fits
<1>5. Intact(r, m, w)
  BY <1>3, <1>4 DEF Intact
<1>. QED BY <1>5 DEF r

\* The first loss takes at most one digit, or a mark.
LEMMA LossLeavesIntact ==
    ASSUME NEW r \in Seq(Token), NEW s \in Seq(Token), NEW m \in Nat, NEW c \in (m + 1)..Len(s),
           Len(r) = Len(s) - 1,
           \A x \in 1..Len(r) : r[x] = s[IF x < c THEN x ELSE x + 1],
           Intact(s, m, 0)
    PROVE  Intact(r, m, 1)
<1>0a. Len(Content) \in Nat
  BY ContentLength
<1>0b. Len(s) \in Nat /\ c \in Nat
  OBVIOUS
<1>0. Len(Content) \in Nat /\ Len(s) \in Nat /\ c \in Nat
  BY <1>0a, <1>0b
<1>. DEFINE g(x) == IF x < c THEN x ELSE x + 1
<1>1. ASSUME NEW x \in (m + 1)..Len(r) PROVE x \in 1..Len(r) /\ g(x) \in (m + 1)..Len(s) /\ r[x] = s[g(x)]
  <2>1. x \in 1..Len(r) /\ g(x) \in (m + 1)..Len(s)
    BY <1>0
  <2>. QED BY <2>1
<1>2. ASSUME NEW x \in (m + 1)..Len(r) PROVE r[x].is # "absent"
  <2>1. g(x) \in (m + 1)..Len(s) /\ r[x] = s[g(x)]
    BY <1>1
  <2>. HIDE DEF g
  <2>. QED BY <2>1 DEF Intact
<1>3. ASSUME NEW f \in (m + 1)..Len(r), NEW t \in (m + 1)..Len(r), r[f].is = "mark", r[t].is = "end"
      PROVE  Fits(r, f, t, 1)
  <2>1. g(f) \in (m + 1)..Len(s) /\ r[f] = s[g(f)] /\ g(t) \in (m + 1)..Len(s) /\ r[t] = s[g(t)]
    BY <1>1
  <2>2. Fits(s, g(f), g(t), 0)
    <3>. HIDE DEF g
    <3>. QED BY <1>3, <2>1 DEF Intact
  <2>3. g(t) = g(f) + Len(Content) + 1 /\ \A d \in 1..Len(Content) : s[g(f) + d].is = Content[d]
    BY <2>2 DEF Fits
  <2>4. CASE f < c /\ ~(t < c)
    <3>1. t = f + Len(Content)
      BY <1>0, <2>3, <2>4
    <3>. QED BY <3>1 DEF Fits
  <2>5. CASE f < c /\ t < c
    <3>1. t = f + Len(Content) + 1
      BY <1>0, <2>3, <2>5
    <3>2. \A d \in 1..Len(Content) : f + d \in 1..Len(r) /\ f + d < c
      BY <1>0, <2>5, <3>1
    <3>3. \A d \in 1..Len(Content) : r[f + d] = s[f + d]
      BY <3>2
    <3>4. g(f) = f
      BY <2>5
    <3>. HIDE DEF g
    <3>5. \A d \in 1..Len(Content) : s[f + d].is = Content[d]
      BY <2>3, <3>4
    <3>6. \A d \in 1..Len(Content) : r[f + d].is = Content[d]
      BY <3>3, <3>5
    <3>. QED BY <3>1, <3>6 DEF Fits
  <2>6. CASE ~(f < c)
    <3>1. t = f + Len(Content) + 1
      BY <1>0, <2>3, <2>6, SMTT(40)
    <3>2. \A d \in 1..Len(Content) : f + d \in 1..Len(r) /\ ~(f + d < c) /\ (f + d) + 1 = (f + 1) + d
      BY <1>0, <2>6, <3>1
    <3>3. \A d \in 1..Len(Content) : r[f + d] = s[(f + 1) + d]
      BY <3>2
    <3>4. g(f) = f + 1
      BY <2>6
    <3>. HIDE DEF g
    <3>5. \A d \in 1..Len(Content) : s[(f + 1) + d].is = Content[d]
      BY <2>3, <3>4
    <3>6. \A d \in 1..Len(Content) : r[f + d].is = Content[d]
      BY <3>3, <3>5
    <3>. QED BY <3>1, <3>6 DEF Fits
  <2>. QED BY <2>4, <2>5, <2>6
<1>. QED BY <1>2, <1>3 DEF Intact

\* The answer to the probe, whole.
LEMMA ProbeIsIntact ==
    ASSUME NEW s \in Seq(Token), NEW m \in Nat, m <= Len(s), NEW w \in Nat, NEW now,
           flash = "user", \A u \in ToSet(s) : u.is \notin Reply
    PROVE  Intact(s, m, w) /\ Intact(s \o ProbeAnswer(now), m, w)
<1>0. Len(Content) \in Nat /\ DOMAIN Content = 1..Len(Content) /\ Len(s) \in Nat
  <2>1. DOMAIN Content = 1..Len(Content)
    BY BoardAssumption
  <2>. QED BY <2>1, ContentLength
<1>1. \A x \in 1..Len(s) : s[x].is \notin Reply
  BY SetOfStream
<1>2. Intact(s, m, w)
  <2>1. \A x \in (m + 1)..Len(s) : x \in 1..Len(s)
    OBVIOUS
  <2>. QED BY <1>1, <2>1 DEF Intact, Reply
<1>3. CASE now # "prompt"
  <2>1. ProbeAnswer(now) = <<>>
    BY <1>3 DEF ProbeAnswer
  <2>2. s \o <<>> = s
    OBVIOUS
  <2>. QED BY <1>2, <2>1, <2>2
<1>4. CASE now = "prompt"
  <2>. DEFINE digits == [d \in DOMAIN Content |-> Tok(Content[d], "board")]
              a == ProbeAnswer(now)
              k == Len(Content)
              r == s \o a
  <2>1. a = <<Tok("mark", "board")>> \o digits \o <<Tok("end", "board")>>
    BY <1>4 DEF ProbeAnswer
  <2>2. digits \in Seq(Token) /\ Len(digits) = k /\ \A d \in 1..k : digits[d].is = Content[d] /\ digits[d].is \in HexDigits
    <3>1. \A d \in 1..k : Content[d] \in HexDigits
      BY <1>0, BoardAssumption, ElementOfSeq
    <3>2. \A d \in 1..k : Tok(Content[d], "board") \in Token
      BY <3>1 DEF Tok, Token, Literal
    <3>3. \A d \in 1..k : digits[d].is = Content[d]
      BY <1>0 DEF Tok
    <3>4. digits \in Seq(Token) /\ Len(digits) = k
      BY <1>0, <3>2
    <3>. QED BY <3>1, <3>3, <3>4
  <2>. HIDE DEF digits
  <2>3. /\ a \in Seq(Token) /\ Len(a) = k + 2
        /\ a[1].is = "mark" /\ a[k + 2].is = "end" /\ \A d \in 1..k : a[d + 1] = digits[d]
    <3>. DEFINE mk == Tok("mark", "board")
                en == Tok("end", "board")
    <3>1. mk \in Token /\ en \in Token /\ mk.is = "mark" /\ en.is = "end"
      BY DEF Tok, Token, Literal, Words
    <3>. HIDE DEF mk, en
    <3>. DEFINE b == <<mk>> \o digits
    <3>2. b \in Seq(Token) /\ Len(b) = k + 1 /\ b[1] = mk /\ \A d \in 1..k : b[d + 1] = digits[d]
      BY <1>0, <2>2, <3>1
    <3>. HIDE DEF b
    <3>3. a = b \o <<en>>
      BY <2>1 DEF b, mk, en
    <3>. HIDE DEF a
    <3>4. a \in Seq(Token) /\ Len(a) = k + 2 /\ a[k + 2] = en /\ \A x \in 1..(k + 1) : a[x] = b[x]
      BY <1>0, <3>1, <3>2, <3>3
    <3>5. \A d \in 1..k : d + 1 \in 1..(k + 1)
      BY <1>0
    <3>6. 1 \in 1..(k + 1)
      BY <1>0
    <3>. QED BY <3>1, <3>2, <3>4, <3>5, <3>6
  <2>. HIDE DEF a
  <2>4. Len(r) = Len(s) + k + 2 /\ \A x \in 1..Len(r) : r[x] = IF x <= Len(s) THEN s[x] ELSE a[x - Len(s)]
    <3>1. Len(s \o a) = Len(s) + Len(a)
          /\ \A x \in 1..(Len(s) + Len(a)) : (s \o a)[x] = IF x <= Len(s) THEN s[x] ELSE a[x - Len(s)]
      BY <2>3, ConcatProperties
    <3>2. Len(s) + Len(a) = Len(s) + k + 2
      BY <1>0, <2>3
    <3>. QED BY <3>1, <3>2
  <2>. HIDE DEF r
  <2>5. ASSUME NEW x \in 1..(k + 2)
        PROVE  x = 1 \/ x = k + 2 \/ (x - 1 \in 1..k /\ a[x].is \in HexDigits /\ a[x].is = Content[x - 1])
    <3>1. CASE x # 1 /\ x # k + 2
      <4>1. x - 1 \in 1..k /\ (x - 1) + 1 = x
        BY <1>0, <3>1
      <4>2. a[x] = digits[x - 1]
        BY <2>3, <4>1
      <4>. QED BY <2>2, <4>1, <4>2
    <3>. QED BY <3>1
  <2>6. HexDigits \cap Reply = {}
    BY DEF HexDigits, Reply
  <2>7. ASSUME NEW x \in 1..Len(r), r[x].is \in Reply
        PROVE  (x = Len(s) + 1 /\ r[x].is = "mark") \/ (x = Len(s) + k + 2 /\ r[x].is = "end")
    <3>1. x > Len(s)
      <4>1. CASE x <= Len(s)
        <5>1. x \in 1..Len(s) /\ r[x] = s[x]
          BY <1>0, <2>4, <4>1
        <5>. QED BY <1>1, <2>7, <5>1
      <4>. QED BY <1>0, <4>1
    <3>2. x - Len(s) \in 1..(k + 2) /\ r[x] = a[x - Len(s)]
      BY <1>0, <2>4, <3>1
    <3>3. x - Len(s) = 1 \/ x - Len(s) = k + 2
      BY <2>5, <2>6, <2>7, <3>2
    <3>4. CASE x - Len(s) = 1
      <4>1. x = Len(s) + 1
        BY <1>0, <3>4
      <4>. QED BY <2>3, <3>2, <3>4, <4>1
    <3>5. CASE x - Len(s) = k + 2
      <4>1. x = Len(s) + k + 2
        BY <1>0, <3>5
      <4>. QED BY <2>3, <3>2, <3>5, <4>1
    <3>. QED BY <3>3, <3>4, <3>5
  <2>8. ASSUME NEW x \in (m + 1)..Len(r) PROVE r[x].is # "absent"
    <3>1. x \in 1..Len(r)
      BY <1>0
    <3>. QED BY <2>7, <3>1 DEF Reply
  <2>9. ASSUME NEW f \in (m + 1)..Len(r), NEW t \in (m + 1)..Len(r), r[f].is = "mark", r[t].is = "end"
        PROVE  Fits(r, f, t, w)
    <3>1. f \in 1..Len(r) /\ t \in 1..Len(r)
      BY <1>0
    <3>2. f = Len(s) + 1 /\ t = Len(s) + k + 2
      BY <2>7, <2>9, <3>1 DEF Reply
    <3>3. ASSUME NEW d \in 1..k PROVE r[f + d].is = Content[d]
      <4>1. f + d \in 1..Len(r) /\ ~(f + d <= Len(s)) /\ (f + d) - Len(s) = d + 1
        BY <1>0, <2>4, <3>2
      <4>2. r[f + d] = a[d + 1]
        BY <2>4, <4>1
      <4>. QED BY <2>2, <2>3, <4>2
    <3>4. t = f + k + 1
      BY <1>0, <3>2
    <3>. QED BY <3>3, <3>4 DEF Fits
  <2>10. Intact(r, m, w)
    BY <2>8, <2>9 DEF Intact
  <2>. QED BY <1>2, <2>10 DEF r, a
<1>. QED BY <1>3, <1>4

\* Of two neighbours one is even.
LEMMA ParityAlternates ==
    ASSUME NEW k \in Nat, k % 2 = 0, (k - 1) % 2 = 0
    PROVE  FALSE
OBVIOUS

\* What the runner reads of an intact answer is the file.
LEMMA ReadingIsContent ==
    ASSUME NEW s \in Seq(Token), NEW t \in Seq(Note), NEW m \in 0..Len(t), NEW w \in Nat,
           Intact(s, m, w), \A x \in DOMAIN t : x \in DOMAIN s /\ s[x].is = t[x].is
    PROVE  ~Has(Since(t, m), "absent") /\ (FromHex(Since(t, m)) => Digits(Since(t, m)) = Content)
<1>. DEFINE a == Since(t, m)
<1>0. Len(Content) \in Nat /\ Len(t) \in Nat /\ m \in Nat
  <2>1. Len(t) \in Nat
    OBVIOUS
  <2>. QED BY <2>1, ContentLength
<1>1. a \in Seq(Note) /\ Len(a) = Len(t) - m /\ \A x \in 1..Len(a) : a[x] = t[x + m]
  BY SMT DEF Since
<1>. HIDE DEF a
<1>2. ASSUME NEW x \in DOMAIN a PROVE x + m \in (m + 1)..Len(s) /\ s[x + m].is = a[x].is /\ x \in Nat
  <2>1. x \in 1..Len(a) /\ x + m \in DOMAIN t
    BY <1>0, <1>1
  <2>2. x + m \in DOMAIN s /\ s[x + m].is = t[x + m].is
    BY <2>1
  <2>3. a[x] = t[x + m]
    BY <1>1, <2>1
  <2>4. x + m \in 1..Len(s) /\ x \in Nat \ {0}
    <3>1. DOMAIN s = 1..Len(s) /\ Len(s) \in Nat
      OBVIOUS
    <3>2. x \in 1..Len(a)
      BY <2>1
    <3>. QED BY <2>2, <3>1, <3>2
  <2>. QED BY <1>0, <2>2, <2>3, <2>4
<1>3. ~Has(a, "absent")
  <2>1. ASSUME NEW x \in DOMAIN a, a[x].is = "absent" PROVE FALSE
    BY <1>2, <2>1 DEF Intact
  <2>. QED BY <2>1 DEF Has
<1>4. ASSUME FromHex(a) PROVE Digits(a) = Content
  <2>. DEFINE f == CHOOSE x \in DOMAIN a : a[x].is = "mark"
              e == CHOOSE x \in DOMAIN a : a[x].is = "end"
  <2>1. f \in DOMAIN a /\ a[f].is = "mark" /\ e \in DOMAIN a /\ a[e].is = "end"
    BY <1>4 DEF FromHex, Has
  <2>2. Digits(a) = [x \in 1..(e - f - 1) |-> a[f + x].is]
    BY DEF Digits
  <2>. HIDE DEF f, e
  <2>3. f + m \in (m + 1)..Len(s) /\ s[f + m].is = "mark" /\ e + m \in (m + 1)..Len(s) /\ s[e + m].is = "end"
        /\ f \in Nat /\ e \in Nat
    BY <1>2, <2>1
  <2>4. Fits(s, f + m, e + m, w)
    BY <2>3 DEF Intact
  <2>5. CASE e + m = f + m + Len(Content) /\ w = 1
    <3>1. e - f - 1 = Len(Content) - 1
      <4>. DEFINE k == Len(Content)
      <4>1. e \in Nat /\ f \in Nat /\ k \in Nat /\ m \in Nat /\ e + m = f + m + k
        BY <1>0, <2>3, <2>5
      <4>. HIDE DEF k
      <4>2. e - f - 1 = k - 1
        BY <4>1
      <4>. QED BY <4>2 DEF k
    <3>2. Len(Content) # 0
      <4>1. e # f
        BY <2>1
      <4>. QED BY <1>0, <2>3, <2>5, <4>1
    <3>3. Len(Digits(a)) = Len(Content) - 1
      <4>1. Digits(a) = [x \in 1..(Len(Content) - 1) |-> a[f + x].is]
        BY <2>2, <3>1
      <4>2. Len(Content) - 1 \in Nat
        BY <1>0, <3>2
      <4>. HIDE <1>1, <1>2, <1>4, <2>1, <2>2
      <4>. QED BY <4>1, <4>2
    <3>4. Len(Digits(a)) % 2 = 0
      BY <1>4 DEF FromHex
    <3>5. (Len(Content) - 1) % 2 = 0 /\ Len(Content) % 2 = 0
      BY <3>3, <3>4, BoardAssumption
    <3>. QED BY <1>0, <3>5, ParityAlternates
  <2>6. CASE e + m = f + m + Len(Content) + 1 /\ \A d \in 1..Len(Content) : s[(f + m) + d].is = Content[d]
    <3>1. e - f - 1 = Len(Content)
      <4>. DEFINE k == Len(Content)
      <4>1. e \in Nat /\ f \in Nat /\ k \in Nat /\ m \in Nat /\ e + m = f + m + k + 1
        BY <1>0, <2>3, <2>6
      <4>. HIDE DEF k
      <4>2. e - f - 1 = k
        BY <4>1
      <4>. QED BY <4>2 DEF k
    <3>2. ASSUME NEW d \in 1..Len(Content) PROVE a[f + d].is = Content[d]
      <4>1. f + d \in DOMAIN a /\ (f + d) + m = (f + m) + d
        <5>1. f \in 1..Len(a) /\ e \in 1..Len(a) /\ DOMAIN a = 1..Len(a) /\ Len(a) \in Nat
          BY <1>1, <2>1
        <5>. QED BY <1>0, <3>1, <5>1
      <4>2. s[(f + d) + m].is = a[f + d].is
        BY <1>2, <4>1
      <4>. QED BY <2>6, <4>1, <4>2
    <3>3. Digits(a) = [x \in 1..Len(Content) |-> Content[x]]
      BY <2>2, <3>1, <3>2
    <3>4. Content = [x \in 1..Len(Content) |-> Content[x]]
      BY BoardAssumption
    <3>. QED BY <3>3, <3>4
  <2>. QED BY <2>4, <2>5, <2>6 DEF Fits
<1>. QED BY <1>3, <1>4 DEF a

\* A step keeps the user's file on the board or in the backup.
LEMMA KeptStep ==
    ASSUME ReplType, ReplType', PlaceInv, KeptInv, ReplNext
    PROVE  KeptInv'
<1>0. /\ line \in Seq(Token) /\ driver \in Seq(Token) /\ text \in Seq(Note) /\ text' \in Seq(Note)
      /\ lost \in Nat /\ lost' \in Nat /\ mark \in Nat /\ mark' \in Nat /\ flash \in {"user", "none"}
      /\ Len(text) \in Nat /\ Len(text') \in Nat
  BY SMTT(40) DEF ReplType
<1>1. /\ owned' = owned /\ lost <= lost'
      /\ flash' = flash \/ Wipes
      /\ backup' = backup \/ ReadsProbe
      /\ place' \in {"start", "boot"} => place \in {"start", "boot"}
      /\ place' = "probe" =>
           Probes \/ ReadsProbe \/ (place = "probe" /\ text' = text /\ mark' = mark)
      /\ place' = "wipe" => place = "wipe" \/ ReadsProbe
  BY KeptMoves
<1>. SUFFICES ASSUME owned, lost' <= 1
     PROVE  /\ flash' = "user" \/ backup' = Content
            /\ place' \in {"start", "boot", "probe", "wipe"} => flash' = "user"
            /\ place' = "wipe" => backup' = Content
            /\ place' \in {"start", "boot"} => \A t \in ToSet(Stream') : t.is \notin Reply
            /\ place' = "probe" => mark' <= Len(text') /\ Intact(Stream', mark', lost')
  <2>1. owned' /\ lost' <= 1 => owned /\ lost' <= 1
    BY <1>1
  <2>. QED BY <2>1 DEF KeptInv
<1>2. lost <= 1
  BY <1>0, <1>1
<1>3. /\ flash = "user" \/ backup = Content
      /\ place \in {"start", "boot", "probe", "wipe"} => flash = "user"
      /\ place = "wipe" => backup = Content
      /\ place \in {"start", "boot"} => \A t \in ToSet(Stream) : t.is \notin Reply
      /\ place = "probe" => mark <= Len(text) /\ Intact(Stream, mark, lost)
  BY <1>2 DEF KeptInv
<1>4. Stream \in Seq(Token) /\ Stream' \in Seq(Token)
  BY StreamStep
<1>5. /\ Ingested \in Seq(Note) /\ <<>> \in Seq(Token) /\ Joint(Ingested, <<>>, line) = Stream
      /\ Len(Ingested) \in Nat /\ Len(text) <= Len(Ingested)
      /\ \A x \in DOMAIN Ingested : x \in DOMAIN Stream /\ Stream[x] = Tok(Ingested[x].is, Ingested[x].by)
      /\ Len(Ingested) <= Len(Stream)
  <2>1. Ingested \in Seq(Note) /\ <<>> \in Seq(Token) /\ Joint(Ingested, <<>>, line) = Stream
    BY IngestedType, IngestionKeepsStream
  <2>2. Len(Ingested) = Len(text) + Len(driver) /\ Len(driver) \in Nat
    BY <1>0, IngestedType
  <2>. HIDE DEF Ingested
  <2>3. \A x \in DOMAIN Ingested : x \in DOMAIN Joint(Ingested, <<>>, line)
               /\ Joint(Ingested, <<>>, line)[x] = Tok(Ingested[x].is, Ingested[x].by)
    BY <1>0, <2>1, StreamParts
  <2>4. \A x \in DOMAIN Ingested : x \in DOMAIN Stream /\ Stream[x] = Tok(Ingested[x].is, Ingested[x].by)
    BY <2>1, <2>3
  <2>5. Len(Ingested) <= Len(Stream)
    <3>1. Len(Ingested) \in Nat /\ Len(Stream) \in Nat
      BY <1>4, <2>1
    <3>2. Len(Ingested) # 0 => Len(Ingested) \in DOMAIN Ingested
      BY <2>1, <3>1
    <3>3. Len(Ingested) # 0 => Len(Ingested) \in 1..Len(Stream)
      BY <1>4, <2>4, <3>2
    <3>. QED BY <3>1, <3>3
  <2>. QED BY <1>0, <2>1, <2>2, <2>4, <2>5
\* The probe's answer, read.
<1>6. ASSUME ReadsProbe
      PROVE  /\ place = "probe" /\ text' = Ingested /\ driver' = <<>> /\ line' = line
             /\ lost' = lost /\ mark' = mark /\ flash' = flash
             /\ place' = "wipe" => backup' = Content
             /\ backup' = backup \/ backup' = Content
  <2>1. /\ place = "probe" /\ text' = Ingested /\ driver' = <<>> /\ line' = line
        /\ lost' = lost /\ mark' = mark /\ flash' = flash
    BY <1>6 DEF ReadsProbe, On, Pump, device
  <2>. DEFINE answer == Since(Ingested, mark)
  <2>2. \/ Has(answer, "absent") /\ backup' = backup
        \/ FromHex(answer) /\ backup' = Digits(answer)
        \/ place' = "probe" /\ backup' = backup
    BY <1>6, <2>1 DEF ReadsProbe, Goto
  <2>3. Intact(Stream, mark, lost) /\ mark \in 0..Len(Ingested)
    BY <1>0, <1>3, <1>5, <2>1
  <2>4. \A x \in DOMAIN Ingested : x \in DOMAIN Stream /\ Stream[x].is = Ingested[x].is
    <3>1. \A x \in DOMAIN Ingested : Tok(Ingested[x].is, Ingested[x].by).is = Ingested[x].is
      BY DEF Tok
    <3>. HIDE DEF Ingested, Stream
    <3>. QED BY <1>5, <3>1
  <2>5. ~Has(answer, "absent") /\ (FromHex(answer) => Digits(answer) = Content)
    <3>. HIDE DEF Ingested
    <3>. QED BY <1>0, <1>4, <1>5, <2>3, <2>4, ReadingIsContent
  <2>. HIDE DEF answer
  <2>. QED BY <2>1, <2>2, <2>5
<1>7. ASSUME Wipes PROVE place = "wipe" /\ backup' = backup /\ place' = "reset"
  BY <1>7 DEF Wipes, On, Goto
<1>8. flash' = "user" \/ backup' = Content
  BY <1>1, <1>3, <1>6, <1>7
<1>9. ASSUME place' \in {"start", "boot", "probe", "wipe"} PROVE flash' = "user"
  <2>1. place \in {"start", "boot", "probe", "wipe"}
    BY <1>1, <1>6, <1>9 DEF Probes, On
  <2>. QED BY <1>1, <1>3, <1>7, <1>9, <2>1
<1>10. place' = "wipe" => backup' = Content
  BY <1>1, <1>3, <1>6
<1>11. ASSUME place' \in {"start", "boot"}, NEW t \in ToSet(Stream') PROVE t.is \notin Reply
  <2>1. \A u \in ToSet(Stream) : u.is \notin Reply
    BY <1>1, <1>3, <1>11
  <2>2. ~Probes
    BY <1>11 DEF Probes, Goto
  <2>3. CASE Selected(Stream', Stream)
    <3>1. t \in ToSet(Stream)
      BY <1>4, <2>3, SetOfStream
    <3>. QED BY <2>1, <3>1
  <2>4. ASSUME NEW u \in Token, Stream' = Stream \o <<u>>, MaySay(u) PROVE t.is \notin Reply
    <3>1. t \in ToSet(Stream) \cup {u}
      BY <1>4, <2>4, SetOfStream
    <3>. QED BY <2>1, <2>4, <3>1, SpeechIsNoReply
  <2>. QED BY <2>2, <2>3, <2>4, StreamStep
<1>12. ASSUME place' = "probe" PROVE mark' <= Len(text') /\ Intact(Stream', mark', lost')
  <2>1. CASE Probes
    <3>1. /\ place = "boot" /\ text' = Ingested /\ mark' = Len(Ingested) /\ driver' = <<>>
          /\ line' = line \/ line' = line \o ProbeAnswer(mode')
      BY <2>1 DEF Probes, On, Says
    <3>2. flash = "user" /\ \A u \in ToSet(Stream) : u.is \notin Reply
      BY <1>3, <3>1
    <3>. DEFINE a == ProbeAnswer(mode')
    <3>3. mark' \in Nat /\ mark' <= Len(Stream)
      BY <1>5, <3>1
    <3>4. Intact(Stream, mark', lost') /\ Intact(Stream \o a, mark', lost')
      BY <1>0, <1>4, <3>2, <3>3, ProbeIsIntact
    <3>5. Stream' = Stream \/ Stream' = Stream \o a
      <4>1. CASE line' = line
        <5>1. Stream' = Joint(Ingested, <<>>, line)
          BY <3>1, <4>1 DEF Stream
        <5>. QED BY <1>5, <5>1
      <4>2. CASE line' = line \o a
        <5>1. Stream' = Joint(Ingested, <<>>, line \o a)
          BY <3>1, <4>2 DEF Stream
        <5>2. a \in Seq(Token)
          BY ProbeAnswerType
        <5>3. Joint(Ingested, <<>>, line \o a) = Joint(Ingested, <<>>, line) \o a
          BY <1>0, <1>5, <5>2, SpeechAppends, ZenonT(40)
        <5>. QED BY <1>5, <5>1, <5>3
      <4>. QED BY <3>1, <4>1, <4>2
    <3>6. mark' <= Len(text')
      BY <1>5, <3>1
    <3>. HIDE DEF a
    <3>. QED BY <3>4, <3>5, <3>6
  <2>2. CASE ReadsProbe
    <3>1. Stream' = Joint(Ingested, <<>>, line)
      BY <1>6, <2>2 DEF Stream
    <3>2. Stream' = Stream /\ lost' = lost /\ mark' = mark /\ text' = Ingested /\ place = "probe"
      BY <1>5, <1>6, <2>2, <3>1
    <3>3. mark <= Len(Ingested)
      BY <1>0, <1>3, <1>5, <3>2
    <3>. QED BY <1>3, <3>2, <3>3
  <2>3. CASE place = "probe" /\ text' = text /\ mark' = mark
    <3>1. mark <= Len(text) /\ Intact(Stream, mark, lost)
      BY <1>3, <2>3
    <3>2. Intact(Stream, mark, lost')
      BY <1>0, <1>1, <3>1 DEF Intact, Fits
    <3>3. CASE Stream' = Stream
      BY <2>3, <3>1, <3>2, <3>3
    <3>4. ASSUME NEW u \in Token, Stream' = Stream \o <<u>>, MaySay(u)
          PROVE  Intact(Stream', mark, lost')
      BY <1>0, <1>4, <3>2, <3>4, SpeechIsNoReply, TalkLeavesIntact
    <3>5. CASE BoardMoves /\ Loses /\ UNCHANGED <<text, place>>
      <4>1. PICK k \in DOMAIN line : line' = RemoveAt(line, k) /\ driver' = driver /\ lost' = lost + 1
        BY <3>5 DEF Loses
      <4>2. lost = 0 /\ lost' = 1
        BY <1>0, <4>1
      <4>. DEFINE c == Len(text) + Len(driver) + k
                  r == Joint(text, driver, RemoveAt(line, k))
                  s == Joint(text, driver, line)
      <4>3. /\ Len(r) = Len(s) - 1
            /\ \A x \in 1..Len(r) : r[x] = s[IF x < c THEN x ELSE x + 1]
        BY <1>0, LossLeaves
      <4>4. c \in DOMAIN s /\ Len(driver) \in Nat /\ k \in Nat \ {0}
        <5>1. c \in DOMAIN s
          BY <1>0, StreamParts
        <5>2. Len(driver) \in Nat /\ DOMAIN line = 1..Len(line)
          BY <1>0
        <5>. QED BY <5>1, <5>2
      <4>5. Stream' = r
        BY <2>3, <4>1 DEF Stream
      <4>6. Stream = s
        BY DEF Stream
      <4>7. c > mark /\ c \in Nat
        BY <1>0, <3>1, <4>4
      <4>. HIDE DEF c, r, s
      <4>8. c \in (mark + 1)..Len(s)
        BY <1>0, <1>4, <4>4, <4>6, <4>7
      <4>9. Intact(r, mark, 1)
        BY <1>0, <1>4, <3>1, <4>2, <4>3, <4>5, <4>6, <4>8, LossLeavesIntact
      <4>. QED BY <2>3, <3>1, <4>2, <4>5, <4>9
    <3>6. CASE ~(BoardMoves /\ Loses /\ UNCHANGED <<text, place>>)
      <4>1. ~Probes /\ ~Resets /\ ~CutsEcho /\ ~JudgesRenode
        BY <2>3 DEF Probes, Resets, CutsEcho, JudgesRenode, On
      <4>2. CASE Quietly
        BY <3>3, <4>2 DEF Quietly, Stream
      <4>3. CASE Ingests
        <5>1. Stream' = Joint(Ingested, <<>>, line)
          BY <4>3 DEF Ingests, Stream
        <5>. QED BY <1>5, <3>3, <5>1
      <4>4. CASE Speaks
        <5>1. PICK u \in Token : line' = line \o <<u>> /\ MaySay(u) /\ driver' = driver /\ text' = text
          BY <4>4 DEF Speaks
        <5>2. <<u>> \in Seq(Token)
          OBVIOUS
        <5>3. Stream' = Joint(text, driver, line \o <<u>>)
          BY <5>1 DEF Stream
        <5>4. Stream' = Stream \o <<u>>
          BY <1>0, <5>2, <5>3, SpeechAppends DEF Stream
        <5>5. Intact(Stream', mark, lost')
          BY <3>4, <5>1, <5>4
        <5>. QED BY <2>3, <3>1, <5>5
      <4>5. CASE BoardMoves /\ Arrives /\ UNCHANGED <<text, place>>
        <5>1. Stream' = Joint(text, Append(driver, Head(line)), Tail(line)) /\ line # <<>>
          BY <4>5 DEF Arrives, Stream
        <5>2. Stream' = Stream
          BY <5>1, ArrivalKeepsStream
        <5>. QED BY <3>3, <5>2
      <4>. QED BY <3>6, <4>1, <4>2, <4>3, <4>4, <4>5, AnyLinkStep DEF LinkStep
    <3>. QED BY <3>5, <3>6
  <2>. QED BY <1>1, <1>12, <2>1, <2>2, <2>3
<1>. QED BY <1>8, <1>9, <1>10, <1>11, <1>12

(***************************************************************************)
(* The theorems.                                                           *)
(***************************************************************************)
(* The inductive invariant.                                                *)
RunInv ==
    /\ ReplType /\ PlaceInv /\ HeardInv /\ Ordered(Stream) /\ EchoInv /\ CleanInv
    /\ ArriveInv /\ CountInv /\ WaitedInv /\ HonestInv /\ JudgedInv /\ HonestNeverConvicted
    /\ KeptInv

\* The invariant holds at the start.
LEMMA RunInit == ReplInit => RunInv
<1>. SUFFICES ASSUME ReplInit PROVE RunInv
  OBVIOUS
<1>1. EchoInv /\ CleanInv /\ JudgedInv /\ HonestNeverConvicted
  BY DEF ReplInit, EchoInv, CleanInv, JudgedInv, HonestNeverConvicted, Playing, Over
<1>. QED BY <1>1, TypeInit, PlaceInit, HeardInit, ArriveInit, CountsInit, KeptInit DEF RunInv

\* The invariant is inductive.
LEMMA RunStep == RunInv /\ ReplNext => RunInv'
<1>. SUFFICES ASSUME RunInv, ReplNext PROVE RunInv'
  OBVIOUS
<1>0. /\ ReplType /\ PlaceInv /\ HeardInv /\ Ordered(Stream) /\ EchoInv /\ CleanInv
      /\ ArriveInv /\ CountInv /\ WaitedInv /\ HonestInv /\ JudgedInv /\ HonestNeverConvicted
      /\ KeptInv
  BY DEF RunInv
<1>1. ReplType' /\ PlaceInv'
  BY <1>0, TypeStep, PlaceStep
<1>2. HeardInv'
  BY <1>0, <1>1, HeardStep
<1>3. Ordered(Stream')
  BY <1>0, <1>1, <1>2, OrderStep
<1>4. EchoInv'
  BY <1>0, <1>1, EchoStep
<1>5. CleanInv'
  BY <1>0, <1>1, <1>2, CleanStep
<1>6. ArriveInv'
  BY <1>0, <1>1, <1>2, ArriveStep
<1>7. CountInv' /\ WaitedInv'
  BY <1>0, <1>1, CountStep, WaitedStep
<1>8. HonestInv'
  BY <1>0, <1>1, <1>7, HonestStep
<1>9. JudgedInv' /\ HonestNeverConvicted'
  BY <1>0, JudgedStep, ConvictStep
<1>10. KeptInv'
  BY <1>0, <1>1, KeptStep
<1>. QED BY <1>1, <1>2, <1>3, <1>4, <1>5, <1>6, <1>7, <1>8, <1>9, <1>10 DEF RunInv, Ordered

\* A stuttering step keeps it.
LEMMA RunStutters == RunInv /\ UNCHANGED replVars => RunInv'
<1>. SUFFICES ASSUME RunInv, UNCHANGED replVars PROVE RunInv'
  OBVIOUS
<1>. USE DEF replVars, run, kept, env, device, link
<1>1. UNCHANGED <<text, driver, line>>
  OBVIOUS
<1>2. Stream' = Stream
  BY <1>1 DEF Stream
<1>3. ReplType' /\ PlaceInv'
  BY TypeStutters DEF RunInv, PlaceInv
<1>4. HeardInv' /\ Ordered(Stream)'
  BY <1>2 DEF RunInv, HeardInv, Ordered
<1>5. EchoInv' /\ CleanInv'
  BY <1>2 DEF RunInv, EchoInv, CleanInv, EchoBegins, Heard, Clean, Scored, AllFound, Found
<1>6. ArriveInv'
  BY DEF RunInv, ArriveInv, Drained
<1>7. CountInv' /\ WaitedInv' /\ HonestInv'
  BY DEF RunInv, CountInv, WaitedInv, HonestInv
<1>8. JudgedInv' /\ HonestNeverConvicted'
  BY DEF RunInv, JudgedInv, HonestNeverConvicted, EchoBegins, Convicted, Found, Answered, FirstAt
<1>9. KeptInv'
  BY <1>2 DEF RunInv, KeptInv, Intact
<1>. QED BY <1>3, <1>4, <1>5, <1>6, <1>7, <1>8, <1>9 DEF RunInv

\* The invariant of every run of the live board and of Renode.
LEMMA RunInvariant == ReplSpec => []RunInv
<1>1. RunInv /\ [ReplNext]_replVars => RunInv'
  BY RunStep, RunStutters
<1>. QED BY <1>1, RunInit, PTL DEF ReplSpec

(* boot() of the live board (realhw.py) wipes main.py only when the backup *)
(* read from the probe's answer holds all of it, or the board said that    *)
(* there is none: with one loss on the line at most, for every content and *)
(* every delay of the answer.                                              *)
THEOREM UserCodeKept == ReplSpec => []UserCodeIsKept
<1>1. RunInv => UserCodeIsKept
  BY DEF RunInv, KeptInv, UserCodeIsKept
<1>. QED BY <1>1, RunInvariant, PTL

\* What is found in a text that shows only the entry's answers is one of them.
LEMMA ScoredIsPrinted ==
    ASSUME RunInv, passed, EchoBegins, NEW p \in Expect
    PROVE  LET u == text[FirstAt(text, p)] IN
           u \in ToSet(text) /\ u.by = "entry" /\ u.is = p /\ p \in printed
<1>. DEFINE u == text[FirstAt(text, p)]
<1>0. text \in Seq(Note) /\ driver \in Seq(Token) /\ line \in Seq(Token)
  BY DEF RunInv, ReplType
<1>1. place \in Over /\ error = "none" /\ AllFound(text)
  BY DEF RunInv, PlaceInv, CleanInv, Over
<1>2. Scored(text) /\ Found(text, p)
  BY <1>1 DEF RunInv, CleanInv, AllFound
<1>3. u \in ToSet(text) /\ Shows(u, p)
  BY <1>0, <1>2, FirstAtType
<1>4. u.by = "entry" /\ u.is = p
  BY <1>2, <1>3 DEF Scored
<1>5. Tok(u.is, u.by) \in ToSet(Stream) /\ Tok(u.is, u.by).by = u.by /\ Tok(u.is, u.by).is = u.is
  BY <1>0, <1>3, TextInStream DEF Stream, Tok
<1>6. p \in printed
  BY <1>4, <1>5 DEF RunInv, HeardInv
<1>. QED BY <1>3, <1>4, <1>6

(* _truncate of both runners leaves nothing of the echo and of the old     *)
(* program's talk where literals are looked for: a passed run shows that   *)
(* the entry has printed all that is expected, whatever is lost after the  *)
(* echo's first line.                                                      *)
THEOREM EntryIsScored == ReplSpec => []OnlyTheEntryIsScored
<1>1. RunInv => OnlyTheEntryIsScored
  <2>. SUFFICES ASSUME RunInv, passed, EchoBegins PROVE printed = Expect
    BY DEF OnlyTheEntryIsScored
  <2>1. Expect \subseteq printed
    BY ScoredIsPrinted
  <2>. QED BY <2>1 DEF RunInv, ReplType
<1>. QED BY <1>1, RunInvariant, PTL

(* On the live board first_occurrence_stamp and the stamps of              *)
(* runner_real.py credit no answer that was in the driver's buffer before  *)
(* its trigger was drained for: it arrives after that stamp.               *)
THEOREM AnswersAreNew == ReplSpec => []AnswersArriveAfterTheDrain
<1>1. RunInv => AnswersArriveAfterTheDrain
  <2>. SUFFICES ASSUME RunInv, passed, target = "real", EchoBegins, NEW x \in DOMAIN waited
       PROVE  arrived[waited[x].needle] # NIL /\ arrived[waited[x].needle] >= waited[x].since
    BY DEF AnswersArriveAfterTheDrain
  <2>. DEFINE T == [needle : Expect, since : Nat \cup {NIL}]
              p == waited[x].needle
              u == text[FirstAt(text, p)]
  <2>1. waited \in Seq(T) /\ text \in Seq(Note) /\ NIL \notin Nat
    BY RunAssumption DEF RunInv, ReplType
  <2>2. waited[x] \in T
    <3>. HIDE DEF T
    <3>. QED BY <2>1, ElementOfSeq
  <2>3. p \in Expect /\ waited[x].since \in Nat \cup {NIL}
    BY <2>2
  <2>4. u \in ToSet(text) /\ u.by = "entry" /\ u.is = p
    BY <2>3, ScoredIsPrinted
  <2>5. place \in Over /\ error = "none" /\ AllFound(text)
    BY DEF RunInv, PlaceInv, CleanInv, Over
  <2>6. ~Convicted(text)
    BY <2>5 DEF RunInv, JudgedInv
  <2>7. waited[x].since # NIL /\ u.at >= waited[x].since
    BY <2>3, <2>5, <2>6 DEF Convicted, AllFound, Answered
  <2>8. arrived[p] \in Nat /\ u.at <= arrived[p]
    BY <2>4 DEF RunInv, ArriveInv
  <2>9. u.at \in Nat
    <3>1. u \in Note
      BY <2>1, <2>4 DEF ToSet
    <3>. QED BY <3>1 DEF Note
  <2>. HIDE DEF p, u
  <2>10. arrived[p] # NIL /\ arrived[p] >= waited[x].since
    BY <2>1, <2>3, <2>7, <2>8, <2>9
  <2>. QED BY <2>10 DEF p
<1>. QED BY <1>1, RunInvariant, PTL

(* The wait loop of runner_real.py never convicts an entry that answers    *)
(* only what it was asked, for every stimulus whose waits are asked for,   *)
(* whatever the delays.                                                    *)
THEOREM HonestRuns == ReplSpec => []HonestNeverConvicted
<1>1. RunInv => HonestNeverConvicted
  BY DEF RunInv
<1>. QED BY <1>1, RunInvariant, PTL
==============================================================================
