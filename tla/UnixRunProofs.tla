---------------------------- MODULE UnixRunProofs ----------------------------
(***************************************************************************)
(* Proofs about the anti-cheat of the unix target, for every stimulus and  *)
(* every cap: a pass is earned, and an honest firmware is not convicted by *)
(* the stamps.                                                             *)
(***************************************************************************)
EXTENDS UnixRun, FiniteSetTheorems, SequenceTheorems, TLAPS

USE DEF triggers, book, life

(***************************************************************************)
(* Counting the steps of the stimulus.                                     *)
(***************************************************************************)

\* The steps before one are finitely many.
LEMMA CountType ==
    ASSUME NEW j \in Nat, NEW kind
    PROVE  IsFiniteSet(StepsBefore(j, kind)) /\ Count(j, kind) \in Nat
<1>1. IsFiniteSet(1..(j - 1))
  BY FS_Interval
<1>2. StepsBefore(j, kind) \subseteq 1..(j - 1)
  BY DEF StepsBefore
<1>3. IsFiniteSet(StepsBefore(j, kind))
  BY <1>1, <1>2, FS_Subset
<1>. QED BY <1>3, FS_CardinalityType DEF Count

\* Before the first step there is none.
LEMMA CountFirst ==
    ASSUME NEW kind
    PROVE  Count(1, kind) = 0
<1>1. StepsBefore(1, kind) = {}
  BY DEF StepsBefore
<1>. QED BY <1>1, FS_EmptySet DEF Count

\* A step counts for its own kind, and for no other.
LEMMA CountNext ==
    ASSUME NEW j \in DOMAIN Stimulus, NEW kind
    PROVE  Count(j + 1, kind) = IF Stimulus[j] = kind THEN Count(j, kind) + 1 ELSE Count(j, kind)
<1>1. j \in Nat \ {0}
  BY UnixRunAssumption
<1>2. CASE Stimulus[j] = kind
  <2>1. StepsBefore(j + 1, kind) = StepsBefore(j, kind) \cup {j}
    BY <1>1, <1>2 DEF StepsBefore
  <2>2. j \notin StepsBefore(j, kind)
    BY <1>1 DEF StepsBefore
  <2>3. IsFiniteSet(StepsBefore(j, kind))
    BY <1>1, CountType
  <2>. QED BY <1>2, <2>1, <2>2, <2>3, FS_AddElement DEF Count
<1>3. CASE Stimulus[j] # kind
  <2>1. StepsBefore(j + 1, kind) = StepsBefore(j, kind)
    BY <1>1, <1>3 DEF StepsBefore
  <2>. QED BY <1>3, <2>1 DEF Count
<1>. QED BY <1>2, <1>3

\* Counts grow along the stimulus.
LEMMA CountGrows ==
    ASSUME NEW j \in Nat, NEW k \in Nat, j <= k, NEW kind
    PROVE  Count(j, kind) <= Count(k, kind)
<1>1. StepsBefore(j, kind) \subseteq StepsBefore(k, kind)
  BY DEF StepsBefore
<1>2. IsFiniteSet(StepsBefore(k, kind))
  BY CountType
<1>. QED BY <1>1, <1>2, FS_Subset DEF Count

\* A wait's needle is one of the needles, and its trigger one of the triggers.
LEMMA NeedleType ==
    ASSUME NEW j \in DOMAIN Stimulus, Stimulus[j] = "wait"
    PROVE  Needle(j) \in Needles /\ Count(j, "write") \in 0..Triggers
<1>1. j \in Nat \ {0} /\ Len(Stimulus) \in Nat /\ j <= Len(Stimulus)
  BY UnixRunAssumption
<1>2. Count(j + 1, "wait") = Count(j, "wait") + 1
  BY CountNext
<1>3. Count(j + 1, "wait") <= Count(Len(Stimulus) + 1, "wait")
  BY <1>1, CountGrows
<1>4. Count(j, "write") <= Count(Len(Stimulus) + 1, "write")
  BY <1>1, CountGrows
<1>5. /\ Count(j, "wait") \in Nat /\ Count(Len(Stimulus) + 1, "wait") \in Nat
      /\ Count(j, "write") \in Nat /\ Count(Len(Stimulus) + 1, "write") \in Nat
  BY <1>1, CountType
<1>. QED BY <1>2, <1>3, <1>4, <1>5 DEF Needle, Needles, Waits, Triggers

\* Two waits have two needles.
LEMMA NeedleInjective ==
    ASSUME NEW j \in DOMAIN Stimulus, Stimulus[j] = "wait",
           NEW k \in DOMAIN Stimulus, Stimulus[k] = "wait", j < k
    PROVE  Needle(j) < Needle(k)
<1>1. j \in Nat \ {0} /\ k \in Nat \ {0} /\ j + 1 <= k
  BY UnixRunAssumption
<1>2. Count(j + 1, "wait") = Count(j, "wait") + 1
  BY CountNext
<1>3. Count(j + 1, "wait") <= Count(k, "wait")
  BY <1>1, CountGrows
<1>4. Count(j, "wait") \in Nat /\ Count(k, "wait") \in Nat
  BY <1>1, CountType
<1>. QED BY <1>2, <1>3, <1>4 DEF Needle

\* AskedBy is the trigger count of the needle's wait.
LEMMA AskedByFact ==
    ASSUME NEW j \in DOMAIN Stimulus, Stimulus[j] = "wait"
    PROVE  AskedBy(Needle(j)) = Count(j, "write")
<1>. DEFINE Of(t) == \E k \in DOMAIN Stimulus : /\ Stimulus[k] = "wait" /\ Needle(k) = Needle(j)
                                                /\ t = Count(k, "write")
<1>1. Count(j, "write") \in 0..Triggers
  BY NeedleType
<1>2. Of(Count(j, "write"))
  OBVIOUS
<1>3. ASSUME NEW t \in 0..Triggers, Of(t) PROVE t = Count(j, "write")
  <2>1. PICK k \in DOMAIN Stimulus :
              Stimulus[k] = "wait" /\ Needle(k) = Needle(j) /\ t = Count(k, "write")
    BY <1>3
  <2>2. j \in Nat /\ k \in Nat
    BY UnixRunAssumption
  <2>3. Needle(j) \in Nat /\ Needle(k) \in Nat
    BY <2>2, CountType DEF Needle
  <2>4. ~(j < k)
    BY <2>1, <2>3, NeedleInjective
  <2>5. ~(k < j)
    BY <2>1, <2>3, NeedleInjective
  <2>6. j = k
    BY <2>2, <2>4, <2>5
  <2>. QED BY <2>1, <2>6
<1>4. AskedBy(Needle(j)) = CHOOSE t \in 0..Triggers : Of(t)
  BY DEF AskedBy
<1>. HIDE DEF Of
<1>. QED BY <1>1, <1>2, <1>3, <1>4

(***************************************************************************)
(* The inductive invariant.                                                *)
(***************************************************************************)

Stamp == Nat \cup {NotYet}
WaitSteps == {j \in DOMAIN Stimulus : Stimulus[j] = "wait"}

Typed ==
    /\ i \in Nat \ {0}
    /\ stamped \in Nat /\ sent \in Nat /\ delivered \in Nat /\ read \in Nat
    /\ waited \in Seq(Nat \X Nat)
    /\ first \in [Needles -> Stamp] /\ printed \in [Needles -> Stamp]
    /\ pipe \in Seq(Nat)

(* The trigger count of the step the main thread is at is what it has      *)
(* stamped.                                                                *)
Position ==
    /\ pc = "prepare" => i = 1 /\ stamped = 0
    /\ pc \in {"step", "look", "weigh", "gone", "quiet", "stamp"} => stamped = Count(i, "write")
    /\ pc = "write" => stamped = Count(i, "write") + 1
    /\ pc \in {"look", "weigh", "gone"} => i \in DOMAIN Stimulus /\ Stimulus[i] = "wait"
    /\ pc \in {"quiet", "stamp", "write"} => i \in DOMAIN Stimulus /\ Stimulus[i] = "write"

(* A trigger is stamped before it is sent, sent before it is delivered,    *)
(* delivered before it is read.                                            *)
Handover ==
    /\ read <= delivered /\ delivered <= sent /\ sent <= stamped
    /\ pc = "write" => sent + 1 <= stamped

(* What is waited for is the needle and the trigger of a wait step. *)
WaitedSteps == \A k \in DOMAIN waited :
    \E j \in WaitSteps : waited[k] = <<Needle(j), Count(j, "write")>>

(* The first print comes before the first ingest. *)
PrintedFirst ==
    /\ \A n \in Needles : printed[n] # NotYet => printed[n] <= stamped
    /\ \A n \in Needles : first[n] # NotYet =>
          printed[n] # NotYet /\ printed[n] <= first[n] /\ first[n] <= stamped

(* A needle in the pipe was printed; one printed and not in the text is    *)
(* still in the pipe, unless the text was cut.                             *)
PipeLags ==
    /\ \A k \in DOMAIN pipe : pipe[k] \in Needles => printed[pipe[k]] # NotYet
    /\ \A n \in Needles : printed[n] # NotYet /\ first[n] = NotYet /\ ~dropped =>
          \E k \in DOMAIN pipe : pipe[k] = n

(* An honest firmware has printed no answer before its question. *)
HonestAnswers ==
    firmware = "honest" => \A j \in WaitSteps :
        printed[Needle(j)] # NotYet => Count(j, "write") <= printed[Needle(j)]

(* From trigger t on, what is ingested was printed after it, but for what  *)
(* was in the pipe at its stamp.                                           *)
FairIn(t, text, prints, cut, leaks) == \A n \in Needles :
    /\ text[n] # NotYet /\ t <= text[n] => prints[n] # NotYet /\ (t <= prints[n] \/ <<t, n>> \in leaks)
    /\ text[n] = NotYet /\ ~cut /\ prints[n] # NotYet => t <= prints[n] \/ <<t, n>> \in leaks
FairSince(t) == FairIn(t, first, printed, dropped, leaked)

Fair ==
    /\ FairSince(stamped)
    /\ \A k \in DOMAIN waited : waited[k][2] <= stamped /\ FairSince(waited[k][2])

(* The log that is judged holds what had been ingested. *)
Logged == log \subseteq {n \in Needles : first[n] # NotYet}

(* What has been decided, and when. *)
After == {"teardown", "close", "result"}
Judged ==
    /\ error # "none" => pc \in After
    /\ pc \in After /\ error = "none" => ~Convicted
    /\ error = "pre-printed" => Convicted \/ credited = 0

Ended ==
    /\ passed => pc = "result"
    /\ AnswersAreEarned

Inv ==
    /\ Typed /\ Position /\ Handover /\ WaitedSteps
    /\ PrintedFirst /\ PipeLags /\ HonestAnswers /\ Fair /\ Logged /\ Judged /\ Ended

(***************************************************************************)
(* What the steps do.                                                      *)
(***************************************************************************)

\* The needles are positive.
LEMMA NeedlesType == Waits \in Nat /\ Needles \subseteq Nat \ {0} /\ Noise \notin Needles
<1>1. Len(Stimulus) + 1 \in Nat
  BY UnixRunAssumption
<1>2. Waits \in Nat
  BY <1>1, CountType DEF Waits
<1>. QED BY <1>2 DEF Needles, Noise

\* Appending to the waits.
LEMMA AppendWait ==
    ASSUME Typed, i \in WaitSteps, stamped = Count(i, "write"),
           waited' = Append(waited, <<Needle(i), stamped>>)
    PROVE  /\ waited' \in Seq(Nat \X Nat)
           /\ \A k \in DOMAIN waited' :
                \/ k \in DOMAIN waited /\ waited'[k] = waited[k]
                \/ waited'[k] = <<Needle(i), stamped>>
<1>1. Needle(i) \in Nat
  BY CountType DEF Needle, Typed
<1>2. <<Needle(i), stamped>> \in Nat \X Nat
  BY <1>1 DEF Typed
<1>3. waited \in Seq(Nat \X Nat)
  BY DEF Typed
<1>. DEFINE w == <<Needle(i), stamped>>
<1>4. /\ Append(waited, w) \in Seq(Nat \X Nat)
      /\ \A k \in 1..Len(waited) : Append(waited, w)[k] = waited[k]
      /\ Append(waited, w)[Len(waited) + 1] = w
      /\ Len(Append(waited, w)) = Len(waited) + 1
  BY <1>2, <1>3, AppendProperties
<1>5. DOMAIN waited = 1..Len(waited) /\ Len(waited) \in Nat
  BY <1>3
<1>6. DOMAIN Append(waited, w) = 1..(Len(waited) + 1)
  BY <1>4, <1>5
<1>. HIDE DEF w
<1>7. \A k \in 1..(Len(waited) + 1) : k \in 1..Len(waited) \/ k = Len(waited) + 1
  BY <1>5
<1>8. waited' = Append(waited, w)
  BY DEF w
<1>9. ASSUME NEW k \in DOMAIN waited'
      PROVE  (k \in DOMAIN waited /\ waited'[k] = waited[k]) \/ waited'[k] = w
  BY <1>4, <1>5, <1>6, <1>7, <1>8
<1>. QED BY <1>4, <1>8, <1>9 DEF w

\* Printing a line appends it to the pipe.
LEMMA PrintsFact ==
    ASSUME pipe \in Seq(Nat), NEW line \in Nat, Prints(line)
    PROVE  /\ pipe' \in Seq(Nat)
           /\ \A k \in DOMAIN pipe : k \in DOMAIN pipe' /\ pipe'[k] = pipe[k]
           /\ \E k \in DOMAIN pipe' : pipe'[k] = line
           /\ \A k \in DOMAIN pipe' : pipe'[k] = line \/ (k \in DOMAIN pipe /\ pipe'[k] = pipe[k])
<1>1. pipe' = Append(pipe, line)
  BY DEF Prints
<1>2. /\ Append(pipe, line) \in Seq(Nat)
      /\ \A k \in 1..Len(pipe) : Append(pipe, line)[k] = pipe[k]
      /\ Append(pipe, line)[Len(pipe) + 1] = line
      /\ Len(Append(pipe, line)) = Len(pipe) + 1
  BY AppendProperties
<1>3. DOMAIN pipe = 1..Len(pipe) /\ Len(pipe) \in Nat /\ DOMAIN pipe' = 1..(Len(pipe) + 1)
  BY <1>1, <1>2
<1>4. Len(pipe) + 1 \in DOMAIN pipe'
  BY <1>3
<1>. QED BY <1>1, <1>2, <1>3, <1>4

\* Ingesting takes the head of the pipe.
LEMMA IngestsFact ==
    ASSUME pipe \in Seq(Nat), pipe # <<>>, pipe' = Tail(pipe)
    PROVE  /\ pipe' \in Seq(Nat)
           /\ 1 \in DOMAIN pipe /\ Head(pipe) = pipe[1]
           /\ \A k \in DOMAIN pipe' : k + 1 \in DOMAIN pipe /\ pipe'[k] = pipe[k + 1]
           /\ \A k \in DOMAIN pipe : k = 1 \/ (k - 1 \in DOMAIN pipe' /\ pipe'[k - 1] = pipe[k])
OBVIOUS

\* What an ingested line does to the text.
LEMMA BoxedFact ==
    ASSUME Typed, NEW line, Boxed(line)
    PROVE  /\ first' \in [Needles -> Stamp]
           /\ \A n \in Needles : first'[n] = first[n]
                                  \/ (n = line /\ first[n] = NotYet /\ ~dropped /\ first'[n] = stamped)
           /\ dropped => dropped'
           /\ \A n \in Needles : n = line => first'[n] # NotYet \/ dropped'
<1>. USE DEF Typed, Stamp
<1>0. stamped # NotYet
  BY UnixRunAssumption
<1>1. CASE dropped
  BY <1>1 DEF Boxed
<1>2. CASE ~dropped /\ kept = MaxText
  BY <1>2 DEF Boxed
<1>3. CASE ~dropped /\ kept # MaxText
  <2>1. first' = [n \in Needles |-> IF n = line /\ first[n] = NotYet THEN stamped ELSE first[n]]
    BY <1>3 DEF Boxed
  <2>. QED BY <1>0, <1>3, <2>1
<1>. QED BY <1>1, <1>2, <1>3

(***************************************************************************)
(* Every step keeps every part.                                            *)
(***************************************************************************)

\* The steps of the main thread that leave the stimulus, the waits and the
\* text alone, up to its place.
Bookkeeping ==
    \/ Prepare \/ LooksForStamp \/ LooksAtTime \/ LeavesLoop \/ BeginWrite \/ CountsChunks \/ IsQuiet
    \/ Drained \/ Reap \/ Disconnected \/ TearsDown

\* What a bookkeeping step leaves alone.
LEMMA BookkeepingFact ==
    ASSUME Bookkeeping
    PROVE  /\ UNCHANGED <<i, stamped, sent, leaked, delivered, read, waited, credited, log, first,
                          printed, pipe, dropped, firmware, passed>>
           /\ pc' # "write" /\ pc # "result"
           /\ pc \in {"teardown", "close"} => pc' \in {"teardown", "close"} /\ UNCHANGED error
           /\ pc' \in After => pc \in After \/ error' # "none"
           /\ error' = error \/ (error' \in {"infra", "raised"} /\ pc' \in After)
<1>1. CASE Prepare
  BY <1>1 DEF Prepare, Goto, ingest, After
<1>2. CASE LooksForStamp \/ LooksAtTime \/ LeavesLoop \/ Drained
  BY <1>2 DEF LooksForStamp, LooksAtTime, LeavesLoop, Drained, Goto, ingest, child, result, After
<1>3. CASE BeginWrite \/ CountsChunks \/ IsQuiet
  BY <1>3 DEF BeginWrite, CountsChunks, IsQuiet, StepKind, Goto, ingest, child, result, After
<1>4. CASE Reap \/ Disconnected \/ TearsDown
  BY <1>4 DEF Reap, Disconnected, TearsDown, Goto, ingest, child, result, After
<1>. QED BY <1>1, <1>2, <1>3, <1>4 DEF Bookkeeping

\* Typing.
LEMMA TypedStep ==
    ASSUME Typed, Position, Next
    PROVE  Typed'
<1>1. CASE Bookkeeping
  <2>1. UNCHANGED <<i, stamped, sent, delivered, read, waited, first, printed, pipe>>
    BY <1>1, BookkeepingFact
  <2>. QED BY <2>1 DEF Typed
<1>2. CASE BeginWait
  <2>1. i \in WaitSteps
    BY <1>2 DEF BeginWait, StepKind, WaitSteps, Typed
  <2>2. stamped = Count(i, "write")
    BY <1>2 DEF BeginWait, StepKind, Position
  <2>3. waited' \in Seq(Nat \X Nat)
    BY <1>2, <2>1, <2>2, AppendWait DEF BeginWait
  <2>. QED BY <1>2, <2>3 DEF BeginWait, Typed, ingest, child, result
<1>3. CASE LooksAtText \/ Delay \/ Writes \/ Stamps
  BY <1>3 DEF LooksAtText, Delay, Writes, Stamps, NextStep, Typed, ingest, child, result
<1>4. CASE Collect
  BY <1>4, BoxedFact DEF Collect, NextStep, Typed, child, result
<1>5. CASE Joins \/ Verdict \/ Closes
  BY <1>5 DEF Joins, Verdict, Closes, Goto, Typed, ingest, child
<1>6. CASE PrintsAnswer
  <2>1. PICK n \in Needles : Prints(n) /\ printed' = [printed EXCEPT ![n] = stamped]
    BY <1>6 DEF PrintsAnswer
  <2>2. n \in Nat /\ stamped \in Stamp
    BY NeedlesType DEF Typed, Stamp
  <2>3. pipe' \in Seq(Nat)
    BY <2>1, <2>2, PrintsFact DEF Typed
  <2>4. printed' \in [Needles -> Stamp]
    BY <2>1, <2>2 DEF Typed
  <2>. QED BY <1>6, <2>3, <2>4 DEF PrintsAnswer, Typed, main, ingest, result
<1>7. CASE PrintsNoise
  <2>1. PICK line \in {Noise} \cup Needles : Prints(line)
    BY <1>7 DEF PrintsNoise
  <2>2. line \in Nat
    BY NeedlesType DEF Noise
  <2>3. pipe' \in Seq(Nat)
    BY <2>1, <2>2, PrintsFact DEF Typed
  <2>. QED BY <1>7, <2>3 DEF PrintsNoise, Typed, main, ingest, result
<1>8. CASE ReadsStdin
  BY <1>8 DEF ReadsStdin, Typed, main, ingest, result
<1>11. CASE Exits \/ ShutsStdout \/ HeirComesAndGoes \/ SeesEof
  <2>1. UNCHANGED <<i, stamped, sent, delivered, read, waited, first, printed, pipe>>
    BY <1>11 DEF Exits, ShutsStdout, HeirComesAndGoes, SeesEof, main, ingest, child
  <2>. QED BY <2>1 DEF Typed
<1>12. CASE PumpDelivers
  BY <1>12 DEF PumpDelivers, Typed, main, ingest, child
<1>13. CASE DeadlinePasses
  BY <1>13 DEF DeadlinePasses, Typed, main, ingest, child
<1>9. CASE Ingests
  BY <1>9, BoxedFact, IngestsFact DEF Ingests, Typed, main, result
<1>10. CASE Done
  BY <1>10 DEF Done, vars, Typed, main, ingest, child, result
<1>. QED BY <1>1, <1>2, <1>3, <1>4, <1>5, <1>6, <1>7, <1>8, <1>9, <1>10, <1>11, <1>12, <1>13
        DEF Next, Main, Firmware, Reader, Bookkeeping

\* The step the main thread is at and what it has stamped.
LEMMA PositionStep ==
    ASSUME Typed, Position, Next
    PROVE  Position'
<1>. USE DEF Position
<1>1. \A kind : Count(1, kind) = 0
  BY CountFirst
<1>2. i \in DOMAIN Stimulus => Count(i + 1, "write") = IF Stimulus[i] = "write" THEN Count(i, "write") + 1
                                                                                ELSE Count(i, "write")
  BY CountNext
<1>3. \A kind : StepKind(kind) => pc = "step" /\ i \in DOMAIN Stimulus /\ Stimulus[i] = kind
  BY DEF StepKind, Typed
<1>4. CASE Prepare
  BY <1>1, <1>4 DEF Prepare, Goto
<1>5. CASE LooksForStamp \/ LooksAtTime \/ LeavesLoop \/ CountsChunks \/ IsQuiet
  BY <1>5 DEF LooksForStamp, LooksAtTime, LeavesLoop, CountsChunks, IsQuiet, Goto
<1>13. CASE Drained \/ Reap \/ Disconnected \/ Joins \/ Verdict \/ TearsDown \/ Closes
  BY <1>13 DEF Drained, Reap, Disconnected, Joins, Verdict, TearsDown, Closes, Goto
<1>6. CASE BeginWrite
  BY <1>3, <1>6 DEF BeginWrite, Goto
<1>7. CASE BeginWait
  BY <1>3, <1>7 DEF BeginWait
<1>8. CASE LooksAtText
  BY <1>2, <1>8 DEF LooksAtText, NextStep
<1>9. CASE Delay \/ Collect
  BY <1>2, <1>3, <1>9 DEF Delay, Collect, NextStep
<1>10. CASE Stamps
  BY <1>10 DEF Stamps
<1>11. CASE Writes
  BY <1>2, <1>11 DEF Writes, NextStep
<1>12. CASE Firmware \/ PumpDelivers \/ Reader \/ DeadlinePasses \/ Done
  BY <1>12 DEF Firmware, ReadsStdin, PrintsAnswer, PrintsNoise, Exits, ShutsStdout, HeirComesAndGoes,
               PumpDelivers, Reader, Ingests, SeesEof, DeadlinePasses, Done, vars, main
<1>. QED BY <1>4, <1>5, <1>6, <1>7, <1>8, <1>9, <1>10, <1>11, <1>12, <1>13 DEF Next, Main

\* The way of a stimulus.
LEMMA HandoverStep ==
    ASSUME Typed, Handover, Next
    PROVE  Handover'
<1>. USE DEF Handover, Typed
<1>1. CASE Bookkeeping
  BY <1>1, BookkeepingFact
<1>2. CASE BeginWait \/ LooksAtText \/ Delay \/ Collect
  BY <1>2 DEF BeginWait, LooksAtText, Delay, Collect, NextStep, child
<1>8. CASE Joins \/ Verdict \/ Closes
  BY <1>8 DEF Joins, Verdict, Closes, Goto, child
<1>3. CASE Stamps
  BY <1>3 DEF Stamps, child
<1>4. CASE Writes
  BY <1>4 DEF Writes, NextStep, child
<1>5. CASE ReadsStdin
  BY <1>5 DEF ReadsStdin, main
<1>6. CASE PumpDelivers
  BY <1>6 DEF PumpDelivers, main, child
<1>7. CASE PrintsAnswer \/ PrintsNoise \/ Exits \/ ShutsStdout \/ HeirComesAndGoes \/ Reader
            \/ DeadlinePasses \/ Done
  BY <1>7 DEF PrintsAnswer, PrintsNoise, Exits, ShutsStdout, HeirComesAndGoes, Reader, Ingests, SeesEof,
              DeadlinePasses, Done, vars, main, child
<1>. QED BY <1>1, <1>2, <1>3, <1>4, <1>5, <1>6, <1>7, <1>8 DEF Next, Main, Firmware, Bookkeeping

\* The steps that touch the stamps, the output or the text.
Touches == Stamps \/ PrintsAnswer \/ PrintsNoise \/ Ingests \/ Collect

\* Every other step leaves them alone.
LEMMA TextAlone ==
    ASSUME Next, ~Touches
    PROVE  UNCHANGED <<stamped, leaked, first, printed, pipe, dropped>>
<1>1. CASE Bookkeeping
  BY <1>1, BookkeepingFact
<1>2. CASE BeginWait \/ LooksAtText \/ Delay \/ Writes
  BY <1>2 DEF BeginWait, LooksAtText, Delay, Writes, NextStep, ingest, child
<1>3. CASE Joins \/ Verdict \/ Closes
  BY <1>3 DEF Joins, Verdict, Closes, Goto, ingest, child
<1>4. CASE ReadsStdin \/ Exits \/ ShutsStdout \/ HeirComesAndGoes
  BY <1>4 DEF ReadsStdin, Exits, ShutsStdout, HeirComesAndGoes, main, ingest
<1>5. CASE PumpDelivers \/ DeadlinePasses
  BY <1>5 DEF PumpDelivers, DeadlinePasses, main, ingest, child
<1>6. CASE SeesEof \/ Done
  BY <1>6 DEF SeesEof, Done, vars, main, ingest, child
<1>. QED BY <1>1, <1>2, <1>3, <1>4, <1>5, <1>6 DEF Next, Main, Firmware, Reader, Bookkeeping, Touches

\* Only beginning a wait adds one.
LEMMA WaitsAlone ==
    ASSUME Next, ~BeginWait
    PROVE  UNCHANGED waited
<1>1. CASE Bookkeeping
  BY <1>1, BookkeepingFact
<1>2. CASE LooksAtText \/ Delay \/ Writes \/ Stamps \/ Collect
  BY <1>2 DEF LooksAtText, Delay, Writes, Stamps, Collect, NextStep
<1>3. CASE Joins \/ Verdict \/ Closes
  BY <1>3 DEF Joins, Verdict, Closes, Goto
<1>4. CASE Firmware \/ PumpDelivers \/ Reader \/ DeadlinePasses \/ Done
  BY <1>4 DEF Firmware, ReadsStdin, PrintsAnswer, PrintsNoise, Exits, ShutsStdout, HeirComesAndGoes,
              PumpDelivers, Reader, Ingests, SeesEof, DeadlinePasses, Done, vars, main
<1>. QED BY <1>1, <1>2, <1>3, <1>4 DEF Next, Main, Bookkeeping

\* Every wait reached is a wait step of the stimulus.
LEMMA WaitedStepsStep ==
    ASSUME Typed, Position, WaitedSteps, Next
    PROVE  WaitedSteps'
<1>1. CASE BeginWait
  <2>1. i \in WaitSteps /\ stamped = Count(i, "write")
    BY <1>1 DEF BeginWait, StepKind, WaitSteps, Typed, Position
  <2>2. \A k \in DOMAIN waited' :
            \/ k \in DOMAIN waited /\ waited'[k] = waited[k]
            \/ waited'[k] = <<Needle(i), Count(i, "write")>>
    BY <1>1, <2>1, AppendWait DEF BeginWait
  <2>3. \A k \in DOMAIN waited' : \E j \in WaitSteps : waited'[k] = <<Needle(j), Count(j, "write")>>
    BY <2>1, <2>2 DEF WaitedSteps
  <2>. QED BY <2>3 DEF WaitedSteps, WaitSteps, Needle, Count, StepsBefore
<1>2. CASE ~BeginWait
  BY <1>2, WaitsAlone DEF WaitedSteps, WaitSteps, Needle, Count, StepsBefore
<1>. QED BY <1>1, <1>2

\* First prints and first ingests.
LEMMA PrintedFirstStep ==
    ASSUME Typed, PrintedFirst, PipeLags, Next
    PROVE  PrintedFirst'
<1>. USE UnixRunAssumption, NeedlesType DEF PrintedFirst, Typed, Stamp
<1>1. CASE ~Touches
  BY <1>1, TextAlone
<1>2. CASE Stamps
  BY <1>2 DEF Stamps, ingest, child
<1>3. CASE PrintsAnswer
  <2>1. PICK n \in Needles : printed[n] = NotYet /\ printed' = [printed EXCEPT ![n] = stamped]
    BY <1>3 DEF PrintsAnswer
  <2>. QED BY <1>3, <2>1 DEF PrintsAnswer, main, ingest
<1>4. CASE PrintsNoise
  BY <1>4 DEF PrintsNoise, main, ingest
<1>5. CASE Ingests
  <2>1. UNCHANGED <<stamped, printed>>
    BY <1>5 DEF Ingests, main
  <2>2. \A n \in Needles : first'[n] = first[n] \/ (n = Head(pipe) /\ first'[n] = stamped)
    BY <1>5, BoxedFact DEF Ingests
  <2>3. \A n \in Needles : n = Head(pipe) => printed[n] # NotYet
    BY <1>5, IngestsFact DEF Ingests, PipeLags
  <2>4. ASSUME NEW n \in Needles, first'[n] # NotYet
        PROVE  printed[n] # NotYet /\ printed[n] <= first'[n] /\ first'[n] <= stamped
    <3>1. CASE first'[n] = first[n]
      BY <2>4, <3>1
    <3>2. CASE n = Head(pipe) /\ first'[n] = stamped
      <4>1. printed[n] # NotYet /\ printed[n] <= stamped
        BY <2>3, <3>2
      <4>. QED BY <3>2, <4>1
    <3>. QED BY <2>2, <3>1, <3>2
  <2>. QED BY <2>1, <2>4
<1>6. CASE Collect
  <2>1. UNCHANGED <<stamped, printed>>
    BY <1>6 DEF Collect, child
  <2>2. \A n \in Needles : first'[n] = first[n]
    <3>1. Boxed(Noise)
      BY <1>6 DEF Collect
    <3>2. \A n \in Needles : n # Noise
      OBVIOUS
    <3>. QED BY <3>1, <3>2, BoxedFact
  <2>. QED BY <2>1, <2>2
<1>. QED BY <1>1, <1>2, <1>3, <1>4, <1>5, <1>6 DEF Touches

\* The pipe between print and text.
LEMMA PipeLagsStep ==
    ASSUME Typed, PipeLags, Next
    PROVE  PipeLags'
<1>. USE UnixRunAssumption, NeedlesType DEF PipeLags, Typed, Stamp
<1>1. CASE ~Touches
  BY <1>1, TextAlone
<1>2. CASE Stamps
  BY <1>2 DEF Stamps, ingest, child
<1>3. CASE PrintsAnswer
  <2>1. PICK n \in Needles : Prints(n) /\ printed' = [printed EXCEPT ![n] = stamped]
    BY <1>3 DEF PrintsAnswer
  <2>2. UNCHANGED <<first, dropped>>
    BY <1>3 DEF PrintsAnswer, ingest
  <2>3. /\ \A k \in DOMAIN pipe : k \in DOMAIN pipe' /\ pipe'[k] = pipe[k]
        /\ \E k \in DOMAIN pipe' : pipe'[k] = n
        /\ \A k \in DOMAIN pipe' : pipe'[k] = n \/ (k \in DOMAIN pipe /\ pipe'[k] = pipe[k])
    BY <2>1, PrintsFact
  <2>4. \A m \in Needles : printed'[m] = IF m = n THEN stamped ELSE printed[m]
    BY <2>1
  <2>5. ASSUME NEW k \in DOMAIN pipe', pipe'[k] \in Needles PROVE printed'[pipe'[k]] # NotYet
    <3>1. CASE pipe'[k] = n
      BY <2>4, <3>1
    <3>2. CASE pipe'[k] # n
      <4>1. k \in DOMAIN pipe /\ pipe'[k] = pipe[k] /\ pipe[k] \in Needles
        BY <2>3, <2>5, <3>2
      <4>2. printed[pipe[k]] # NotYet
        BY <4>1
      <4>. QED BY <2>4, <3>2, <4>1, <4>2
    <3>. QED BY <3>1, <3>2
  <2>6. ASSUME NEW m \in Needles, printed'[m] # NotYet, first'[m] = NotYet, ~dropped'
        PROVE  \E k \in DOMAIN pipe' : pipe'[k] = m
    BY <2>2, <2>3, <2>4, <2>6
  <2>. QED BY <2>5, <2>6
<1>4. CASE PrintsNoise
  <2>1. PICK line \in {Noise} \cup {n \in Needles : printed[n] # NotYet} : Prints(line)
    BY <1>4 DEF PrintsNoise
  <2>2. UNCHANGED <<first, dropped, printed>>
    BY <1>4 DEF PrintsNoise, ingest
  <2>3. line \in Nat
    BY <2>1 DEF Noise
  <2>4. /\ \A k \in DOMAIN pipe : k \in DOMAIN pipe' /\ pipe'[k] = pipe[k]
        /\ \A k \in DOMAIN pipe' : pipe'[k] = line \/ (k \in DOMAIN pipe /\ pipe'[k] = pipe[k])
    BY <2>1, <2>3, PrintsFact
  <2>5. ASSUME NEW k \in DOMAIN pipe', pipe'[k] \in Needles PROVE printed'[pipe'[k]] # NotYet
    BY <2>1, <2>2, <2>4, <2>5, ZenonT(40)
  <2>6. ASSUME NEW m \in Needles, printed'[m] # NotYet, first'[m] = NotYet, ~dropped'
        PROVE  \E k \in DOMAIN pipe' : pipe'[k] = m
    BY <2>2, <2>4, <2>6
  <2>. QED BY <2>5, <2>6
<1>5. CASE Ingests
  <2>1. UNCHANGED printed
    BY <1>5 DEF Ingests
  <2>2. /\ \A k \in DOMAIN pipe' : k + 1 \in DOMAIN pipe /\ pipe'[k] = pipe[k + 1]
        /\ \A k \in DOMAIN pipe : k = 1 \/ (k - 1 \in DOMAIN pipe' /\ pipe'[k - 1] = pipe[k])
        /\ Head(pipe) = pipe[1]
    BY <1>5, IngestsFact DEF Ingests
  <2>3. /\ \A n \in Needles : first'[n] = first[n] \/ (n = Head(pipe) /\ first[n] = NotYet)
        /\ dropped => dropped'
        /\ \A n \in Needles : n = Head(pipe) => first'[n] # NotYet \/ dropped'
    BY <1>5, BoxedFact DEF Ingests
  <2>4. ASSUME NEW k \in DOMAIN pipe', pipe'[k] \in Needles PROVE printed'[pipe'[k]] # NotYet
    BY <2>1, <2>2, <2>4
  <2>5. ASSUME NEW m \in Needles, printed'[m] # NotYet, first'[m] = NotYet, ~dropped'
        PROVE  \E k \in DOMAIN pipe' : pipe'[k] = m
    <3>1. m # Head(pipe)
      BY <2>3, <2>5
    <3>2. first[m] = NotYet /\ ~dropped /\ printed[m] # NotYet
      BY <2>1, <2>3, <2>5
    <3>3. PICK k \in DOMAIN pipe : pipe[k] = m
      BY <3>2
    <3>. QED BY <2>2, <3>1, <3>3
  <2>. QED BY <2>4, <2>5
<1>6. CASE Collect
  <2>1. UNCHANGED <<pipe, printed>>
    BY <1>6 DEF Collect, child
  <2>2. (\A n \in Needles : first'[n] = first[n]) /\ (dropped => dropped')
    BY <1>6, BoxedFact DEF Collect
  <2>. QED BY <2>1, <2>2
<1>. QED BY <1>1, <1>2, <1>3, <1>4, <1>5, <1>6 DEF Touches

\* The firmware is what it is.
LEMMA FirmwareStays == Next => UNCHANGED firmware
<1>1. ASSUME Bookkeeping PROVE UNCHANGED firmware
  BY <1>1, BookkeepingFact
<1>2. ASSUME BeginWait \/ LooksAtText \/ Delay \/ Stamps \/ Writes \/ Collect \/ Joins \/ Verdict \/ Closes
      PROVE  UNCHANGED firmware
  BY <1>2 DEF BeginWait, LooksAtText, Delay, Stamps, Writes, Collect, Joins, Verdict, Closes, child
<1>3. ASSUME Firmware \/ PumpDelivers \/ Reader \/ DeadlinePasses \/ Done PROVE UNCHANGED firmware
  BY <1>3 DEF Firmware, ReadsStdin, PrintsAnswer, PrintsNoise, Exits, ShutsStdout, HeirComesAndGoes,
              PumpDelivers, Reader, Ingests, SeesEof, DeadlinePasses, Done, vars, child
<1>. QED BY <1>1, <1>2, <1>3 DEF Next, Main, Bookkeeping

\* Printing an answer stamps it with the triggers so far, and only it.
LEMMA PrintedGrows ==
    ASSUME Typed, Next
    PROVE  \A n \in Needles : printed'[n] = printed[n] \/ (printed[n] = NotYet /\ printed'[n] = stamped)
<1>1. CASE PrintsAnswer
  <2>1. PICK n \in Needles : printed[n] = NotYet /\ printed' = [printed EXCEPT ![n] = stamped]
    BY <1>1 DEF PrintsAnswer
  <2>. QED BY <2>1 DEF Typed
<1>2. CASE Stamps \/ Collect \/ PrintsNoise \/ Ingests
  BY <1>2 DEF Stamps, Collect, PrintsNoise, Ingests, child
<1>3. CASE ~Touches
  BY <1>3, TextAlone
<1>. QED BY <1>1, <1>2, <1>3 DEF Touches

\* An honest firmware prints an answer after it has read the question.
LEMMA HonestAnswersStep ==
    ASSUME Typed, Handover, HonestAnswers, Next
    PROVE  HonestAnswers'
<1>. SUFFICES ASSUME firmware = "honest", NEW j \in WaitSteps, printed'[Needle(j)] # NotYet
              PROVE  Count(j, "write") <= printed'[Needle(j)]
  BY FirmwareStays DEF HonestAnswers, WaitSteps, Needle, Count, StepsBefore
<1>1. Needle(j) \in Needles
  BY NeedleType DEF WaitSteps
<1>2. CASE PrintsAnswer
  <2>1. PICK n \in Needles : /\ read >= AskedBy(n)
                             /\ printed' = [printed EXCEPT ![n] = stamped]
    BY <1>2 DEF PrintsAnswer
  <2>2. CASE Needle(j) = n
    <3>1. AskedBy(n) = Count(j, "write")
      BY <2>2, AskedByFact DEF WaitSteps
    <3>2. Count(j, "write") \in Nat
      BY UnixRunAssumption, CountType DEF WaitSteps
    <3>3. printed'[Needle(j)] = stamped
      BY <1>1, <2>1, <2>2 DEF Typed
    <3>. QED BY <2>1, <3>1, <3>2, <3>3 DEF Typed, Handover
  <2>3. CASE Needle(j) # n
    BY <1>1, <2>1, <2>3 DEF Typed, HonestAnswers
  <2>. QED BY <2>2, <2>3
<1>3. CASE ~PrintsAnswer
  <2>1. UNCHANGED printed
    <3>1. CASE ~Touches
      BY <3>1, TextAlone
    <3>2. CASE Stamps \/ Collect \/ PrintsNoise \/ Ingests
      BY <3>2 DEF Stamps, Collect, PrintsNoise, Ingests, child
    <3>. QED BY <1>3, <3>1, <3>2 DEF Touches
  <2>. QED BY <2>1 DEF HonestAnswers
<1>. QED BY <1>2, <1>3

\* A trigger that has been stamped stays fair.
LEMMA FairStays ==
    ASSUME Typed, PipeLags, Next, NEW t \in Nat, t <= stamped,
           FairIn(t, first, printed, dropped, leaked)
    PROVE  FairIn(t, first', printed', dropped', leaked')
<1>. USE UnixRunAssumption DEF FairIn, Typed, Stamp
<1>1. CASE ~Touches
  BY <1>1, TextAlone
<1>2. CASE Stamps \/ PrintsNoise
  BY <1>2 DEF Stamps, PrintsNoise, main, ingest, child
<1>3. CASE PrintsAnswer
  <2>1. UNCHANGED <<first, dropped, leaked>>
    BY <1>3 DEF PrintsAnswer, main, ingest
  <2>2. \A n \in Needles : printed'[n] = printed[n] \/ (printed[n] = NotYet /\ printed'[n] = stamped)
    BY PrintedGrows
  <2>. QED BY <2>1, <2>2
<1>4. CASE Ingests
  <2>1. UNCHANGED <<printed, leaked>>
    BY <1>4 DEF Ingests, main
  <2>2. \A n \in Needles : \/ first'[n] = first[n]
                           \/ n = Head(pipe) /\ first[n] = NotYet /\ ~dropped
    BY <1>4, BoxedFact DEF Ingests
  <2>3. dropped => dropped'
    BY <1>4, BoxedFact DEF Ingests
  <2>4. \A n \in Needles : n = Head(pipe) => printed[n] # NotYet
    BY <1>4, IngestsFact DEF Ingests, PipeLags
  <2>. QED BY <2>1, <2>2, <2>3, <2>4
<1>5. CASE Collect
  <2>1. UNCHANGED <<printed, leaked>>
    BY <1>5 DEF Collect, child
  <2>2. Boxed(Noise) /\ Noise \notin Needles
    BY <1>5, NeedlesType DEF Collect
  <2>3. (\A n \in Needles : first'[n] = first[n]) /\ (dropped => dropped')
    BY <2>2, BoxedFact
  <2>. QED BY <2>1, <2>3
<1>. QED BY <1>1, <1>2, <1>3, <1>4, <1>5 DEF Touches

\* When a trigger is stamped, what has been printed is in the text or in the
\* pipe, or will never be in the text.
LEMMA FairStep ==
    ASSUME Typed, Position, PrintedFirst, PipeLags, Fair, Next
    PROVE  Fair'
<1>1. FairIn(stamped', first', printed', dropped', leaked')
  <2>2. CASE Stamps
    <3>1. /\ stamped' = stamped + 1 /\ UNCHANGED <<first, printed, dropped>>
          /\ \A n \in InPipe : <<stamped', n>> \in leaked'
      BY <2>2 DEF Stamps, ingest, child
    <3>2. \A n \in Needles : first[n] # NotYet => ~(stamped + 1 <= first[n])
      BY UnixRunAssumption DEF PrintedFirst, Typed, Stamp
    <3>3. \A n \in Needles : printed[n] # NotYet /\ first[n] = NotYet /\ ~dropped => n \in InPipe
      BY DEF PipeLags, InPipe, Printed
    <3>4. \A n \in Needles : first[n] = NotYet /\ ~dropped /\ printed[n] # NotYet => <<stamped', n>> \in leaked'
      BY <3>1, <3>3
    <3>. QED BY <3>1, <3>2, <3>4 DEF FairIn
  <2>3. CASE ~Stamps
    <3>1. stamped' = stamped
      <4>1. CASE ~Touches
        BY <4>1, TextAlone
      <4>2. CASE PrintsAnswer \/ PrintsNoise \/ Ingests \/ Collect
        BY <4>2 DEF PrintsAnswer, PrintsNoise, Ingests, Collect, main
      <4>. QED BY <2>3, <4>1, <4>2 DEF Touches
    <3>2. FairIn(stamped, first, printed, dropped, leaked)
      BY DEF Fair, FairSince
    <3>3. stamped \in Nat /\ stamped <= stamped
      BY DEF Typed
    <3>4. FairIn(stamped, first', printed', dropped', leaked')
      BY <3>2, <3>3, FairStays
    <3>. QED BY <3>1, <3>4
  <2>. QED BY <2>2, <2>3
<1>2. stamped <= stamped'
  <2>1. CASE Stamps
    BY <2>1 DEF Stamps, Typed
  <2>2. CASE ~Touches
    BY <2>2, TextAlone DEF Typed
  <2>3. CASE PrintsAnswer \/ PrintsNoise \/ Ingests \/ Collect
    BY <2>3 DEF PrintsAnswer, PrintsNoise, Ingests, Collect, main, Typed
  <2>. QED BY <2>1, <2>2, <2>3 DEF Touches
<1>3. ASSUME NEW k \in DOMAIN waited
      PROVE  waited[k][2] <= stamped' /\ FairIn(waited[k][2], first', printed', dropped', leaked')
  <2>1. waited[k][2] \in Nat
    BY DEF Typed
  <2>2. waited[k][2] <= stamped /\ FairIn(waited[k][2], first, printed, dropped, leaked)
    BY DEF Fair, FairSince
  <2>3. stamped' \in Nat
    BY TypedStep DEF Typed
  <2>4. FairIn(waited[k][2], first', printed', dropped', leaked')
    BY <2>1, <2>2, FairStays
  <2>. QED BY <1>2, <2>1, <2>2, <2>3, <2>4 DEF Typed
<1>4. ASSUME NEW k \in DOMAIN waited'
      PROVE  waited'[k][2] <= stamped' /\ FairIn(waited'[k][2], first', printed', dropped', leaked')
  <2>1. CASE BeginWait
    <3>1. i \in WaitSteps /\ stamped = Count(i, "write")
      BY <2>1 DEF BeginWait, StepKind, WaitSteps, Typed, Position
    <3>2. UNCHANGED <<stamped, leaked, first, printed, dropped>>
      BY <2>1 DEF BeginWait, ingest, child
    <3>3. FairIn(stamped, first, printed, dropped, leaked)
      BY DEF Fair, FairSince
    <3>4. \/ k \in DOMAIN waited /\ waited'[k] = waited[k]
          \/ waited'[k] = <<Needle(i), stamped>>
      BY <2>1, <3>1, AppendWait DEF BeginWait
    <3>5. CASE k \in DOMAIN waited /\ waited'[k] = waited[k]
      BY <1>3, <3>5
    <3>6. CASE waited'[k] = <<Needle(i), stamped>>
      <4>1. waited'[k][2] = stamped
        BY <3>6
      <4>. QED BY <3>2, <3>3, <4>1 DEF Typed
    <3>. QED BY <3>4, <3>5, <3>6
  <2>2. CASE ~BeginWait
    BY <1>3, <2>2, WaitsAlone
  <2>. QED BY <2>1, <2>2
<1>. QED BY <1>1, <1>4 DEF Fair, FairSince, FairIn

\* A needle that is in the text stays where it is.
LEMMA FirstStays ==
    ASSUME Typed, Next
    PROVE  \A n \in Needles : first[n] # NotYet => first'[n] = first[n]
<1>1. CASE ~Touches
  BY <1>1, TextAlone
<1>2. CASE Stamps \/ PrintsAnswer \/ PrintsNoise
  BY <1>2 DEF Stamps, PrintsAnswer, PrintsNoise, ingest
<1>3. CASE Ingests \/ Collect
  <2>1. PICK line : Boxed(line)
    BY <1>3 DEF Ingests, Collect
  <2>. QED BY <2>1, BoxedFact
<1>. QED BY <1>1, <1>2, <1>3 DEF Touches

\* The log is taken once, when the reader has been waited for.
LEMMA LoggedStep ==
    ASSUME Typed, Logged, Next
    PROVE  Logged'
<1>1. CASE Joins
  BY <1>1 DEF Joins, Logged, Printed, ingest
<1>2. CASE ~Joins
  <2>1. UNCHANGED log
    <3>1. CASE Bookkeeping
      BY <3>1, BookkeepingFact
    <3>2. CASE BeginWait \/ LooksAtText \/ Delay \/ Stamps \/ Writes \/ Collect \/ Verdict \/ Closes
      BY <3>2 DEF BeginWait, LooksAtText, Delay, Stamps, Writes, Collect, Verdict, Closes, Goto
    <3>3. CASE Firmware \/ PumpDelivers \/ Reader \/ DeadlinePasses \/ Done
      BY <3>3 DEF Firmware, ReadsStdin, PrintsAnswer, PrintsNoise, Exits, ShutsStdout, HeirComesAndGoes,
                  PumpDelivers, Reader, Ingests, SeesEof, DeadlinePasses, Done, vars, main
    <3>. QED BY <1>2, <3>1, <3>2, <3>3 DEF Next, Main, Bookkeeping
  <2>. QED BY <2>1, FirstStays DEF Logged
<1>. QED BY <1>1, <1>2

\* What is decided stays decided: from the teardown on nothing it rests on
\* changes.
LEMMA AfterFact ==
    ASSUME Next, pc \in After
    PROVE  /\ pc' \in After /\ UNCHANGED <<waited, log, credited, error>>
           /\ pc = "result" => pc' = "result" /\ UNCHANGED passed
<1>. USE DEF After
<1>1. CASE Bookkeeping
  BY <1>1, BookkeepingFact
<1>2. CASE BeginWait \/ LooksAtText \/ Delay \/ Stamps \/ Writes \/ Collect \/ Joins \/ Verdict
  BY <1>2 DEF BeginWait, LooksAtText, Delay, Stamps, Writes, Collect, Joins, Verdict, StepKind
<1>3. CASE Closes
  BY <1>3 DEF Closes, Goto
<1>4. CASE Firmware \/ PumpDelivers \/ Reader \/ DeadlinePasses \/ Done
  BY <1>4 DEF Firmware, ReadsStdin, PrintsAnswer, PrintsNoise, Exits, ShutsStdout, HeirComesAndGoes,
              PumpDelivers, Reader, Ingests, SeesEof, DeadlinePasses, Done, vars, main, result
<1>. QED BY <1>1, <1>2, <1>3, <1>4 DEF Next, Main, Bookkeeping

\* Before, only the verdict decides, and what aborts a run.
LEMMA BeforeFact ==
    ASSUME Next, ~Verdict, pc \notin After
    PROVE  /\ error' = error \/ (error' \in {"infra", "raised"} /\ pc' \in After)
           /\ pc' \in After => error' # "none"
<1>. USE DEF After
<1>1. CASE Bookkeeping
  BY <1>1, BookkeepingFact
<1>2. CASE BeginWait \/ LooksAtText \/ Delay \/ Stamps \/ Writes \/ Collect \/ Joins \/ Closes
  BY <1>2 DEF BeginWait, LooksAtText, Delay, Stamps, Writes, Collect, Joins, Closes, NextStep, result
<1>3. CASE Firmware \/ PumpDelivers \/ Reader \/ DeadlinePasses \/ Done
  BY <1>3 DEF Firmware, ReadsStdin, PrintsAnswer, PrintsNoise, Exits, ShutsStdout, HeirComesAndGoes,
              PumpDelivers, Reader, Ingests, SeesEof, DeadlinePasses, Done, vars, main, result
<1>. QED BY <1>1, <1>2, <1>3 DEF Next, Main, Bookkeeping

\* A conviction rests on the log, which is settled: so is the conviction.
LEMMA ConvictionStays ==
    ASSUME Typed, WaitedSteps, Logged, Next, UNCHANGED <<waited, log>>
    PROVE  Convicted' <=> Convicted
<1>1. ASSUME NEW k \in DOMAIN waited, waited[k][1] \in log
      PROVE  Answered(waited[k][1], waited[k][2])' <=> Answered(waited[k][1], waited[k][2])
  <2>1. first'[waited[k][1]] = first[waited[k][1]]
    BY <1>1, FirstStays DEF Logged
  <2>. QED BY <2>1 DEF Answered, Printed
<1>. QED BY <1>1 DEF Convicted

\* The verdict.
LEMMA JudgedStep ==
    ASSUME Typed, WaitedSteps, Logged, Judged, Next
    PROVE  Judged'
<1>1. CASE pc \in After
  <2>1. pc' \in After /\ UNCHANGED <<waited, log, credited, error>>
    BY <1>1, AfterFact
  <2>2. Convicted' <=> Convicted
    BY <2>1, ConvictionStays
  <2>. QED BY <1>1, <2>1, <2>2 DEF Judged
<1>2. CASE Verdict
  <2>1. pc' \in After /\ UNCHANGED <<waited, log, credited>>
    BY <1>2 DEF Verdict, Goto, After
  <2>2. Convicted' <=> Convicted
    BY <2>1, ConvictionStays
  <2>3. error' = IF proc = "exited" /\ code # 0 THEN "exit-code"
                 ELSE IF Convicted \/ (NoneCredited /\ log # {}) THEN "pre-printed"
                 ELSE IF NoneCredited THEN "zero-waits" ELSE "none"
    BY <1>2 DEF Verdict
  <2>4. error' = "none" => ~Convicted
    BY <2>3
  <2>5. error' = "pre-printed" => Convicted \/ credited = 0
    BY <2>3 DEF NoneCredited
  <2>. QED BY <2>1, <2>2, <2>4, <2>5 DEF Judged
<1>3. CASE pc \notin After /\ ~Verdict
  <2>1. error = "none"
    BY <1>3 DEF Judged
  <2>. QED BY <1>3, <2>1, BeforeFact DEF Judged
<1>. QED BY <1>1, <1>2, <1>3

\* A log that convicts nobody and holds all answers has earned them.
LEMMA UnconvictedIsEarned ==
    ASSUME Typed, WaitedSteps, Fair, Logged, ~Convicted, log = Needles
    PROVE  \A k \in DOMAIN waited :
              /\ printed[waited[k][1]] # NotYet
              /\ printed[waited[k][1]] >= waited[k][2] \/ <<waited[k][2], waited[k][1]>> \in leaked
<1>. SUFFICES ASSUME NEW k \in DOMAIN waited
              PROVE  /\ printed[waited[k][1]] # NotYet
                     /\ printed[waited[k][1]] >= waited[k][2] \/ <<waited[k][2], waited[k][1]>> \in leaked
  OBVIOUS
<1>1. PICK j \in WaitSteps : waited[k] = <<Needle(j), Count(j, "write")>>
  BY DEF WaitedSteps
<1>2. waited[k][1] \in Needles
  BY <1>1, NeedleType DEF WaitSteps
<1>3. waited[k][2] \in Nat
  BY DEF Typed
<1>4. first[waited[k][1]] # NotYet /\ first[waited[k][1]] >= waited[k][2]
  BY <1>2 DEF Convicted, Answered, Printed
<1>5. first[waited[k][1]] \in Nat
  BY <1>2, <1>4 DEF Typed, Stamp
<1>6. FairSince(waited[k][2])
  BY DEF Fair
<1>7. /\ printed[waited[k][1]] # NotYet
      /\ waited[k][2] <= printed[waited[k][1]] \/ <<waited[k][2], waited[k][1]>> \in leaked
  BY <1>2, <1>3, <1>4, <1>5, <1>6 DEF FairSince, FairIn
<1>8. printed[waited[k][1]] \in Nat
  BY <1>2, <1>7 DEF Typed, Stamp
<1>. QED BY <1>3, <1>7, <1>8

\* A pass is decided when the run closes, and stays earned.
LEMMA EndedStep ==
    ASSUME Inv, Next
    PROVE  Ended'
<1>. USE DEF Inv
<1>1. CASE Closes
  <2>1. /\ pc = "close" /\ pc' = "result" /\ UNCHANGED <<waited, printed, leaked>>
        /\ passed' => error = "none" /\ log = Needles
    BY <1>1 DEF Closes, Goto, child
  <2>2. ASSUME passed' PROVE AnswersAreEarned'
    <3>1. ~Convicted /\ log = Needles
      BY <2>1, <2>2 DEF Judged, After
    <3>2. \A k \in DOMAIN waited :
              /\ printed[waited[k][1]] # NotYet
              /\ printed[waited[k][1]] >= waited[k][2] \/ <<waited[k][2], waited[k][1]>> \in leaked
      BY <3>1, UnconvictedIsEarned
    <3>. QED BY <2>1, <3>2 DEF AnswersAreEarned
  <2>. QED BY <2>1, <2>2 DEF Ended, AnswersAreEarned
<1>2. CASE ~Closes
  <2>1. UNCHANGED passed
    <3>1. CASE Bookkeeping
      BY <3>1, BookkeepingFact
    <3>2. CASE BeginWait \/ LooksAtText \/ Delay \/ Stamps \/ Writes \/ Collect \/ Joins \/ Verdict
      BY <3>2 DEF BeginWait, LooksAtText, Delay, Stamps, Writes, Collect, Joins, Verdict, result
    <3>3. CASE Firmware \/ PumpDelivers \/ Reader \/ DeadlinePasses \/ Done
      BY <3>3 DEF Firmware, ReadsStdin, PrintsAnswer, PrintsNoise, Exits, ShutsStdout, HeirComesAndGoes,
                  PumpDelivers, Reader, Ingests, SeesEof, DeadlinePasses, Done, vars, result
    <3>. QED BY <1>2, <3>1, <3>2, <3>3 DEF Next, Main, Bookkeeping
  <2>2. ASSUME passed PROVE pc' = "result" /\ AnswersAreEarned'
    <3>1. pc = "result"
      BY <2>2 DEF Ended
    <3>2. pc' = "result" /\ UNCHANGED waited
      BY <3>1, AfterFact DEF After
    <3>3. ~Stamps
      BY <3>1 DEF Stamps
    <3>4. UNCHANGED leaked
      <4>1. CASE ~Touches
        BY <4>1, TextAlone
      <4>2. CASE PrintsAnswer \/ PrintsNoise \/ Ingests \/ Collect
        BY <4>2 DEF PrintsAnswer, PrintsNoise, Ingests, Collect, main
      <4>. QED BY <3>3, <4>1, <4>2 DEF Touches
    <3>5. ASSUME NEW k \in DOMAIN waited PROVE UNCHANGED printed[waited[k][1]]
      <4>1. PICK j \in WaitSteps : waited[k] = <<Needle(j), Count(j, "write")>>
        BY DEF WaitedSteps
      <4>2. waited[k][1] \in Needles
        BY <4>1, NeedleType DEF WaitSteps
      <4>3. printed[waited[k][1]] # NotYet
        BY <2>2 DEF Ended, AnswersAreEarned
      <4>4. printed'[waited[k][1]] = printed[waited[k][1]]
        BY <4>2, <4>3, PrintedGrows
      <4>. QED BY <3>2, <4>4
    <3>6. \A k \in DOMAIN waited : printed'[waited[k][1]] = printed[waited[k][1]]
      BY <3>2, <3>5
    <3>. QED BY <2>2, <3>2, <3>4, <3>6 DEF Ended, AnswersAreEarned
  <2>. QED BY <2>1, <2>2 DEF Ended, AnswersAreEarned
<1>. QED BY <1>1, <1>2

\* No stamp convicts an honest firmware.
LEMMA HonestUnconvicted ==
    ASSUME Inv, firmware = "honest"
    PROVE  ~Convicted
<1>. USE UnixRunAssumption DEF Inv
<1>1. SUFFICES ASSUME NEW k \in DOMAIN waited, waited[k][1] \in log
               PROVE  Answered(waited[k][1], waited[k][2])
  BY DEF Convicted
<1>2. PICK j \in WaitSteps : waited[k] = <<Needle(j), Count(j, "write")>>
  BY DEF WaitedSteps
<1>3. Needle(j) \in Needles /\ Count(j, "write") \in Nat
  BY NeedleType, CountType DEF WaitSteps
<1>4. waited[k][1] = Needle(j) /\ waited[k][2] = Count(j, "write")
  BY <1>2
<1>5. first[Needle(j)] # NotYet
  BY <1>1, <1>4 DEF Logged
<1>6. printed[Needle(j)] # NotYet /\ printed[Needle(j)] <= first[Needle(j)]
  BY <1>3, <1>5 DEF PrintedFirst
<1>7. Count(j, "write") <= printed[Needle(j)]
  BY <1>6 DEF HonestAnswers
<1>8. printed[Needle(j)] \in Nat /\ first[Needle(j)] \in Nat
  BY <1>3, <1>5, <1>6 DEF Typed, Stamp
<1>9. first[Needle(j)] >= Count(j, "write")
  BY <1>3, <1>6, <1>7, <1>8
<1>. QED BY <1>4, <1>5, <1>9 DEF Answered, Printed

(***************************************************************************)
(* The theorems.                                                           *)
(***************************************************************************)

\* The invariant holds of every run of a firmware, for every stimulus.
THEOREM Invariance == Spec => []Inv
<1>1. Init => Inv
  <2>. SUFFICES ASSUME Init PROVE Inv
    OBVIOUS
  <2>. USE DEF Init
  <2>1. Typed
    <3>1. first \in [Needles -> Stamp] /\ printed \in [Needles -> Stamp]
      BY DEF Stamp
    <3>2. waited \in Seq(Nat \X Nat) /\ pipe \in Seq(Nat)
      OBVIOUS
    <3>4. i \in Nat \ {0} /\ {stamped, sent, delivered, read} \subseteq Nat
      OBVIOUS
    <3>. HIDE DEF Init
    <3>. QED BY <3>1, <3>2, <3>4 DEF Typed
  <2>2. Position /\ Handover
    BY DEF Position, Handover
  <2>3. WaitedSteps
    BY DEF WaitedSteps
  <2>4. \A n \in Needles : first[n] = NotYet /\ printed[n] = NotYet
    OBVIOUS
  <2>5. PrintedFirst /\ PipeLags
    BY <2>4 DEF PrintedFirst, PipeLags
  <2>6. HonestAnswers
    <3>1. \A j \in WaitSteps : printed[Needle(j)] = NotYet
      BY <2>4, NeedleType DEF WaitSteps
    <3>. QED BY <3>1 DEF HonestAnswers
  <2>7. Fair
    BY <2>4 DEF Fair, FairSince, FairIn
  <2>8. Logged /\ Judged /\ Ended
    BY DEF Logged, Judged, After, Ended, AnswersAreEarned
  <2>. QED BY <2>1, <2>2, <2>3, <2>5, <2>6, <2>7, <2>8 DEF Inv
<1>2. Inv /\ Next => Inv'
  <2>. SUFFICES ASSUME Inv, Next PROVE Inv'
    OBVIOUS
  <2>1. Typed' /\ Position' /\ Handover'
    BY TypedStep, PositionStep, HandoverStep DEF Inv
  <2>2. WaitedSteps' /\ PrintedFirst' /\ PipeLags'
    BY WaitedStepsStep, PrintedFirstStep, PipeLagsStep DEF Inv
  <2>3. HonestAnswers' /\ Fair'
    BY HonestAnswersStep, FairStep DEF Inv
  <2>4. Logged' /\ Judged' /\ Ended'
    BY LoggedStep, JudgedStep, EndedStep DEF Inv
  <2>. QED BY <2>1, <2>2, <2>3, <2>4 DEF Inv
<1>3. Inv /\ UNCHANGED vars => Inv'
  <2>. SUFFICES ASSUME Inv, UNCHANGED vars PROVE Inv'
    OBVIOUS
  <2>. USE DEF vars, main, ingest, child, result
  <2>1. Typed' /\ Position' /\ Handover'
    BY DEF Inv, Typed, Position, Handover, Count, StepsBefore
  <2>2. WaitedSteps' /\ PrintedFirst' /\ PipeLags'
    BY DEF Inv, WaitedSteps, PrintedFirst, PipeLags, WaitSteps, Needle, Count, StepsBefore
  <2>3. HonestAnswers' /\ Fair'
    BY DEF Inv, HonestAnswers, Fair, FairSince, FairIn, WaitSteps, Needle, Count, StepsBefore
  <2>4. Logged' /\ Judged' /\ Ended'
    BY DEF Inv, Logged, Judged, Convicted, Answered, Printed, Ended, AnswersAreEarned
  <2>. QED BY <2>1, <2>2, <2>3, <2>4 DEF Inv
<1>. QED BY <1>1, <1>2, <1>3, PTL DEF Spec

\* A pass is earned (_run_unix, _wait_quiet, _first_answer_stamp): in every
\* passed run the answer of every wait reached was first printed after its
\* trigger's stamp, or was in the pipe at that stamp.
THEOREM AnswersAreEarnedHolds == Spec => []AnswersAreEarned
<1>1. Inv => AnswersAreEarned
  BY DEF Inv, Ended
<1>. QED BY <1>1, Invariance, PTL

\* An honest firmware is never convicted by the stamps (_run_unix, rule 1), and
\* of printing early (rule 2) only when none of its answers was credited.
THEOREM HonestNeverPrePrintedHolds == Spec => []HonestNeverPrePrinted
<1>1. Inv => HonestNeverPrePrinted
  <2>1. Inv /\ firmware = "honest" => ~Convicted
    BY HonestUnconvicted
  <2>. QED BY <2>1 DEF Inv, Judged, HonestNeverPrePrinted
<1>. QED BY <1>1, Invariance, PTL
=============================================================================
