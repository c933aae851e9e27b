--------------------------- MODULE PlantRunProofs ---------------------------
(***************************************************************************)
(* Proofs about a plant run: its stdin pump, for every cap and every pipe  *)
(* size, and its flood verdict, for every length of the loop, every bound  *)
(* of the answer queue and everything a controller may print.              *)
(***************************************************************************)
EXTENDS PlantRun, SequenceTheorems, TLAPS

(***************************************************************************)
(* Runs of consecutive lines.                                              *)
(***************************************************************************)

\* A run can be continued at its end: what write() and the pipe do.
LEMMA ContinuesAppend ==
    ASSUME NEW s \in Seq(Nat), NEW n \in Nat, Continues(s, n)
    PROVE  /\ Append(s, n + Len(s) + 1) \in Seq(Nat)
           /\ Len(Append(s, n + Len(s) + 1)) = Len(s) + 1
           /\ Continues(Append(s, n + Len(s) + 1), n)
<1>1. Len(s) \in Nat
  OBVIOUS
<1>2. n + Len(s) + 1 \in Nat
  BY <1>1
<1>3. Append(s, n + Len(s) + 1) \in Seq(Nat) /\ Len(Append(s, n + Len(s) + 1)) = Len(s) + 1
  BY <1>2
<1>4. ASSUME NEW i \in 1..Len(s) + 1
      PROVE  Append(s, n + Len(s) + 1)[i] = n + i
  <2>1. CASE i = Len(s) + 1
    BY <1>1, <1>2, <2>1
  <2>2. CASE i \in 1..Len(s)
    BY <1>1, <1>2, <2>2 DEF Continues
  <2>. QED BY <1>1, <2>1, <2>2
<1>. QED BY <1>3, <1>4 DEF Continues

\* A run without its first line continues one further on: what the pump and the
\* child take.
LEMMA ContinuesTail ==
    ASSUME NEW s \in Seq(Nat), NEW n \in Nat, Continues(s, n), s # <<>>
    PROVE  /\ Head(s) = n + 1
           /\ Tail(s) \in Seq(Nat)
           /\ Len(s) \in Nat \ {0}
           /\ Len(Tail(s)) = Len(s) - 1
           /\ Continues(Tail(s), n + 1)
<1>1. Len(s) \in Nat \ {0} /\ Tail(s) \in Seq(Nat) /\ Len(Tail(s)) = Len(s) - 1
  OBVIOUS
<1>2. Head(s) = n + 1
  BY <1>1 DEF Continues
<1>3. ASSUME NEW i \in 1..Len(s) - 1
      PROVE  Tail(s)[i] = n + 1 + i
  <2>1. i + 1 \in 1..Len(s) /\ Tail(s)[i] = s[i + 1]
    BY <1>1
  <2>. QED BY <2>1 DEF Continues
<1>. QED BY <1>1, <1>2, <1>3 DEF Continues

(***************************************************************************)
(* The inductive invariant of the pump.  LinesInOrder is not inductive: it  *)
(* must also say when the pump has a line in its hand, and that the wake-up *)
(* stays set as long as the pump works.                                    *)
(***************************************************************************)

Holds   == ppc \in {"write", "blocked", "fail"}
Through == Len(got) + Len(pipe)

HandInv == hand = IF Holds THEN <<Through + 1>> ELSE <<>>

\* Lines that the child has read, that are in the pipe, in hand or queued.
Kept == Through + (IF Holds THEN 1 ELSE 0) + Len(queue)

LinesInv ==
    /\ Continues(got, 0)
    /\ Continues(pipe, Len(got))
    /\ Continues(queue, Through + (IF Holds THEN 1 ELSE 0))
    /\ Kept <= offered
    /\ Kept < offered => overflow \/ broken
    /\ pending = Len(queue)
    /\ pending <= MaxPending

WakeInv == ppc \notin {"wait", "dead"} => wake

PumpInv == PumpTypeOK /\ HandInv /\ LinesInv /\ WakeInv /\ NoLostWakeup

\* The invariant gives what the runs check.
LEMMA InvImpliesLines ==
    ASSUME PumpInv
    PROVE  LinesInOrder
<1>1. Len(got) \in Nat /\ Len(pipe) \in Nat /\ Len(queue) \in Nat /\ Through \in Nat
  BY DEF PumpInv, PumpTypeOK, Through
<1>2. CASE Holds
  <2>1. hand = <<Through + 1>> /\ Len(hand) = 1
    BY <1>1, <1>2 DEF PumpInv, HandInv
  <2>2. Continues(hand, Through)
    BY <2>1, <1>1 DEF Continues
  <2>. QED
    BY <1>1, <1>2, <2>1, <2>2 DEF PumpInv, LinesInv, LinesInOrder, Kept, Through
<1>3. CASE ~Holds
  <2>1. hand = <<>> /\ Len(hand) = 0
    BY <1>3 DEF PumpInv, HandInv
  <2>2. Continues(hand, Through)
    BY <2>1 DEF Continues
  <2>. QED
    BY <1>1, <1>3, <2>1, <2>2 DEF PumpInv, LinesInv, LinesInOrder, Kept, Through
<1>. QED BY <1>2, <1>3

\* It holds when the pump is made.
LEMMA PumpInitInv ==
    ASSUME PumpInit
    PROVE  PumpInv
<1>0. ppc = "wait" /\ hand = <<>> /\ queue = <<>> /\ ~closing
  BY DEF PumpInit
<1>1. PumpTypeOK /\ HandInv /\ WakeInv /\ NoLostWakeup
  <2>1. PumpTypeOK
    <3>1. /\ queue \in Seq(Nat) /\ hand \in Seq(Nat) /\ pipe \in Seq(Nat) /\ got \in Seq(Nat)
          /\ pending \in Nat /\ offered \in Nat
      BY DEF PumpInit
    <3>2. /\ overflow \in BOOLEAN /\ broken \in BOOLEAN /\ closing \in BOOLEAN
          /\ wake \in BOOLEAN /\ readable \in BOOLEAN /\ stdin \in BOOLEAN
      BY Zenon DEF PumpInit
    <3>3. ppc = "wait" /\ wpc = "out"
      BY DEF PumpInit
    <3>. QED BY <3>1, <3>2, <3>3 DEF PumpTypeOK
  <2>2. HandInv /\ WakeInv
    BY <1>0 DEF HandInv, Holds, WakeInv
  <2>3. NoLostWakeup
    BY <1>0, Zenon DEF NoLostWakeup
  <2>. QED BY <2>1, <2>2, <2>3
<1>2. LinesInv
  BY PumpAssumption DEF PumpInit, LinesInv, Continues, Kept, Through, Holds
<1>. QED BY <1>1, <1>2 DEF PumpInv

(***************************************************************************)
(* One lemma per action that moves a line.                                 *)
(***************************************************************************)

\* write() queues the next line, or refuses it and says so.
LEMMA WriteInv ==
    ASSUME PumpInv, Write
    PROVE  PumpInv'
<1>0. /\ PumpTypeOK /\ HandInv /\ LinesInv /\ WakeInv /\ NoLostWakeup
      /\ UNCHANGED <<broken, closing, wake, ppc, hand, pipe, got, readable, stdin>>
      /\ wpc = "out" /\ offered' = offered + 1 /\ overflow' = (overflow \/ Overflows)
  BY DEF PumpInv, Write, channel
<1>1. Len(got) \in Nat /\ Len(pipe) \in Nat /\ Len(queue) \in Nat /\ Through \in Nat
      /\ offered \in Nat /\ Kept \in Nat
  BY <1>0 DEF PumpTypeOK, Through, Kept
<1>2. Holds' = Holds /\ Through' = Through
  BY <1>0 DEF Holds, Through
<1>3. HandInv' /\ WakeInv'
  BY <1>0, <1>2 DEF HandInv, WakeInv
<1>4. CASE Refuses \/ Overflows
  <2>1. UNCHANGED <<queue, pending, wpc>>
    BY <1>4 DEF Write, backlog
  <2>2. overflow' \/ broken'
    BY <1>0, <1>4 DEF Refuses
  <2>3. Kept' = Kept
    BY <1>2, <2>1 DEF Kept
  <2>4. LinesInv'
    BY <1>0, <1>1, <1>2, <2>1, <2>2, <2>3 DEF LinesInv, Continues
  <2>5. PumpTypeOK'
    BY <1>0, <1>1, <2>1 DEF PumpTypeOK, Overflows, Refuses
  <2>. QED BY <1>0, <1>3, <2>1, <2>4, <2>5 DEF PumpInv, NoLostWakeup
<1>5. CASE ~(Refuses \/ Overflows)
  <2>1. /\ queue' = Append(queue, offered + 1) /\ pending' = pending + 1 /\ wpc' = "set"
        /\ overflow' = FALSE /\ overflow = FALSE
    <3>1. queue' = Append(queue, offered + 1) /\ pending' = pending + 1 /\ wpc' = "set"
      BY <1>5, Zenon DEF Write
    <3>2. ~overflow /\ ~overflow'
      BY <1>0, <1>5, Zenon DEF Refuses
    <3>3. overflow \in BOOLEAN /\ overflow' = (overflow \/ Overflows)
      BY <1>0 DEF PumpTypeOK
    <3>4. overflow' = FALSE /\ overflow = FALSE
      BY <3>2, <3>3
    <3>. QED BY <3>1, <3>4
  <2>2. Kept = offered /\ ~overflow /\ ~broken
    BY <1>0, <1>1, <1>5 DEF LinesInv, Refuses
  <2>3. pending + 1 <= MaxPending
    BY <1>0, <1>5, PumpAssumption DEF Overflows, PumpTypeOK
  <2> DEFINE n == Through + (IF Holds THEN 1 ELSE 0)
  <2>4. n \in Nat /\ offered + 1 = n + Len(queue) + 1 /\ n' = n
    BY <1>1, <1>2, <2>2 DEF Kept
  <2>5. Continues(queue, n) /\ queue \in Seq(Nat)
    BY <1>0 DEF LinesInv, PumpTypeOK
  <2>6. Continues(queue', n) /\ queue' \in Seq(Nat) /\ Len(queue') = Len(queue) + 1
    <3> HIDE DEF n
    <3>. QED BY <2>1, <2>4, <2>5, ContinuesAppend
  <2>7. Kept' = Kept + 1
    BY <1>1, <1>2, <2>6 DEF Kept
  <2>8. LinesInv'
    <3>1. Continues(queue', n')
      BY <2>4, <2>6
    <3>2. Continues(got', 0) /\ Continues(pipe', Len(got'))
      BY <1>0 DEF LinesInv
    <3>3. pending' = Len(queue') /\ pending' <= MaxPending
      BY <1>0, <2>1, <2>3, <2>6 DEF LinesInv
    <3>. QED BY <1>0, <1>1, <2>2, <2>7, <3>1, <3>2, <3>3 DEF LinesInv
  <2>9. PumpTypeOK'
    BY <1>0, <1>1, <2>1, <2>6 DEF PumpTypeOK
  <2>. QED BY <1>0, <1>3, <2>1, <2>8, <2>9 DEF PumpInv, NoLostWakeup
<1>. QED BY <1>4, <1>5

\* The pump takes the oldest line out of the queue and into its hand.
LEMMA PopInv ==
    ASSUME PumpInv, PumpPops
    PROVE  PumpInv'
<1>0. /\ PumpTypeOK /\ HandInv /\ LinesInv /\ WakeInv /\ NoLostWakeup
      /\ UNCHANGED <<overflow, broken, closing, wake, wpc, offered, pipe, got, readable, stdin>>
      /\ ppc = "pop"
  BY DEF PumpInv, PumpPops, channel, flags
<1>1. Len(got) \in Nat /\ Len(pipe) \in Nat /\ Len(queue) \in Nat /\ Through \in Nat
      /\ Through' = Through /\ wake /\ ~Holds /\ hand = <<>>
  BY <1>0 DEF PumpTypeOK, Through, WakeInv, HandInv, Holds
<1>2. CASE queue = <<>>
  <2>1. ppc' = "check" /\ UNCHANGED <<queue, pending, hand>>
    BY <1>2 DEF PumpPops, backlog
  <2>2. ~Holds' /\ Kept' = Kept
    BY <1>0, <1>1, <2>1 DEF Holds, Kept
  <2>3. LinesInv'
    BY <1>0, <1>1, <2>1, <2>2 DEF LinesInv, Continues
  <2>4. HandInv' /\ WakeInv' /\ PumpTypeOK' /\ NoLostWakeup'
    BY <1>0, <1>1, <2>1, <2>2 DEF HandInv, WakeInv, PumpTypeOK, NoLostWakeup
  <2>. QED BY <2>3, <2>4 DEF PumpInv
<1>3. CASE queue # <<>>
  <2>1. ppc' = "write" /\ hand' = <<Head(queue)>> /\ queue' = Tail(queue) /\ pending' = pending - 1
    BY <1>3, Zenon DEF PumpPops
  <2>2. Continues(queue, Through) /\ queue \in Seq(Nat)
    BY <1>0, <1>1 DEF LinesInv, PumpTypeOK
  <2>3. /\ Head(queue) = Through + 1 /\ queue' \in Seq(Nat)
        /\ Len(queue) \in Nat \ {0} /\ Len(queue') = Len(queue) - 1
        /\ Continues(queue', Through + 1)
    BY <1>1, <1>3, <2>1, <2>2, ContinuesTail
  <2>4. Holds' /\ Kept' = Kept
    BY <1>1, <2>1, <2>3 DEF Holds, Kept
  <2>5. HandInv' /\ WakeInv'
    BY <1>0, <1>1, <2>1, <2>3, <2>4 DEF HandInv, WakeInv
  <2>6. LinesInv'
    <3>1. Continues(queue', Through' + 1) /\ Continues(got', 0) /\ Continues(pipe', Len(got'))
      BY <1>0, <1>1, <2>3 DEF LinesInv
    <3>2. pending' = Len(queue') /\ pending' <= MaxPending
      BY <1>0, <2>1, <2>3, PumpAssumption DEF LinesInv
    <3>. QED BY <1>0, <2>4, <3>1, <3>2 DEF LinesInv
  <2>7. PumpTypeOK'
    BY <1>0, <1>1, <2>1, <2>3, <2>6 DEF PumpTypeOK, LinesInv
  <2>. QED BY <2>1, <2>5, <2>6, <2>7 DEF PumpInv, NoLostWakeup
<1>. QED BY <1>2, <1>3

\* The line in hand goes into the pipe.
LEMMA PipeInv ==
    ASSUME PumpInv, PumpWrites
    PROVE  PumpInv'
<1>0. /\ PumpTypeOK /\ HandInv /\ LinesInv /\ WakeInv /\ NoLostWakeup
      /\ UNCHANGED <<queue, pending, overflow, broken, closing, wake, wpc, offered, got,
                     readable, stdin>>
      /\ ppc \in {"write", "blocked"} /\ ppc' = "pop"
      /\ pipe' = pipe \o hand /\ hand' = <<>>
  BY DEF PumpInv, PumpWrites, backlog, flags
<1>1. Len(got) \in Nat /\ Len(pipe) \in Nat /\ Len(queue) \in Nat /\ Through \in Nat
      /\ wake /\ Holds /\ ~Holds' /\ hand = <<Through + 1>> /\ pipe \in Seq(Nat)
  BY <1>0 DEF PumpTypeOK, Through, WakeInv, HandInv, Holds
<1>2. pipe' = Append(pipe, Len(got) + Len(pipe) + 1)
  BY <1>0, <1>1, AppendIsConcat DEF Through
<1>3. pipe' \in Seq(Nat) /\ Len(pipe') = Len(pipe) + 1 /\ Continues(pipe', Len(got))
  <2>1. Continues(pipe, Len(got))
    BY <1>0 DEF LinesInv
  <2>. QED BY <1>1, <1>2, <2>1, ContinuesAppend
<1>4. Through' = Through + 1 /\ Kept' = Kept
  BY <1>0, <1>1, <1>3 DEF Through, Kept
<1>5. LinesInv'
  <2>1. Continues(queue, Through + 1)
    BY <1>0, <1>1 DEF LinesInv
  <2>2. Continues(queue', Through' + 0)
    BY <1>0, <1>1, <1>4, <2>1 DEF Continues
  <2>3. Continues(got', 0) /\ Continues(pipe', Len(got'))
    BY <1>0, <1>3 DEF LinesInv
  <2>. QED BY <1>0, <1>1, <1>4, <2>2, <2>3 DEF LinesInv
<1>6. HandInv' /\ WakeInv' /\ NoLostWakeup' /\ PumpTypeOK'
  BY <1>0, <1>1, <1>3 DEF HandInv, WakeInv, NoLostWakeup, PumpTypeOK
<1>. QED BY <1>5, <1>6 DEF PumpInv

\* A write that raises: what was in hand and in the queue is given up, and the
\* latch says so.
LEMMA LatchInv ==
    ASSUME PumpInv, PumpLatches
    PROVE  PumpInv'
<1>0. /\ PumpTypeOK /\ HandInv /\ LinesInv /\ WakeInv /\ NoLostWakeup
      /\ UNCHANGED <<overflow, closing, wake, wpc, offered, pipe, got, readable, stdin>>
      /\ ppc = "fail" /\ ppc' = "dead" /\ broken' = TRUE
      /\ queue' = <<>> /\ pending' = 0 /\ hand' = <<>>
  BY DEF PumpInv, PumpLatches, channel
<1>1. Len(got) \in Nat /\ Len(pipe) \in Nat /\ Len(queue) \in Nat /\ Through \in Nat
      /\ Through' = Through /\ Holds /\ ~Holds'
  BY <1>0 DEF PumpTypeOK, Through, Holds
<1>2. Kept' <= Kept /\ Kept' \in Nat /\ Kept \in Nat
  BY <1>0, <1>1 DEF Kept
<1>3. LinesInv'
  <2>1. Continues(queue', Through' + 0)
    BY <1>0 DEF Continues
  <2>2. Continues(got', 0) /\ Continues(pipe', Len(got'))
    BY <1>0 DEF LinesInv
  <2>3. offered \in Nat /\ Kept' <= offered'
    BY <1>0, <1>2 DEF LinesInv, PumpTypeOK
  <2>. QED BY <1>0, <1>1, <2>1, <2>2, <2>3, PumpAssumption DEF LinesInv
<1>4. HandInv' /\ WakeInv' /\ NoLostWakeup' /\ PumpTypeOK'
  BY <1>0, <1>1 DEF HandInv, WakeInv, NoLostWakeup, PumpTypeOK
<1>. QED BY <1>3, <1>4 DEF PumpInv

\* The end of the drain clears the wake-up only when nothing is left to do: a
\* line queued since, or a close(), has its own wake-up on the way.
LEMMA CheckInv ==
    ASSUME PumpInv, PumpChecks
    PROVE  PumpInv'
<1>0. /\ PumpTypeOK /\ HandInv /\ LinesInv /\ WakeInv /\ NoLostWakeup
      /\ UNCHANGED <<queue, pending, overflow, broken, closing, hand, wpc, offered, pipe, got,
                     readable, stdin>>
      /\ ppc = "check" /\ ppc' \in {"wait", "dead"}
  BY DEF PumpInv, PumpChecks, backlog, flags, channel
<1>1. wake /\ wake \in BOOLEAN /\ ~Holds /\ ~Holds' /\ Through' = Through /\ Kept' = Kept
  BY <1>0 DEF WakeInv, PumpTypeOK, Holds, Through, Kept
<1>2. wake' \in BOOLEAN
  BY <1>0, <1>1 DEF PumpChecks
<1>3. LinesInv'
  BY <1>0, <1>1 DEF LinesInv, Continues
<1>4. HandInv' /\ WakeInv' /\ PumpTypeOK'
  BY <1>0, <1>1, <1>2 DEF HandInv, WakeInv, PumpTypeOK
<1>5. NoLostWakeup'
  <2>1. SUFFICES ASSUME ppc' = "wait", ~wake' PROVE queue' = <<>> /\ ~closing'
    BY DEF NoLostWakeup
  <2>2. ~(Drained /\ closing)
    BY <2>1 DEF PumpChecks
  <2>3. wake' = (wake /\ ~Drained)
    BY <2>2, Zenon DEF PumpChecks
  <2>4. Drained
    BY <1>1, <2>1, <2>3, Zenon
  <2>. QED BY <1>0, <2>2, <2>4, Zenon DEF Drained
<1>. QED BY <1>3, <1>4, <1>5 DEF PumpInv

\* The child takes the first line of the pipe.
LEMMA ReadInv ==
    ASSUME PumpInv, ChildReads
    PROVE  PumpInv'
<1>0. /\ PumpTypeOK /\ HandInv /\ LinesInv /\ WakeInv /\ NoLostWakeup
      /\ UNCHANGED <<queue, pending, overflow, broken, closing, wake, ppc, hand, wpc, offered,
                     readable, stdin>>
      /\ pipe # <<>> /\ got' = Append(got, Head(pipe)) /\ pipe' = Tail(pipe)
  BY DEF PumpInv, ChildReads, backlog, flags
<1>1. /\ Len(got) \in Nat /\ got \in Seq(Nat) /\ pipe \in Seq(Nat)
      /\ Continues(pipe, Len(got)) /\ Continues(got, 0)
  BY <1>0 DEF PumpTypeOK, LinesInv
<1>2. /\ Head(pipe) = Len(got) + 1 /\ pipe' \in Seq(Nat) /\ Len(pipe) \in Nat
      /\ Len(pipe') = Len(pipe) - 1 /\ Continues(pipe', Len(got) + 1)
  BY <1>0, <1>1, ContinuesTail
<1>3. got' \in Seq(Nat) /\ Len(got') = Len(got) + 1 /\ Continues(got', 0)
  <2>1. got' = Append(got, 0 + Len(got) + 1)
    BY <1>0, <1>1, <1>2
  <2>. QED BY <1>1, <2>1, ContinuesAppend
<1>4. Holds' = Holds /\ Through' = Through /\ Kept' = Kept
  BY <1>0, <1>1, <1>2, <1>3 DEF Holds, Through, Kept
<1>5. LinesInv'
  BY <1>0, <1>2, <1>3, <1>4 DEF LinesInv
<1>6. HandInv' /\ WakeInv' /\ NoLostWakeup' /\ PumpTypeOK'
  BY <1>0, <1>2, <1>3, <1>4 DEF HandInv, WakeInv, NoLostWakeup, PumpTypeOK
<1>. QED BY <1>5, <1>6 DEF PumpInv

\* The other steps move no line and clear no wake-up.
LEMMA QuietInv ==
    ASSUME PumpInv,
           \/ CloseWriter \/ SetWake \/ CloseStdin
           \/ PumpWakes \/ PumpBlocks \/ PumpFails
           \/ ChildLeaves
           \/ UNCHANGED pumpVars
    PROVE  PumpInv'
<1>0. PumpTypeOK /\ HandInv /\ LinesInv /\ WakeInv /\ NoLostWakeup
  BY DEF PumpInv
<1>1. UNCHANGED <<queue, pending, overflow, broken, hand, offered, pipe, got>>
  BY DEF CloseWriter, SetWake, CloseStdin, PumpWakes, PumpBlocks, PumpFails, ChildLeaves,
         pumpVars, backlog, flags, channel
<1>2. Holds' = Holds /\ PumpTypeOK' /\ WakeInv' /\ NoLostWakeup'
  <2>1. CASE CloseWriter
    BY <1>0, <2>1 DEF CloseWriter, backlog, channel, Holds, PumpTypeOK, WakeInv, NoLostWakeup
  <2>2. CASE SetWake
    BY <1>0, <2>2 DEF SetWake, backlog, flags, channel, Holds, PumpTypeOK, WakeInv, NoLostWakeup
  <2>3. CASE CloseStdin
    BY <1>0, <2>3 DEF CloseStdin, backlog, flags, channel, Holds, PumpTypeOK, WakeInv, NoLostWakeup
  <2>4. CASE PumpWakes
    BY <1>0, <2>4 DEF PumpWakes, backlog, flags, channel, Holds, PumpTypeOK, WakeInv, NoLostWakeup
  <2>5. CASE PumpBlocks
    BY <1>0, <2>5 DEF PumpBlocks, backlog, flags, channel, Holds, PumpTypeOK, WakeInv, NoLostWakeup
  <2>6. CASE PumpFails
    BY <1>0, <2>6 DEF PumpFails, backlog, flags, channel, Holds, PumpTypeOK, WakeInv, NoLostWakeup
  <2>7. CASE ChildLeaves
    BY <1>0, <2>7 DEF ChildLeaves, backlog, flags, channel, Holds, PumpTypeOK, WakeInv, NoLostWakeup
  <2>8. CASE UNCHANGED pumpVars
    BY <1>0, <2>8 DEF pumpVars, backlog, flags, channel, Holds, PumpTypeOK, WakeInv, NoLostWakeup
  <2>. QED BY <2>1, <2>2, <2>3, <2>4, <2>5, <2>6, <2>7, <2>8
<1>3. Through' = Through /\ Kept' = Kept
  BY <1>1, <1>2 DEF Through, Kept
<1>4. HandInv' /\ LinesInv'
  BY <1>0, <1>1, <1>2, <1>3 DEF HandInv, LinesInv
<1>. QED BY <1>2, <1>4 DEF PumpInv

(***************************************************************************)
(* The theorems.                                                           *)
(***************************************************************************)

\* The pump keeps its invariant for every cap, every pipe and every order in
\* which its writer, its thread and the child move (_StdinWriter).
THEOREM PumpInvariant == PumpSpec => []PumpInv
<1>1. PumpInv /\ [PumpNext]_pumpVars => PumpInv'
  BY WriteInv, PopInv, PipeInv, LatchInv, CheckInv, ReadInv, QuietInv
     DEF PumpNext, PumpStep
<1>. QED BY PumpInitInv, <1>1, PTL DEF PumpSpec

\* A plant run uses the pump only through its operations: every step of the run
\* is a step of the pump or leaves the pump alone.
THEOREM RunDrivesPump == Spec => PumpSpec
<1>1. Init => PumpInit
  BY DEF Init
<1>2. [Next]_vars => [PumpNext]_pumpVars
  <2>1. ASSUME NEW status, Dies(status) PROVE [PumpNext]_pumpVars
    <3>1. CASE readable' = FALSE
      <4>1. ChildLeaves
        BY <2>1, <3>1, Zenon DEF Dies, ChildLeaves
      <4>. QED BY <4>1, Zenon DEF PumpNext
    <3>2. CASE readable' = readable
      <4>1. UNCHANGED pumpVars
        BY <2>1, <3>2 DEF Dies, pumpVars, backlog, flags, channel
      <4>. QED BY <4>1
    <3>3. readable' = FALSE \/ readable' = readable
      BY <2>1 DEF Dies
    <3>. QED BY <3>1, <3>2, <3>3
  <2>2. CASE MainStep
    <3>1. CASE SendsSetpoint \/ WriteReturns \/ ClosesPump \/ ClosesStdin \/ TearsDown
      BY <3>1, Zenon DEF SendsSetpoint, WriteReturns, ClosesPump, ClosesStdin, TearsDown, PumpNext
    <3>2. CASE ChecksChannel \/ MissesDeadline \/ TakesAnswer \/ LoopEnds \/ WaitsForExit \/ Judges
      BY <3>2, Zenon DEF ChecksChannel, MissesDeadline, TakesAnswer, LoopEnds, WaitsForExit, Judges
    <3>3. CASE Kills
      BY <3>3, <2>1, Zenon DEF Kills
    <3>4. CASE JoinsPump
      BY <3>4, Zenon DEF JoinsPump, PumpNext
    <3>. QED BY <2>2, <3>1, <3>2, <3>3, <3>4 DEF MainStep
  <2>3. CASE TimePasses \/ OutStep
    BY <2>3, Zenon DEF TimePasses, OutStep, OutReads, OutPuts, OutCounts, OutDrops
  <2>4. CASE PumpRuns
    BY <2>4, Zenon DEF PumpRuns, PumpNext
  <2>5. CASE Child
    <3>1. CASE Prints \/ ClosesItsStdout \/ Forks
      BY <3>1, Zenon DEF Prints, ClosesItsStdout, Forks
    <3>2. CASE Reads \/ ClosesItsStdin
      BY <3>2, Zenon DEF Reads, ClosesItsStdin, PumpNext
    <3>3. CASE Exits
      BY <3>3, <2>1, Zenon DEF Exits
    <3>. QED BY <2>5, <3>1, <3>2, <3>3 DEF Child
  <2>6. CASE Finished \/ UNCHANGED vars
    BY <2>6 DEF Finished, vars
  <2>. QED BY <2>2, <2>3, <2>4, <2>5, <2>6 DEF Next
<1>. QED BY <1>1, <1>2, PTL DEF Spec, PumpSpec

\* The controller reads the setpoints in the order in which the loop wrote them,
\* none skipped and none twice; one that is lost is reported; the backlog is
\* bounded.
THEOREM SetpointsInOrder == Spec => []LinesInOrder
BY RunDrivesPump, PumpInvariant, InvImpliesLines, PTL

\* The pump never sleeps on a queued line or on a close().
THEOREM PumpNeverSleepsOnWork == Spec => []NoLostWakeup
<1>1. PumpInv => NoLostWakeup
  BY DEF PumpInv
<1>. QED BY RunDrivesPump, PumpInvariant, <1>1, PTL

(***************************************************************************)
(* The answers of the loop, and the flood verdict.                         *)
(***************************************************************************)

AnswerTypes ==
    /\ used \in Seq(Nat) /\ outq \in Seq(Nat)
    /\ dropped \in Nat /\ moved \in Nat /\ oh \in Nat

\* As long as nothing went wrong and nothing was dropped, the lines that were
\* used, are queued and are in the pump's hand are all the lines it has moved.
Chain ==
    err = "none" /\ dropped = 0 =>
        /\ \A i \in 1..Len(used) : used[i] = i
        /\ \A i \in 1..Len(outq) : outq[i] \in {Eof, Len(used) + i}
        /\ opc = "read" => moved = Len(used) + Len(outq)
        /\ opc \in {"put", "count"} /\ oh # Eof =>
               oh = moved /\ moved = Len(used) + Len(outq) + 1

LoopOver == mpc \in {"close", "closeIn", "wait", "teardown", "kill", "joinPump", "verdict", "done"}

AnswerInv ==
    /\ AnswerTypes
    /\ Chain
    /\ opc = "drop" => dropped > 0
    /\ LoopOver /\ err = "none" => Len(used) = Steps
    /\ UsedAnswersAreFirst

LEMMA AnswerInit ==
    ASSUME Init
    PROVE  AnswerInv
<1>1. /\ used = <<>> /\ outq = <<>> /\ dropped = 0 /\ moved = 0 /\ oh = 0
      /\ opc = "read" /\ mpc = "step"
  BY DEF Init, Eof
<1>. QED BY <1>1 DEF AnswerInv, AnswerTypes, Chain, LoopOver, UsedAnswersAreFirst

\* Steps that touch neither the answers nor the verdict.
LEMMA AnswerQuiet ==
    ASSUME AnswerInv, UNCHANGED <<used, outq, dropped, moved, oh, opc, err>>,
           mpc' = mpc \/ (mpc' # "done" /\ (LoopOver' => LoopOver \/ err # "none" \/ Len(used) = Steps))
    PROVE  AnswerInv'
<1>1. AnswerTypes' /\ Chain' /\ (opc' = "drop" => dropped' > 0)
  BY DEF AnswerInv, AnswerTypes, Chain
<1>2. LoopOver' /\ err' = "none" => Len(used') = Steps
  BY DEF AnswerInv, LoopOver
<1>3. UsedAnswersAreFirst'
  BY DEF AnswerInv, UsedAnswersAreFirst
<1>. QED BY <1>1, <1>2, <1>3 DEF AnswerInv

\* An abort sets the error, and nothing is claimed any more.
LEMMA AnswerAbort ==
    ASSUME AnswerInv, AnswerTypes', NEW kind, kind # "none", Abort(kind),
           UNCHANGED <<opc, dropped>>
    PROVE  AnswerInv'
<1>1. err' # "none"
  BY DEF Abort
<1>. QED BY <1>1 DEF AnswerInv, Chain, UsedAnswersAreFirst

\* The loop takes the first answer of the queue.
LEMMA AnswerTaken ==
    ASSUME AnswerInv, TakesAnswer
    PROVE  AnswerInv'
<1>0. /\ AnswerTypes /\ Chain /\ (opc = "drop" => dropped > 0)
      /\ outq # <<>> /\ outq' = Tail(outq) /\ mpc = "get"
      /\ UNCHANGED <<opc, oh, dropped, moved>>
  BY DEF AnswerInv, TakesAnswer
<1>1. /\ Len(outq) \in Nat \ {0} /\ outq' \in Seq(Nat) /\ Len(outq') = Len(outq) - 1
      /\ Head(outq) = outq[1] /\ Head(outq) \in Nat
      /\ \A i \in 1..Len(outq') : outq'[i] = outq[i + 1]
  BY <1>0 DEF AnswerTypes
<1>2. CASE Abort("run") \/ Abort("odd")
  <2>1. AnswerTypes'
    BY <1>0, <1>1, <1>2 DEF AnswerTypes, Abort
  <2>. QED BY <1>0, <1>2, <2>1, AnswerAbort
<1>3. CASE /\ Head(outq) # Eof
           /\ used' = Append(used, Head(outq)) /\ mpc' = "step" /\ UNCHANGED <<err, exit>>
  <2>1. /\ Len(used) \in Nat /\ used' \in Seq(Nat) /\ Len(used') = Len(used) + 1
        /\ used'[Len(used) + 1] = Head(outq)
        /\ \A i \in 1..Len(used) : used'[i] = used[i]
    BY <1>0, <1>1, <1>3, AppendProperties DEF AnswerTypes
  <2>2. Chain'
    <3>1. SUFFICES ASSUME err = "none", dropped = 0
                   PROVE  /\ \A i \in 1..Len(used') : used'[i] = i
                          /\ \A i \in 1..Len(outq') : outq'[i] \in {Eof, Len(used') + i}
                          /\ Len(used') + Len(outq') = Len(used) + Len(outq)
      BY <1>0, <1>3 DEF Chain
    <3>2. Head(outq) = Len(used) + 1
      BY <1>0, <1>1, <1>3, <3>1 DEF Chain
    <3>3. ASSUME NEW i \in 1..Len(used') PROVE used'[i] = i
      BY <1>0, <2>1, <3>1, <3>2 DEF Chain
    <3>4. ASSUME NEW i \in 1..Len(outq') PROVE outq'[i] \in {Eof, Len(used') + i}
      <4>1. i + 1 \in 1..Len(outq) /\ outq'[i] = outq[i + 1]
        BY <1>1
      <4>2. outq[i + 1] \in {Eof, Len(used) + (i + 1)}
        BY <1>0, <3>1, <4>1 DEF Chain
      <4>. QED BY <2>1, <4>1, <4>2
    <3>. QED BY <1>1, <2>1, <3>3, <3>4
  <2>3. AnswerTypes' /\ ~LoopOver' /\ mpc' # "done"
    BY <1>0, <1>1, <1>3, <2>1 DEF AnswerTypes, LoopOver
  <2>. QED BY <1>0, <2>2, <2>3 DEF AnswerInv, UsedAnswersAreFirst
<1>. QED BY <1>2, <1>3 DEF TakesAnswer

\* The line in the pump's hand lands in the queue, possibly for one that gave way.
LEMMA AnswerLands ==
    ASSUME AnswerInv, NEW q \in Seq(Nat), Lands(q), UNCHANGED <<main, oh, dropped, moved>>,
           (opc = "put" /\ q = outq) \/ opc = "drop"
    PROVE  AnswerInv'
<1>0. /\ AnswerTypes /\ Chain /\ (opc = "drop" => dropped > 0)
      /\ outq' = Append(q, oh) /\ opc' = IF oh = Eof THEN "dead" ELSE "read"
      /\ UNCHANGED <<mpc, used, err, exit>> /\ oh \in Nat
  BY DEF AnswerInv, Lands, main, AnswerTypes
<1>1. outq' \in Seq(Nat) /\ Len(outq') = Len(q) + 1 /\ Len(q) \in Nat
      /\ outq'[Len(q) + 1] = oh /\ \A i \in 1..Len(q) : outq'[i] = q[i]
  BY <1>0, AppendProperties
<1>2. Chain'
  <2>1. CASE opc = "drop"
    BY <1>0, <2>1 DEF Chain, AnswerTypes
  <2>2. CASE opc = "put" /\ q = outq
    <3>1. SUFFICES ASSUME err = "none", dropped = 0
                   PROVE  /\ \A i \in 1..Len(outq') : outq'[i] \in {Eof, Len(used) + i}
                          /\ opc' = "read" => moved = Len(used) + Len(outq')
      BY <1>0 DEF Chain
    <3>2. Len(used) \in Nat
      BY <1>0 DEF AnswerTypes
    <3>3. oh \in {Eof, Len(used) + Len(outq) + 1}
      BY <1>0, <2>2, <3>1 DEF Chain
    <3>4. ASSUME NEW i \in 1..Len(outq') PROVE outq'[i] \in {Eof, Len(used) + i}
      <4>1. CASE i = Len(q) + 1
        BY <1>1, <2>2, <3>2, <3>3, <4>1
      <4>2. CASE i \in 1..Len(q)
        BY <1>0, <1>1, <2>2, <3>1, <4>2 DEF Chain
      <4>. QED BY <1>1, <4>1, <4>2
    <3>5. opc' = "read" => moved = Len(used) + Len(outq')
      BY <1>0, <1>1, <2>2, <3>1, <3>2 DEF Chain
    <3>. QED BY <3>4, <3>5
  <2>. QED BY <2>1, <2>2
<1>3. AnswerTypes' /\ (opc' = "drop" => dropped' > 0)
  BY <1>0, <1>1 DEF AnswerTypes
<1>4. UsedAnswersAreFirst' /\ (LoopOver' /\ err' = "none" => Len(used') = Steps)
  BY <1>0 DEF AnswerInv, UsedAnswersAreFirst, LoopOver
<1>. QED BY <1>2, <1>3, <1>4 DEF AnswerInv

\* The other steps of the stdout pump.
LEMMA AnswerOut ==
    ASSUME AnswerInv, OutStep
    PROVE  AnswerInv'
<1>0. /\ AnswerTypes /\ Chain /\ (opc = "drop" => dropped > 0)
      /\ UNCHANGED <<mpc, used, err, exit>> /\ UNCHANGED main
  BY DEF AnswerInv, OutStep, OutReads, OutPuts, OutCounts, OutDrops, main
<1>1. UsedAnswersAreFirst' /\ (LoopOver' /\ err' = "none" => Len(used') = Steps)
  BY <1>0 DEF AnswerInv, UsedAnswersAreFirst, LoopOver
<1>2. Len(used) \in Nat /\ Len(outq) \in Nat
  BY <1>0 DEF AnswerTypes
<1>3. CASE OutReads
  <2>1. /\ opc = "read" /\ opc' = "put" /\ UNCHANGED <<outq, dropped>>
        /\ \/ oh' = moved + 1 /\ moved' = moved + 1
           \/ oh' = Eof /\ moved' = moved
    BY <1>3 DEF OutReads
  <2>2. AnswerTypes'
    BY <1>0, <2>1 DEF AnswerTypes, Eof
  <2>3. Chain'
    <3>1. SUFFICES ASSUME err = "none", dropped = 0
                   PROVE  oh' # Eof => oh' = moved' /\ moved' = Len(used) + Len(outq) + 1
      BY <1>0, <2>1 DEF Chain
    <3>2. moved = Len(used) + Len(outq)
      BY <1>0, <2>1, <3>1 DEF Chain
    <3>. QED BY <2>1, <3>2
  <2>. QED BY <1>1, <2>1, <2>2, <2>3 DEF AnswerInv
<1>4. CASE OutPuts
  <2>1. opc = "put" /\ UNCHANGED <<oh, dropped, moved>>
    BY <1>4 DEF OutPuts
  <2>2. CASE Full
    <3>1. opc' = "count" /\ outq' = outq
      BY <1>4, <2>2 DEF OutPuts
    <3>2. AnswerTypes' /\ Chain'
      BY <1>0, <2>1, <3>1 DEF AnswerTypes, Chain
    <3>. QED BY <1>1, <3>1, <3>2 DEF AnswerInv
  <2>3. CASE ~Full
    <3>1. Lands(outq)
      BY <1>4, <2>3 DEF OutPuts
    <3>. QED BY <1>0, <2>1, <3>1, AnswerLands DEF AnswerTypes
  <2>. QED BY <2>2, <2>3
<1>5. CASE OutCounts
  <2>1. dropped' = dropped + 1 /\ UNCHANGED <<oh, outq, moved>>
    BY <1>5 DEF OutCounts
  <2>2. AnswerTypes' /\ dropped' > 0
    BY <1>0, <2>1 DEF AnswerTypes
  <2>3. Chain'
    BY <2>2 DEF Chain
  <2>. QED BY <1>1, <2>2, <2>3 DEF AnswerInv
<1>6. CASE OutDrops
  <2>1. opc = "drop" /\ UNCHANGED <<oh, dropped, moved>>
    BY <1>6 DEF OutDrops
  <2>2. CASE outq = <<>>
    <3>1. opc' = "dead" /\ outq' = outq
      BY <1>6, <2>2 DEF OutDrops
    <3>2. AnswerTypes' /\ Chain'
      BY <1>0, <2>1, <3>1 DEF AnswerTypes, Chain
    <3>. QED BY <1>1, <3>1, <3>2 DEF AnswerInv
  <2>3. CASE outq # <<>>
    <3>1. Lands(Tail(outq)) /\ Tail(outq) \in Seq(Nat)
      BY <1>0, <1>6, <2>3 DEF OutDrops, AnswerTypes
    <3>. QED BY <1>0, <2>1, <3>1, AnswerLands
  <2>. QED BY <2>2, <2>3
<1>. QED BY <1>3, <1>4, <1>5, <1>6 DEF OutStep

\* The verdict: a loop that ended well is believed only if nothing was dropped.
LEMMA AnswerJudged ==
    ASSUME AnswerInv, Judges
    PROVE  AnswerInv'
<1>0. /\ AnswerTypes /\ Chain /\ (opc = "drop" => dropped > 0)
      /\ UNCHANGED <<used, outq, dropped, moved, oh, opc>> /\ mpc = "verdict" /\ mpc' = "done"
      /\ err' = IF err = "none" /\ (dropped > 0 \/ exit' = "bad") THEN "run" ELSE err
  BY DEF AnswerInv, Judges, outPump
<1>1. CASE err' # "none"
  BY <1>0, <1>1 DEF AnswerInv, AnswerTypes, Chain, UsedAnswersAreFirst
<1>2. CASE err' = "none"
  <2>1. err = "none" /\ ~(dropped > 0)
    BY <1>0, <1>2
  <2>2. dropped = 0 /\ Len(used) = Steps
    BY <1>0, <2>1 DEF AnswerInv, AnswerTypes, LoopOver
  <2>3. \A i \in 1..Len(used) : used[i] = i
    BY <1>0, <2>1, <2>2 DEF Chain
  <2>4. AnswerTypes' /\ Chain'
    BY <1>0, <2>1 DEF AnswerTypes, Chain
  <2>. QED BY <1>0, <2>2, <2>3, <2>4 DEF AnswerInv, UsedAnswersAreFirst
<1>. QED BY <1>1, <1>2

\* The invariant of the answer channel holds in every run.
THEOREM AnswerInvariant == Spec => []AnswerInv
<1>1. AnswerInv /\ [Next]_vars => AnswerInv'
  <2> SUFFICES ASSUME AnswerInv, [Next]_vars PROVE AnswerInv'
    OBVIOUS
  <2>0. AnswerTypes
    BY DEF AnswerInv
  <2>1. CASE MainStep
    <3>1. CASE TakesAnswer
      BY <3>1, AnswerTaken
    <3>2. CASE Judges
      BY <3>2, AnswerJudged
    <3>3. CASE ChecksChannel \/ MissesDeadline \/ LoopEnds
      <4>1. /\ UNCHANGED outPump /\ UNCHANGED <<opc, oh, outq, dropped, moved>>
            /\ \/ Abort("run") \/ Abort("timeout")
               \/ Go("get")
               \/ (Go("close") /\ Len(used) = Steps)
        BY <3>3 DEF ChecksChannel, MissesDeadline, LoopEnds, outPump
      <4>2. CASE Abort("run") \/ Abort("timeout")
        <5>1. AnswerTypes'
          BY <2>0, <4>1, <4>2 DEF AnswerTypes, Abort
        <5>. QED BY <4>1, <4>2, <5>1, AnswerAbort
      <4>3. CASE Go("get") \/ (Go("close") /\ Len(used) = Steps)
        BY <4>1, <4>3, AnswerQuiet DEF Go, LoopOver
      <4>. QED BY <4>1, <4>2, <4>3
    <3>4. CASE SendsSetpoint \/ WriteReturns
      <4>1. UNCHANGED <<used, outq, dropped, moved, oh, opc, err>>
        BY <3>4 DEF SendsSetpoint, WriteReturns, Go, plantVars, main, outPump
      <4>2. mpc' = mpc \/ mpc' = "check"
        BY <3>4 DEF SendsSetpoint, WriteReturns, Go, plantVars, main
      <4>3. mpc' = mpc \/ (mpc' # "done" /\ ~LoopOver')
        BY <4>2 DEF LoopOver
      <4>. QED BY <4>1, <4>3, AnswerQuiet
    <3>5. CASE ClosesPump \/ ClosesStdin \/ WaitsForExit \/ TearsDown \/ Kills \/ JoinsPump
      <4>1. LoopOver /\ mpc' # "done" /\ UNCHANGED <<used, outq, dropped, moved, oh, opc, err>>
        BY <3>5 DEF ClosesPump, ClosesStdin, WaitsForExit, TearsDown, Kills, JoinsPump, Go,
                    outPump, LoopOver
      <4>. QED BY <4>1, AnswerQuiet
    <3>. QED BY <2>1, <3>1, <3>2, <3>3, <3>4, <3>5 DEF MainStep
  <2>2. CASE OutStep
    BY <2>2, AnswerOut
  <2>3. CASE TimePasses \/ PumpRuns \/ Child \/ Finished \/ UNCHANGED vars
    <3>1. UNCHANGED <<main, outPump>>
      <4>1. CASE TimePasses \/ PumpRuns \/ Finished \/ UNCHANGED vars
        BY <4>1 DEF TimePasses, PumpRuns, Finished, vars, plantVars
      <4>2. CASE Child
        BY <4>2 DEF Child, Prints, Reads, ClosesItsStdin, ClosesItsStdout, Exits, Forks, plantVars
      <4>. QED BY <2>3, <4>1, <4>2
    <3>2. UNCHANGED <<used, outq, dropped, moved, oh, opc, err>> /\ mpc' = mpc
      BY <3>1 DEF main, outPump
    <3>. QED BY <3>2, AnswerQuiet
  <2>. QED BY <2>1, <2>2, <2>3 DEF Next
<1>. QED BY AnswerInit, <1>1, PTL DEF Spec

\* A run without an error used the controller's first Steps lines, in order and
\* none missing: no line that the bounded queue gave up escapes the three flood
\* checks of _run_plant.
THEOREM FloodIsSeen == Spec => []UsedAnswersAreFirst
<1>1. AnswerInv => UsedAnswersAreFirst
  BY DEF AnswerInv
<1>. QED BY AnswerInvariant, <1>1, PTL
=============================================================================
