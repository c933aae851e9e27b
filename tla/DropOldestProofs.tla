-------------------------- MODULE DropOldestProofs --------------------------
(***************************************************************************)
(* The two stores that throw away what is oldest: ReaderBuffer, proved for *)
(* every size of buffer, chunk, pattern and set of consumers, and Journal, *)
(* for every set of writers and every number and size of archived parts.   *)
(***************************************************************************)
EXTENDS ReaderBuffer, Journal, SequenceTheorems, WellFoundedInduction, TLAPS

-----------------------------------------------------------------------------
(* Least and greatest elements. *)

\* Least picks the smallest element of any nonempty set of positions.
LEMMA LeastIsLeast ==
  ASSUME NEW S \in SUBSET Nat, S # {}
  PROVE  Least(S) \in S /\ \A y \in S : Least(S) <= y
<1> DEFINE R == OpToRel(<, Nat)
<1>1. PICK n \in S : \A m \in S : ~ (<<m, n>> \in R)
  <2>1. IsWellFoundedOn(R, Nat)
    BY NatLessThanWellFounded
  <2> HIDE DEF R
  <2>2. QED
    BY <2>1, WFMin
<1>2. \A m \in S : ~ (m < n)
  <2>1. \A x, y \in Nat : x < y => <<x, y>> \in R
    BY Zenon DEF OpToRel
  <2> HIDE DEF R
  <2>2. QED
    BY <1>1, <2>1
<1> HIDE DEF R
<1>3. n \in S /\ \A m \in S : n <= m
  BY <1>2
<1>4. QED
  BY <1>3 DEF Least

\* Greatest picks the largest element of a nonempty set that has a bound.
LEMMA GreatestIsGreatest ==
  ASSUME NEW S \in SUBSET Nat, S # {}, NEW b \in Nat, \A y \in S : y <= b
  PROVE  Greatest(S) \in S /\ \A y \in S : y <= Greatest(S)
<1> DEFINE T == {b - y : y \in S}
<1>1. T \in SUBSET Nat /\ T # {}
  <2>1. \A y \in S : b - y \in Nat
    OBVIOUS
  <2>2. QED
    BY <2>1, Zenon
<1>2. PICK m \in T : \A t \in T : m <= t
  <2> HIDE DEF T
  <2>1. QED
    BY <1>1, LeastIsLeast
<1>3. PICK x \in S : m = b - x
  OBVIOUS
<1>4. \A y \in S : y <= x
  <2> TAKE y \in S
  <2>1. b - y \in T
    OBVIOUS
  <2>2. m <= b - y
    BY <2>1, <1>2
  <2>3. QED
    BY <2>2, <1>3
<1>5. QED
  BY <1>4 DEF Greatest

-----------------------------------------------------------------------------
(* The two steps that move bytes, in terms of the positions they leave. *)

\* An element of a set of positions below all others is its Least.
LEMMA LeastIs ==
  ASSUME NEW S \in SUBSET Nat, NEW x \in S, \A y \in S : x <= y
  PROVE  Least(S) = x
<1>1. Least(S) \in S /\ \A y \in S : Least(S) <= y
  BY LeastIsLeast
<1>2. Least(S) <= x /\ x <= Least(S) /\ Least(S) \in Nat /\ x \in Nat
  BY <1>1, Zenon
<1>3. QED
  BY <1>2

\* The first chunk of the deque starts at its least boundary.
LEMMA FirstChunk ==
  ASSUME TypeOK
  PROVE  lo \in cuts /\ lo \in Nat /\ rp \in Nat /\ \A c \in cuts : c \in Nat /\ lo <= c
<1>1. cuts \in SUBSET Nat /\ cuts # {} /\ consumed \in Nat
  BY DEF TypeOK
<1>2. lo \in cuts /\ \A c \in cuts : lo <= c
  BY <1>1, LeastIsLeast DEF lo
<1>3. QED
  BY <1>1, <1>2 DEF rp

\* An append evicts up to some boundary of an older chunk, never the chunk that
\* has just come, and counts what no consumer had been given.
LEMMA AppendEffect ==
  ASSUME TypeOK, BufferBounded, AppendChunk
  PROVE  \E n \in 1..Chunk : \E first \in cuts, M \in SUBSET (hi + 1 .. hi + n) :
            /\ hi' = hi + n /\ hi + n <= MaxStream
            /\ marks' = marks \cup M
            /\ cuts' = {c \in cuts \cup {hi + n} : first <= c}
            /\ lo' = first
            /\ bytes' = hi + n - first /\ bytes' <= MaxBytes
            /\ first = lo => consumed' = consumed /\ dropped' = dropped /\ lost' = lost
            /\ first # lo => /\ rp <= first
                             /\ consumed' = 0
                             /\ dropped' = dropped + (first - rp)
                             /\ lost' = lost \cup (rp + 1 .. first)
<1> DEFINE All(n)  == cuts \cup {hi + n}
           Kept(n) == {c \in All(n) : Fits(bytes + n, c)}
<1>0. PICK n \in 1..Chunk : \E M \in SUBSET (hi + 1 .. hi + n) :
         LET first == Least(Kept(n)) IN
         /\ hi + n <= MaxStream
         /\ hi' = hi + n
         /\ cuts' = {c \in All(n) : first <= c}
         /\ bytes' = bytes + n - (first - lo)
         /\ dropped' = DropCount(first)
         /\ consumed' = OffsetAfter(first)
         /\ marks' = marks \cup M
         /\ lost' = IF first = lo THEN lost ELSE lost \cup (rp + 1 .. first)
  BY Zenon DEF AppendChunk
<1>1. PICK M \in SUBSET (hi + 1 .. hi + n) :
         LET first == Least(Kept(n)) IN
         /\ hi + n <= MaxStream
         /\ hi' = hi + n
         /\ cuts' = {c \in All(n) : first <= c}
         /\ bytes' = bytes + n - (first - lo)
         /\ dropped' = DropCount(first)
         /\ consumed' = OffsetAfter(first)
         /\ marks' = marks \cup M
         /\ lost' = IF first = lo THEN lost ELSE lost \cup (rp + 1 .. first)
  BY <1>0, Zenon
<1> DEFINE first == Least(Kept(n))
<1>2. /\ n \in Nat /\ 0 < n /\ n <= MaxBytes /\ MaxBytes \in Nat
      /\ hi \in Nat /\ hi \in cuts /\ consumed \in Nat /\ dropped \in Nat
      /\ \A c \in cuts : c \in Nat /\ c <= hi
      /\ bytes = hi - lo /\ rp <= hi /\ rp = lo + consumed
      /\ consumed # 0 => \A c \in cuts : c = lo \/ rp < c
  BY BufferAssumption DEF TypeOK, BufferBounded, rp
<1>3. lo \in cuts /\ lo \in Nat /\ rp \in Nat /\ \A c \in cuts : lo <= c
  BY FirstChunk
<1>4. /\ \A c \in All(n) : c \in Nat /\ lo <= c
      /\ All(n) \in SUBSET Nat /\ Kept(n) \in SUBSET Nat
  <2>1. \A c \in All(n) : c \in Nat /\ lo <= c
    BY <1>2, <1>3
  <2>2. QED
    BY <2>1, Zenon
<1>5. \A c \in All(n) : Fits(bytes + n, c) <=> hi + n - c <= MaxBytes
  BY <1>2, <1>3, <1>4 DEF Fits
<1>6. hi \in Kept(n)
  BY <1>2, <1>5
<1> HIDE DEF Kept
<1>7. first \in Kept(n) /\ first <= hi
  BY <1>4, <1>6, LeastIsLeast
<1>8. first \in cuts /\ hi + n - first <= MaxBytes
  <2>1. first \in All(n) /\ Fits(bytes + n, first)
    BY <1>7, Zenon DEF Kept
  <2>2. hi + n - first <= MaxBytes
    BY <2>1, <1>5
  <2> HIDE DEF first
  <2>3. QED
    BY <2>1, <2>2, <1>2, <1>7
<1> HIDE DEF first
<1>9. cuts' = {c \in All(n) : first <= c}
  BY <1>1 DEF first
<1>10. lo' = first
  <2>1. cuts' \in SUBSET Nat /\ first \in cuts' /\ \A c \in cuts' : first <= c
    <3>1. first \in Nat /\ first \in All(n)
      BY <1>2, <1>8
    <3>2. first \in cuts'
      BY <3>1, <1>9
    <3>3. \A c \in cuts' : c \in Nat /\ first <= c
      BY <1>4, <1>9
    <3>4. QED
      BY <3>2, <3>3, Zenon
  <2>2. Least(cuts') = first
    BY <2>1, LeastIs
  <2>3. QED
    BY <2>2 DEF lo, Least
<1>11. bytes' = hi + n - first /\ bytes' <= MaxBytes
  <2>1. bytes' = bytes + n - (first - lo)
    BY <1>1 DEF first
  <2>2. QED
    BY <2>1, <1>2, <1>3, <1>8
<1>12. ASSUME first = lo
       PROVE  consumed' = consumed /\ dropped' = dropped /\ lost' = lost
  BY <1>1, <1>12 DEF first, OffsetAfter, DropCount
<1>13. ASSUME first # lo
       PROVE  /\ rp <= first
              /\ consumed' = 0
              /\ dropped' = dropped + (first - rp)
              /\ lost' = lost \cup (rp + 1 .. first)
  <2>1. rp <= first
    BY <1>2, <1>3, <1>8, <1>13
  <2>2. /\ consumed' = 0
        /\ dropped' = dropped + (first - lo) - consumed
        /\ lost' = lost \cup (rp + 1 .. first)
    BY <1>1, <1>13 DEF first, OffsetAfter, DropCount
  <2>3. QED
    BY <2>1, <2>2, <1>2, <1>3, <1>8
<1>14. QED
  BY <1>1, <1>8, <1>9, <1>10, <1>11, <1>12, <1>13

\* A match hands out the bytes from the read position to its end; what is left
\* starts at the boundary before that end.
LEMMA FindEffect ==
  ASSUME TypeOK, BufferBounded, NEW c \in Consumers, Find(c)
  PROVE  \E e \in Occurrences, first \in cuts :
            /\ \A d \in Occurrences : e <= d
            /\ rp < e /\ e <= hi /\ lo <= first /\ first <= e
            /\ cuts' = {x \in cuts : first <= x}
            /\ lo' = first
            /\ consumed' = e - first /\ rp' = e
            /\ bytes' = hi - first
            /\ \A x \in cuts' : x = first \/ e < x
            /\ out' = out \cup {<<rp, e>>}
            /\ taken' = taken + (e - rp)
<1> DEFINE e == FirstMatch
           Before == {x \in cuts : x <= e}
           first == Greatest(Before)
<1>1. /\ hi \in Nat /\ hi \in cuts /\ consumed \in Nat /\ NeedleLen \in Nat /\ 0 < NeedleLen
      /\ \A x \in cuts : x \in Nat /\ x <= hi
      /\ \A x \in marks : x \in Nat
      /\ bytes = hi - lo /\ rp <= hi /\ rp = lo + consumed
  BY BufferAssumption DEF TypeOK, BufferBounded, rp
<1>2. lo \in cuts /\ lo \in Nat /\ rp \in Nat /\ \A x \in cuts : lo <= x
  BY FirstChunk
<1>3. e \in Occurrences /\ \A d \in Occurrences : e <= d
  <2>1. Occurrences \in SUBSET Nat
    <3>1. \A x \in Occurrences : x \in Nat
      BY <1>1 DEF Occurrences
    <3>2. QED
      BY <3>1, Zenon
  <2>2. Occurrences # {}
    BY DEF Find
  <2>3. QED
    BY <2>1, <2>2, LeastIsLeast DEF FirstMatch
<1>4. /\ cuts' = {x \in cuts : first <= x}
      /\ bytes' = bytes - (first - lo)
      /\ consumed' = e - first
      /\ out' = out \cup {<<rp, e>>}
      /\ taken' = taken + (e - rp)
  BY DEF Find, StartAfter, OffsetIn
<1> HIDE DEF e
<1>5. e \in Nat /\ rp < e /\ e <= hi
  BY <1>1, <1>2, <1>3 DEF Occurrences
<1>6. first \in Before /\ \A x \in Before : x <= first
  <2>1. \A x \in Before : x \in Nat /\ x <= e
    BY <1>1
  <2>2. lo \in Before
    BY <1>1, <1>2, <1>5
  <2>3. Before \in SUBSET Nat
    BY <2>1, Zenon
  <2> HIDE DEF Before
  <2>4. QED
    BY <2>1, <2>2, <2>3, <1>5, GreatestIsGreatest
<1> HIDE DEF first
<1>7. first \in cuts /\ first \in Nat /\ lo <= first /\ first <= e
  BY <1>1, <1>2, <1>6
<1>8. first \in cuts' /\ \A x \in cuts' : x \in Nat /\ first <= x
  BY <1>1, <1>4, <1>7
<1>9. lo' = first
  <2>1. cuts' \in SUBSET Nat
    BY <1>8, Zenon
  <2>2. Least(cuts') = first
    BY <2>1, <1>8, LeastIs
  <2>3. QED
    BY <2>2 DEF lo, Least
<1>10. rp' = e
  BY <1>4, <1>5, <1>7, <1>9 DEF rp
<1>11. bytes' = hi - first
  BY <1>1, <1>2, <1>4, <1>7
<1>12. \A x \in cuts' : x = first \/ e < x
  <2> TAKE x \in cuts'
  <2>1. x \in cuts /\ x \in Nat /\ first <= x
    BY <1>4, <1>8
  <2>2. x <= e => x <= first
    BY <2>1, <1>6
  <2>3. QED
    BY <2>1, <2>2, <1>5, <1>7
<1>13. QED
  BY <1>3, <1>4, <1>5, <1>7, <1>9, <1>10, <1>11, <1>12

-----------------------------------------------------------------------------
(* The inductive invariant. *)

\* What was handed out or lost lies before the read position.
HistoryBehind ==
    /\ \A d \in out : d[1] <= d[2] /\ d[2] <= rp
    /\ \A x \in lost : x <= rp

BufferInv ==
    /\ TypeOK
    /\ BufferBounded
    /\ EveryByteAccounted
    /\ HistoryBehind
    /\ NoByteTwice

LEMMA InitInv == Init => BufferInv
<1> SUFFICES ASSUME Init PROVE BufferInv
  OBVIOUS
<1>1. cuts \in SUBSET Nat /\ 0 \in cuts /\ \A c \in cuts : 0 <= c
  BY DEF Init
<1>2. lo = 0
  BY <1>1, LeastIs DEF lo
<1>3. rp = 0
  BY <1>2 DEF rp, Init
<1>4. TypeOK
  <2>1. /\ hi = 0 /\ cuts \subseteq 0..hi /\ cuts # {}
        /\ marks \subseteq 1..hi /\ lost \subseteq 1..hi /\ out \subseteq (0..hi) \X (0..hi)
    BY DEF Init
  <2>2. snap \in [Consumers -> (0..hi) \X (0..hi)]
    <3>1. <<0, 0>> \in (0..hi) \X (0..hi)
      BY <2>1
    <3>2. QED
      BY <3>1, Zenon DEF Init
  <2>3. pc \in [Consumers -> {"idle", "look", "check"}]
    BY DEF Init
  <2>4. /\ hi \in Nat /\ bytes \in Nat /\ dropped \in Nat /\ consumed \in Nat /\ taken \in Nat
        /\ tpc \in {"poll", "have", "dead"}
    BY DEF Init
  <2>5. error \in BOOLEAN /\ stop \in BOOLEAN
    BY DEF Init
  <2>6. QED
    BY <2>1, <2>2, <2>3, <2>4, <2>5, Zenon DEF TypeOK
<1>5. BufferBounded
  BY <1>2, <1>3, BufferAssumption DEF Init, BufferBounded
<1>6. EveryByteAccounted /\ HistoryBehind /\ NoByteTwice
  BY <1>2 DEF Init, EveryByteAccounted, HistoryBehind, NoByteTwice
<1>7. QED
  BY <1>4, <1>5, <1>6 DEF BufferInv

\* The steps that leave the deque and the history alone: they move a thread or a
\* consumer, or take a snapshot.
Elsewhere == UNCHANGED <<buffer, history>>

LEMMA ElsewhereInv ==
  ASSUME BufferInv, Elsewhere, TypeOK'
  PROVE  BufferInv'
<1>1. lo' = lo /\ rp' = rp
  BY DEF Elsewhere, buffer, lo, rp, Least
<1>2. hi' = hi /\ cuts' = cuts /\ bytes' = bytes /\ dropped' = dropped /\ consumed' = consumed
  BY DEF Elsewhere, buffer
<1>3. lost' = lost /\ out' = out /\ taken' = taken
  BY DEF Elsewhere, history
<1>4. QED
  BY <1>1, <1>2, <1>3 DEF BufferInv, BufferBounded, EveryByteAccounted, HistoryBehind, NoByteTwice

LEMMA AppendInv ==
  ASSUME BufferInv, AppendChunk
  PROVE  BufferInv'
<1>1. TypeOK /\ BufferBounded /\ EveryByteAccounted /\ HistoryBehind /\ NoByteTwice
  BY DEF BufferInv
<1>2. PICK n \in 1..Chunk : \E first \in cuts, M \in SUBSET (hi + 1 .. hi + n) :
            /\ hi' = hi + n /\ hi + n <= MaxStream
            /\ marks' = marks \cup M
            /\ cuts' = {c \in cuts \cup {hi + n} : first <= c}
            /\ lo' = first
            /\ bytes' = hi + n - first /\ bytes' <= MaxBytes
            /\ first = lo => consumed' = consumed /\ dropped' = dropped /\ lost' = lost
            /\ first # lo => /\ rp <= first
                             /\ consumed' = 0
                             /\ dropped' = dropped + (first - rp)
                             /\ lost' = lost \cup (rp + 1 .. first)
  BY <1>1, AppendEffect
<1>3. PICK first \in cuts, M \in SUBSET (hi + 1 .. hi + n) :
            /\ hi' = hi + n
            /\ marks' = marks \cup M
            /\ cuts' = {c \in cuts \cup {hi + n} : first <= c}
            /\ lo' = first
            /\ bytes' = hi + n - first /\ bytes' <= MaxBytes
            /\ first = lo => consumed' = consumed /\ dropped' = dropped /\ lost' = lost
            /\ first # lo => /\ rp <= first
                             /\ consumed' = 0
                             /\ dropped' = dropped + (first - rp)
                             /\ lost' = lost \cup (rp + 1 .. first)
  BY <1>2
<1>4. tpc' = "poll" /\ UNCHANGED <<error, stop, pc, snap, out, taken>>
  BY DEF AppendChunk
<1>5. /\ n \in Nat /\ 0 < n /\ MaxBytes \in Nat
      /\ hi \in Nat /\ bytes \in Nat /\ dropped \in Nat /\ consumed \in Nat /\ taken \in Nat
      /\ \A c \in cuts : c \in Nat /\ c <= hi
      /\ bytes = hi - lo /\ rp <= hi /\ rp = lo + consumed
      /\ consumed # 0 => \A c \in cuts : c = lo \/ rp < c
  BY <1>1, BufferAssumption DEF TypeOK, BufferBounded, rp
<1>6. lo \in Nat /\ rp \in Nat /\ first \in Nat /\ lo <= first /\ first <= hi
  BY <1>1, <1>5, FirstChunk
<1>7. consumed' \in Nat /\ dropped' \in Nat /\ rp' = lo' + consumed'
  BY <1>3, <1>5, <1>6 DEF rp
<1>8. rp' \in Nat /\ rp <= rp' /\ rp' <= hi
  <2>1. CASE first = lo
    BY <2>1, <1>3, <1>5, <1>6, <1>7
  <2>2. CASE first # lo
    BY <2>2, <1>3, <1>5, <1>6, <1>7
  <2>3. QED
    BY <2>1, <2>2
<1>9. TypeOK'
  <2>1. hi' \in Nat /\ bytes' \in Nat
    BY <1>3, <1>5, <1>6
  <2>2. cuts' \subseteq 0..hi' /\ first \in cuts'
    <3>1. \A c \in cuts' : c \in Nat /\ c <= hi'
      BY <1>3, <1>5
    <3>2. first \in cuts'
      BY <1>3, <1>6
    <3>3. QED
      BY <3>1, <3>2, <1>3, <1>5
  <2>3. 0..hi \subseteq 0..hi' /\ 1..hi \subseteq 1..hi'
    BY <1>3, <1>5
  <2>4. snap' \in [Consumers -> (0..hi') \X (0..hi')]
    <3>1. \A c \in Consumers : snap[c] \in (0..hi') \X (0..hi')
      BY <1>1, <2>3 DEF TypeOK
    <3>2. QED
      BY <1>1, <1>4, <3>1 DEF TypeOK
  <2>5. out' \subseteq (0..hi') \X (0..hi')
    BY <1>1, <1>4, <2>3 DEF TypeOK
  <2>6. marks' \subseteq 1..hi' /\ lost' \subseteq 1..hi'
    <3>1. marks \subseteq 1..hi /\ lost \subseteq 1..hi
      BY <1>1 DEF TypeOK
    <3>2. M \subseteq 1..hi'
      BY <1>3, <1>5
    <3>3. rp + 1 .. first \subseteq 1..hi'
      BY <1>3, <1>5, <1>6
    <3>4. QED
      BY <1>3, <2>3, <3>1, <3>2, <3>3
  <2>7. QED
    BY <1>1, <1>4, <1>5, <1>7, <2>1, <2>2, <2>4, <2>5, <2>6 DEF TypeOK
<1>10. BufferBounded'
  <2>1. hi' \in cuts' /\ bytes' = hi' - lo' /\ bytes' <= MaxBytes /\ rp' <= hi'
    BY <1>3, <1>5, <1>6, <1>8
  <2>2. ASSUME consumed' # 0, NEW c \in cuts'
        PROVE  c = lo' \/ rp' < c
    <3>1. first = lo /\ consumed' = consumed /\ rp' = rp
      BY <2>2, <1>3, <1>5, <1>7
    <3>2. c \in cuts \/ c = hi + n
      BY <1>3
    <3>3. QED
      BY <2>2, <3>1, <3>2, <1>3, <1>5, <1>6
  <2>3. QED
    BY <2>1, <2>2 DEF BufferBounded
<1>11. EveryByteAccounted'
  BY <1>1, <1>3, <1>4, <1>5, <1>6 DEF EveryByteAccounted
<1>12. HistoryBehind'
  <2>1. \A x \in lost' : x <= rp'
    <3>1. \A x \in lost : x \in Nat /\ x <= rp
      BY <1>1 DEF HistoryBehind, TypeOK
    <3>2. CASE first = lo
      BY <3>1, <3>2, <1>3, <1>6, <1>8
    <3>3. CASE first # lo
      BY <3>1, <3>3, <1>3, <1>6, <1>7, <1>8
    <3>4. QED
      BY <3>2, <3>3
  <2>2. \A d \in out' : d[1] <= d[2] /\ d[2] <= rp'
    <3>1. \A d \in out : d[2] \in Nat /\ d[1] <= d[2] /\ d[2] <= rp
      BY <1>1, <1>5 DEF HistoryBehind, TypeOK
    <3>2. QED
      BY <1>4, <1>6, <1>8, <3>1
  <2>3. QED
    BY <2>1, <2>2 DEF HistoryBehind
<1>13. NoByteTwice'
  <2>1. ASSUME NEW d \in out, NEW x \in d[1] + 1 .. d[2], x \in lost'
        PROVE  FALSE
    <3>1. d[1] \in Nat /\ d[2] \in Nat /\ d[2] <= rp /\ x \notin lost
      BY <1>1, <2>1, <1>5 DEF HistoryBehind, NoByteTwice, TypeOK
    <3>2. x \in rp + 1 .. first
      BY <1>3, <2>1, <3>1
    <3>3. QED
      BY <1>6, <2>1, <3>1, <3>2
  <2>2. QED
    BY <1>1, <1>4, <2>1 DEF NoByteTwice
<1>14. QED
  BY <1>9, <1>10, <1>11, <1>12, <1>13 DEF BufferInv

LEMMA FindInv ==
  ASSUME BufferInv, NEW c \in Consumers, Find(c)
  PROVE  BufferInv'
<1>1. TypeOK /\ BufferBounded /\ EveryByteAccounted /\ HistoryBehind /\ NoByteTwice
  BY DEF BufferInv
<1>2. PICK e \in Occurrences, first \in cuts :
            /\ rp < e /\ e <= hi /\ lo <= first /\ first <= e
            /\ cuts' = {x \in cuts : first <= x}
            /\ lo' = first
            /\ consumed' = e - first /\ rp' = e
            /\ bytes' = hi - first
            /\ \A x \in cuts' : x = first \/ e < x
            /\ out' = out \cup {<<rp, e>>}
            /\ taken' = taken + (e - rp)
  BY <1>1, FindEffect
<1>3. /\ pc' = [pc EXCEPT ![c] = "idle"]
      /\ UNCHANGED <<hi, dropped, thread, snap, marks, lost>>
  BY DEF Find
<1>4. /\ MaxBytes \in Nat
      /\ hi \in Nat /\ hi \in cuts /\ bytes \in Nat /\ dropped \in Nat /\ consumed \in Nat
      /\ taken \in Nat
      /\ \A x \in cuts : x \in Nat /\ x <= hi
      /\ \A x \in marks : x \in Nat
      /\ bytes = hi - lo /\ bytes <= MaxBytes /\ rp <= hi /\ rp = lo + consumed
  BY <1>1, BufferAssumption DEF TypeOK, BufferBounded, rp
<1>5. lo \in Nat /\ rp \in Nat /\ first \in Nat /\ e \in Nat
  BY <1>1, <1>2, <1>4, FirstChunk DEF Occurrences
<1>6. TypeOK'
  <2>1. hi' \in Nat /\ bytes' \in Nat /\ dropped' \in Nat /\ consumed' \in Nat /\ taken' \in Nat
    BY <1>2, <1>3, <1>4, <1>5
  <2>2. cuts' \subseteq 0..hi' /\ cuts' # {}
    BY <1>1, <1>2, <1>3, <1>4, <1>5 DEF TypeOK
  <2>3. pc' \in [Consumers -> {"idle", "look", "check"}]
    BY <1>1, <1>3 DEF TypeOK
  <2>4. out' \subseteq (0..hi') \X (0..hi')
    <3>1. <<rp, e>> \in (0..hi') \X (0..hi')
      BY <1>2, <1>3, <1>4, <1>5
    <3>2. out \subseteq (0..hi') \X (0..hi')
      BY <1>1, <1>3 DEF TypeOK
    <3>3. QED
      BY <1>2, <3>1, <3>2
  <2>5. QED
    BY <1>1, <1>3, <2>1, <2>2, <2>3, <2>4 DEF TypeOK, thread
<1>7. BufferBounded'
  <2>1. hi' \in cuts' /\ bytes' = hi' - lo' /\ bytes' <= MaxBytes /\ rp' <= hi'
    BY <1>2, <1>3, <1>4, <1>5
  <2>2. consumed' # 0 => \A x \in cuts' : x = lo' \/ rp' < x
    BY <1>2
  <2>3. QED
    BY <2>1, <2>2 DEF BufferBounded
<1>8. EveryByteAccounted'
  BY <1>1, <1>2, <1>3, <1>4, <1>5 DEF EveryByteAccounted
<1>9. \A d \in out : d[1] \in Nat /\ d[2] \in Nat /\ d[1] <= d[2] /\ d[2] <= rp
  BY <1>1, <1>4 DEF TypeOK, HistoryBehind
<1>10. \A x \in lost : x \in Nat /\ x <= rp
  BY <1>1, <1>4 DEF TypeOK, HistoryBehind
<1>11. HistoryBehind'
  <2>1. \A d \in out' : d[1] <= d[2] /\ d[2] <= rp'
    BY <1>2, <1>5, <1>9
  <2>2. \A x \in lost' : x <= rp'
    BY <1>2, <1>3, <1>5, <1>10
  <2>3. QED
    BY <2>1, <2>2 DEF HistoryBehind
<1>12. NoByteTwice'
  <2>1. ASSUME NEW d \in out', NEW x \in d[1] + 1 .. d[2]
        PROVE  x \notin lost'
    <3>1. CASE d \in out
      BY <3>1, <1>1, <1>3 DEF NoByteTwice
    <3>2. CASE d = <<rp, e>>
      BY <3>2, <2>1, <1>3, <1>5, <1>10
    <3>3. QED
      BY <1>2, <3>1, <3>2
  <2>2. ASSUME NEW d \in out', NEW f \in out', d # f
        PROVE  d[2] <= f[1] \/ f[2] <= d[1]
    <3>1. CASE d \in out /\ f \in out
      BY <2>2, <3>1, <1>1 DEF NoByteTwice
    <3>2. CASE d = <<rp, e>> /\ f \in out
      BY <3>2, <1>9
    <3>3. CASE f = <<rp, e>> /\ d \in out
      BY <3>3, <1>9
    <3>4. QED
      BY <1>2, <2>2, <3>1, <3>2, <3>3
  <2>3. QED
    BY <2>1, <2>2 DEF NoByteTwice
<1>13. QED
  BY <1>6, <1>7, <1>8, <1>11, <1>12 DEF BufferInv

LEMMA NextInv == BufferInv /\ [Next]_vars => BufferInv'
<1> SUFFICES ASSUME BufferInv, [Next]_vars PROVE BufferInv'
  OBVIOUS
<1>1. TypeOK
  BY DEF BufferInv
<1>2. CASE AppendChunk
  BY <1>2, AppendInv
<1>3. CASE ReadChunk \/ ThreadEnds \/ Stop
  <2>1. Elsewhere
    BY <1>3 DEF ReadChunk, ThreadEnds, Stop, Elsewhere, buffer, history
  <2>2. TypeOK'
    <3>1. tpc' \in {"poll", "have", "dead"} /\ error' \in BOOLEAN /\ stop' \in BOOLEAN
      BY <1>1, <1>3 DEF ReadChunk, ThreadEnds, Stop, TypeOK
    <3>2. UNCHANGED <<pc, snap>>
      BY <1>3 DEF ReadChunk, ThreadEnds, Stop
    <3>3. QED
      BY <1>1, <2>1, <3>1, <3>2 DEF TypeOK, Elsewhere, buffer, history
  <2>3. QED
    BY <2>1, <2>2, ElsewhereInv
<1>4. ASSUME NEW c \in Consumers, Find(c)
      PROVE  BufferInv'
  BY <1>4, FindInv
<1>5. ASSUME NEW c \in Consumers, Call(c) \/ Miss(c) \/ GiveUp(c) \/ Retry(c)
      PROVE  BufferInv'
  <2>1. Elsewhere
    BY <1>5 DEF Call, Miss, GiveUp, Retry, Elsewhere, buffer, history
  <2>2. TypeOK'
    <3>1. pc' \in [Consumers -> {"idle", "look", "check"}] /\ UNCHANGED thread
      BY <1>1, <1>5 DEF Call, Miss, GiveUp, Retry, TypeOK
    <3>2. snap' \in [Consumers -> (0..hi) \X (0..hi)]
      <4>1. rp \in 0..hi /\ hi \in 0..hi
        BY <1>1, FirstChunk DEF BufferInv, BufferBounded, TypeOK
      <4>2. snap \in [Consumers -> (0..hi) \X (0..hi)]
        BY <1>1 DEF TypeOK
      <4>3. UNCHANGED snap \/ snap' = [snap EXCEPT ![c] = <<rp, hi>>]
        BY <1>5 DEF Call, Miss, GiveUp, Retry
      <4>4. <<rp, hi>> \in (0..hi) \X (0..hi)
        BY <4>1
      <4>5. QED
        BY <4>2, <4>3, <4>4
    <3>3. QED
      BY <1>1, <2>1, <3>1, <3>2 DEF TypeOK, Elsewhere, buffer, history, thread
  <2>3. QED
    BY <2>1, <2>2, ElsewhereInv
<1>6. CASE UNCHANGED vars
  <2>1. Elsewhere
    BY <1>6 DEF vars, Elsewhere
  <2>2. TypeOK'
    BY <1>1, <1>6 DEF vars, buffer, thread, history, TypeOK
  <2>3. QED
    BY <2>1, <2>2, ElsewhereInv
<1>7. QED
  BY <1>2, <1>3, <1>4, <1>5, <1>6 DEF Next

\* The invariant holds of every behaviour of the buffer: SerialReader's counters
\* are consistent at every point where its lock is free.
THEOREM BufferInvariant == Spec => []BufferInv
<1>1. QED
  BY InitInv, NextInv, PTL DEF Spec

\* _bytes is the size of the deque and stays within max_bytes, and the offset of
\* _consume_locked stays inside the first chunk, whatever the sizes are.
THEOREM Bounded == Spec => []BufferBounded
<1>1. BufferInv => BufferBounded
  BY DEF BufferInv
<1>2. QED
  BY <1>1, BufferInvariant, PTL

\* _evict_locked and _consume_locked together count every byte once.
THEOREM Accounted == Spec => []EveryByteAccounted
<1>1. BufferInv => EveryByteAccounted
  BY DEF BufferInv
<1>2. QED
  BY <1>1, BufferInvariant, PTL

\* No byte is handed to two read_until calls, nor both handed out and dropped.
THEOREM OnlyOnce == Spec => []NoByteTwice
<1>1. BufferInv => NoByteTwice
  BY DEF BufferInv
<1>2. QED
  BY <1>1, BufferInvariant, PTL

-----------------------------------------------------------------------------
(* No occurrence is passed over.  The read position moves for two reasons  *)
(* only, and what moved it last is still to be seen: a delivery that ends  *)
(* there, or an eviction that lost the byte before it.  An occurrence that *)
(* begins before the read position and ends behind it owes its fate to it. *)

MovedByReason ==
    \/ rp = 0
    \/ rp \in lost
    \/ \E d \in out : d[2] = rp

PassedOverInv == MovedByReason /\ NoOccurrencePassedOver

LEMMA InitPassed == Init => PassedOverInv
<1> SUFFICES ASSUME Init PROVE PassedOverInv
  OBVIOUS
<1>1. cuts \in SUBSET Nat /\ 0 \in cuts /\ \A c \in cuts : 0 <= c
  BY DEF Init
<1>2. rp = 0
  BY <1>1, LeastIs DEF lo, rp, Init
<1>3. QED
  BY <1>2 DEF Init, PassedOverInv, MovedByReason, NoOccurrencePassedOver

\* Bytes that go with an evicted chunk are lost, and with them the occurrences
\* that end among them; those that come with the append lie behind.
LEMMA AppendPassed ==
  ASSUME BufferInv, PassedOverInv, AppendChunk
  PROVE  PassedOverInv'
<1>1. TypeOK /\ BufferBounded
  BY DEF BufferInv
<1>2. PICK n \in 1..Chunk : \E first \in cuts, M \in SUBSET (hi + 1 .. hi + n) :
            /\ hi' = hi + n /\ marks' = marks \cup M /\ lo' = first
            /\ first = lo => consumed' = consumed /\ lost' = lost
            /\ first # lo => /\ rp <= first /\ consumed' = 0
                             /\ lost' = lost \cup (rp + 1 .. first)
  BY <1>1, AppendEffect
<1>3. PICK first \in cuts, M \in SUBSET (hi + 1 .. hi + n) :
            /\ hi' = hi + n /\ marks' = marks \cup M /\ lo' = first
            /\ first = lo => consumed' = consumed /\ lost' = lost
            /\ first # lo => /\ rp <= first /\ consumed' = 0
                             /\ lost' = lost \cup (rp + 1 .. first)
  BY <1>2
<1>4. /\ rp \in Nat /\ first \in Nat /\ lo \in Nat /\ hi \in Nat /\ rp <= hi /\ first <= hi
      /\ NeedleLen \in Nat \ {0} /\ \A e \in marks : e \in Nat
  BY <1>1, FirstChunk, BufferAssumption DEF TypeOK, BufferBounded
<1>5. out' = out
  BY DEF AppendChunk
<1>6. \A e \in M : e \in Nat /\ hi < e
  BY <1>4
<1>7. CASE first = lo
  <2>1. rp' = rp /\ lost' = lost
    BY <1>3, <1>7 DEF rp
  <2>2. MovedByReason'
    BY <2>1, <1>5 DEF PassedOverInv, MovedByReason
  <2>3. \A e \in marks' : e <= rp' => e \in marks
    <3>1. \A e \in M : ~(e <= rp')
      BY <1>4, <1>6, <2>1
    <3>2. QED
      BY <3>1, <1>3, Zenon
  <2>4. NoOccurrencePassedOver'
    BY <2>1, <2>3, <1>5 DEF PassedOverInv, NoOccurrencePassedOver
  <2>5. QED
    BY <2>2, <2>4 DEF PassedOverInv
<1>8. CASE first # lo
  <2>1. rp' = first /\ rp <= first /\ lost' = lost \cup (rp + 1 .. first)
    BY <1>3, <1>4, <1>8 DEF rp
  <2>2. MovedByReason'
    <3>1. CASE first = rp
      BY <3>1, <2>1, <1>5 DEF PassedOverInv, MovedByReason
    <3>2. CASE first # rp
      <4>1. first \in rp + 1 .. first
        BY <3>2, <2>1, <1>4
      <4>2. QED
        BY <4>1, <2>1 DEF MovedByReason
    <3>3. QED
      BY <3>1, <3>2
  <2>3. ASSUME NEW e \in marks', NeedleLen <= e, e <= rp'
        PROVE  \/ \E d \in out' : e - NeedleLen < d[2] /\ d[2] <= e
               \/ \E x \in e - NeedleLen + 1 .. e : x \in lost'
    <3>1. e \in marks /\ e \in Nat
      <4>1. e \in marks \/ e \in M
        BY <1>3, <2>3, Zenon
      <4>2. ASSUME e \in M PROVE FALSE
        <5>1. e \in Nat /\ hi < e
          BY <4>2, <1>6, Zenon
        <5>2. e <= first
          BY <2>1, <2>3
        <5>3. QED
          BY <5>1, <5>2, <1>4
      <4>3. QED
        BY <4>1, <4>2, <1>4
    <3>2. CASE e <= rp
      <4>1. \/ \E d \in out : e - NeedleLen < d[2] /\ d[2] <= e
            \/ \E x \in e - NeedleLen + 1 .. e : x \in lost
        BY <3>1, <3>2, <2>3 DEF PassedOverInv, NoOccurrencePassedOver
      <4>2. QED
        BY <4>1, <1>5, <2>1
    <3>3. CASE ~(e <= rp)
      <4>1. e \in rp + 1 .. first /\ e \in e - NeedleLen + 1 .. e
        BY <3>1, <3>3, <2>1, <2>3, <1>4
      <4>2. QED
        BY <4>1, <2>1
    <3>4. QED
      BY <3>2, <3>3
  <2>4. QED
    BY <2>2, <2>3 DEF PassedOverInv, NoOccurrencePassedOver
<1>9. QED
  BY <1>7, <1>8

\* A match is the first one: an occurrence that ends earlier had begun before the
\* read position, where a delivery ended or a byte was lost.
LEMMA FindPassed ==
  ASSUME BufferInv, PassedOverInv, NEW c \in Consumers, Find(c)
  PROVE  PassedOverInv'
<1>1. TypeOK /\ BufferBounded /\ HistoryBehind
  BY DEF BufferInv
<1>2. PICK e \in Occurrences :
            /\ \A d \in Occurrences : e <= d
            /\ rp < e /\ e <= hi /\ rp' = e
            /\ out' = out \cup {<<rp, e>>}
  BY <1>1, FindEffect
<1>3. lost' = lost /\ marks' = marks
  BY DEF Find
<1>4. /\ rp \in Nat /\ hi \in Nat /\ NeedleLen \in Nat \ {0}
      /\ e \in marks /\ \A x \in marks : x \in Nat /\ x <= hi
  BY <1>1, FirstChunk, BufferAssumption DEF TypeOK, Occurrences
<1>5. MovedByReason'
  <2>1. <<rp, e>> \in out' /\ <<rp, e>>[2] = rp'
    BY <1>2
  <2>2. QED
    BY <2>1, Zenon DEF MovedByReason
<1>6. ASSUME NEW x \in marks, NeedleLen <= x, x <= e
      PROVE  \/ \E d \in out' : x - NeedleLen < d[2] /\ d[2] <= x
             \/ \E y \in x - NeedleLen + 1 .. x : y \in lost
  <2>1. CASE x <= rp
    BY <2>1, <1>2, <1>6 DEF PassedOverInv, NoOccurrencePassedOver
  <2>2. CASE x = e
    <3>1. <<rp, e>> \in out' /\ <<rp, e>>[2] = e
      BY <1>2
    <3>2. e - NeedleLen < e /\ e <= e
      BY <1>4
    <3>3. \E d \in out' : x - NeedleLen < d[2] /\ d[2] <= x
      <4>1. x - NeedleLen < <<rp, e>>[2] /\ <<rp, e>>[2] <= x
        BY <3>1, <3>2, <2>2
      <4>2. QED
        BY <3>1, <4>1, Zenon
    <3>4. QED
      BY <3>3, Zenon
  <2>3. CASE rp < x /\ x < e
    <3>1. x - NeedleLen < rp
      <4>1. x \notin Occurrences
        BY <1>2, <1>4, <2>3
      <4>2. QED
        BY <4>1, <1>4, <2>3 DEF Occurrences
    <3>2. rp # 0
      BY <3>1, <1>4, <1>6
    <3>3. CASE rp \in lost
      <4>1. rp \in x - NeedleLen + 1 .. x
        BY <3>1, <2>3, <1>4
      <4>2. QED
        BY <4>1, <3>3
    <3>4. CASE \E d \in out : d[2] = rp
      <4>1. PICK d \in out : d[2] = rp
        BY <3>4
      <4>2. x - NeedleLen < d[2] /\ d[2] <= x
        BY <4>1, <3>1, <2>3, <1>4
      <4>3. d \in out'
        BY <1>2, Zenon
      <4>4. QED
        BY <4>2, <4>3, Zenon
    <3>5. rp \in lost \/ \E d \in out : d[2] = rp
      BY <3>2, Zenon DEF PassedOverInv, MovedByReason
    <3>6. QED
      BY <3>3, <3>4, <3>5, Zenon
  <2>4. x <= rp \/ x = e \/ (rp < x /\ x < e)
    <3>1. x \in Nat /\ e \in Nat /\ rp \in Nat
      BY <1>4
    <3>2. QED
      BY <3>1, <1>6
  <2>5. QED
    BY <2>1, <2>2, <2>3, <2>4, Zenon
<1>7. NoOccurrencePassedOver'
  BY <1>2, <1>3, <1>6 DEF NoOccurrencePassedOver
<1>8. QED
  BY <1>5, <1>7 DEF PassedOverInv

LEMMA NextPassed == BufferInv /\ PassedOverInv /\ [Next]_vars => PassedOverInv'
<1> SUFFICES ASSUME BufferInv, PassedOverInv, [Next]_vars PROVE PassedOverInv'
  OBVIOUS
<1>1. CASE AppendChunk
  BY <1>1, AppendPassed
<1>2. ASSUME NEW c \in Consumers, Find(c) PROVE PassedOverInv'
  BY <1>2, FindPassed
<1>3. CASE Elsewhere
  <2>1. rp' = rp /\ lost' = lost /\ out' = out /\ marks' = marks
    BY <1>3 DEF Elsewhere, buffer, history, lo, rp, Least
  <2>2. QED
    BY <2>1 DEF PassedOverInv, MovedByReason, NoOccurrencePassedOver
<1>4. ASSUME [Next]_vars, ~AppendChunk, \A c \in Consumers : ~Find(c) PROVE Elsewhere
  BY <1>4 DEF Next, vars, Elsewhere, ReadChunk, ThreadEnds, Stop, Call, Miss, GiveUp, Retry,
              buffer, history
<1>5. QED
  BY <1>1, <1>2, <1>3, <1>4

\* An expect-style script over read_until never hangs for a pattern that came: every
\* occurrence behind the read position was delivered, overlapped by a delivery, or
\* cut by an eviction that was counted.
THEOREM NothingPassedOver == Spec => []NoOccurrencePassedOver
<1>1. PassedOverInv => NoOccurrencePassedOver
  BY DEF PassedOverInv
<1>2. QED
  BY <1>1, BufferInvariant, InitPassed, NextPassed, PTL DEF Spec

-----------------------------------------------------------------------------
(* The buffer implements ByteFeed. *)

LEMMA InitRefines == Init => Feed!Init
<1> SUFFICES ASSUME Init PROVE Feed!Init
  OBVIOUS
<1>1. cuts \in SUBSET Nat /\ 0 \in cuts /\ \A c \in cuts : 0 <= c
  BY DEF Init
<1>2. rp = 0
  BY <1>1, LeastIs DEF lo, rp, Init
<1>3. QED
  BY <1>2 DEF Init, Feed!Init

LEMMA AppendRefines ==
  ASSUME BufferInv, AppendChunk
  PROVE  Feed!Arrive
<1>1. TypeOK /\ BufferBounded
  BY DEF BufferInv
<1>2. PICK n \in 1..Chunk : \E first \in cuts, M \in SUBSET (hi + 1 .. hi + n) :
            /\ hi' = hi + n /\ hi + n <= MaxStream
            /\ marks' = marks \cup M
            /\ lo' = first
            /\ bytes' = hi + n - first /\ bytes' <= MaxBytes
            /\ first = lo => consumed' = consumed /\ lost' = lost
            /\ first # lo => /\ rp <= first
                             /\ consumed' = 0
                             /\ lost' = lost \cup (rp + 1 .. first)
  BY <1>1, AppendEffect
<1>3. PICK first \in cuts, M \in SUBSET (hi + 1 .. hi + n) :
            /\ hi' = hi + n /\ hi + n <= MaxStream
            /\ marks' = marks \cup M
            /\ lo' = first
            /\ bytes' = hi + n - first /\ bytes' <= MaxBytes
            /\ first = lo => consumed' = consumed /\ lost' = lost
            /\ first # lo => /\ rp <= first
                             /\ consumed' = 0
                             /\ lost' = lost \cup (rp + 1 .. first)
  BY <1>2
<1>4. /\ n \in Nat /\ 0 < n /\ MaxBytes \in Nat
      /\ hi \in Nat /\ consumed \in Nat /\ lo \in Nat /\ rp \in Nat /\ rp = lo + consumed
      /\ first \in Nat /\ lo <= first /\ first <= hi /\ rp <= hi
  BY <1>1, <1>3, FirstChunk, BufferAssumption DEF TypeOK, BufferBounded, rp
<1>5. rp' = lo' + consumed'
  BY DEF rp
<1>6. rp' \in rp..hi /\ hi' - rp' <= MaxBytes /\ lost' = lost \cup (rp + 1 .. rp')
  <2>1. CASE first = lo
    <3>1. rp' = rp /\ hi' - rp' <= MaxBytes
      BY <2>1, <1>3, <1>4, <1>5
    <3>2. rp + 1 .. rp' = {}
      BY <3>1, <1>4
    <3>3. QED
      BY <2>1, <3>1, <3>2, <1>3, <1>4
  <2>2. CASE first # lo
    <3>1. rp' = first
      BY <2>2, <1>3, <1>4, <1>5
    <3>2. QED
      BY <2>2, <3>1, <1>3, <1>4
  <2>3. QED
    BY <2>1, <2>2
<1>7. out' = out
  BY DEF AppendChunk
<1>8. QED
  BY <1>3, <1>6, <1>7, Zenon DEF Feed!Arrive

LEMMA FindRefines ==
  ASSUME BufferInv, NEW c \in Consumers, Find(c)
  PROVE  Feed!Deliver
<1>1. PICK e \in Occurrences :
            /\ \A d \in Occurrences : e <= d
            /\ rp' = e
            /\ out' = out \cup {<<rp, e>>}
  BY FindEffect DEF BufferInv
<1>2. Feed!Occurrences(rp, hi) = Occurrences
  BY DEF Feed!Occurrences, Occurrences
<1>3. UNCHANGED <<hi, marks, lost>>
  BY DEF Find
<1>4. QED
  BY <1>1, <1>2, <1>3, Zenon DEF Feed!Deliver

LEMMA ElsewhereRefines ==
  ASSUME Elsewhere
  PROVE  UNCHANGED Feed!vars
BY DEF Elsewhere, buffer, history, lo, rp, Least, Feed!vars

LEMMA NextRefines == BufferInv /\ [Next]_vars => [Feed!Next]_(Feed!vars)
<1> SUFFICES ASSUME BufferInv, [Next]_vars PROVE [Feed!Next]_(Feed!vars)
  OBVIOUS
<1>1. CASE AppendChunk
  BY <1>1, AppendRefines DEF Feed!Next
<1>2. ASSUME NEW c \in Consumers, Find(c)
      PROVE  Feed!Next
  BY <1>2, FindRefines DEF Feed!Next
<1>3. CASE ReadChunk \/ ThreadEnds \/ Stop \/ UNCHANGED vars
  BY <1>3, ElsewhereRefines
  DEF ReadChunk, ThreadEnds, Stop, vars, Elsewhere, buffer, history
<1>4. ASSUME NEW c \in Consumers, Call(c) \/ Miss(c) \/ GiveUp(c) \/ Retry(c)
      PROVE  UNCHANGED Feed!vars
  BY <1>4, ElsewhereRefines DEF Call, Miss, GiveUp, Retry, Elsewhere, buffer, history
<1>5. QED
  BY <1>1, <1>2, <1>3, <1>4 DEF Next

\* The deque of chunks with its offset and its counters is, to its consumers,
\* a feed of bytes in order of which only the oldest are ever lost.
THEOREM Refinement == Spec => FeedSpec
<1>1. QED
  BY InitRefines, BufferInvariant, NextRefines, PTL DEF Spec, FeedSpec, Feed!Spec

-----------------------------------------------------------------------------
(* The chain of the journal's files. *)

Line == [by : Writers, seq : Nat]
File == Seq(Line \cup {Torn})
Parts == [1..MaxFiles -> File \cup {Missing}]

(* Files are sequences. *)
LEMMA FileConcat ==
  ASSUME NEW a \in File, NEW b \in File, NEW c \in File
  PROVE  a \o b \in File /\ a \o (b \o c) = (a \o b) \o c
<1> DEFINE S == Line \cup {Torn}
<1>1. a \in Seq(S) /\ b \in Seq(S) /\ c \in Seq(S)
  BY DEF File
<1> HIDE DEF S
<1>2. a \o b \in Seq(S)
  BY <1>1
<1>3. a \o (b \o c) = (a \o b) \o c
  BY <1>1, ConcatAssociative
<1>4. QED
  BY <1>2, <1>3 DEF File, S

(* A file and nothing. *)
LEMMA FileEmpty ==
  ASSUME NEW a \in File
  PROVE  <<>> \in File /\ a \o <<>> = a /\ <<>> \o a = a
<1> DEFINE S == Line \cup {Torn}
<1>1. a \in Seq(S)
  BY DEF File
<1> HIDE DEF S
<1>2. <<>> \in Seq(S) /\ a \o <<>> = a /\ <<>> \o a = a
  BY <1>1
<1>3. QED
  BY <1>2 DEF File, S

(* Lines, none of them torn, are a file. *)
LEMMA LinesAreFile ==
  ASSUME NEW d \in Seq(Line)
  PROVE  d \in File /\ (d # <<>> => Tail(d) \in Seq(Line))
<1>1. Line \subseteq Line \cup {Torn}
  OBVIOUS
<1>2. d \in [1..Len(d) -> Line] /\ Len(d) \in Nat
  OBVIOUS
<1>3. d \in [1..Len(d) -> Line \cup {Torn}]
  BY <1>1, <1>2
<1>4. d \in File
  BY <1>2, <1>3 DEF File
<1>5. QED
  BY <1>4

(* g joins the parts up to index n. *)
Joins(g, parts, n) ==
  /\ g \in [0..n -> File]
  /\ g[0] = <<>>
  /\ \A i \in 1..n : g[i] = IF parts[i] = Missing THEN g[i - 1] ELSE parts[i] \o g[i - 1]

(* A join exists up to every index: there is no least one where it fails.  *)
LEMMA JoinExists ==
  ASSUME NEW parts \in Parts, NEW n \in 0..MaxFiles
  PROVE  \E g : Joins(g, parts, n)
<1> DEFINE Failing == {m \in 0..MaxFiles : ~ \E g : Joins(g, parts, m)}
<1>1. SUFFICES ASSUME Failing # {} PROVE FALSE
  OBVIOUS
<1>2. Failing \in SUBSET Nat /\ MaxFiles \in Nat
  BY JournalAssumption
<1> DEFINE m == Least(Failing)
<1>3. m \in Failing /\ \A y \in Failing : m <= y
  BY <1>1, <1>2, LeastIsLeast
<1> HIDE DEF m
<1>4. m \in 0..MaxFiles /\ ~ \E g : Joins(g, parts, m)
  BY <1>3
<1>5. CASE m = 0
  <2> DEFINE g == [i \in 0..0 |-> <<>>]
  <2>1. <<>> \in File
    BY DEF File
  <2>2. g \in [0..0 -> File] /\ g[0] = <<>> /\ 1..0 = {}
    BY <2>1
  <2> HIDE DEF g
  <2>3. Joins(g, parts, 0)
    BY <2>2 DEF Joins
  <2>4. QED
    BY <1>4, <1>5, <2>3
<1>6. CASE m # 0
  <2>1. m - 1 \in 0..MaxFiles /\ m \in 1..MaxFiles /\ m - 1 < m /\ ~(m <= m - 1)
    BY <1>2, <1>4, <1>6
  <2>2. PICK g : Joins(g, parts, m - 1)
    BY <1>3, <2>1
  <2> DEFINE last == IF parts[m] = Missing THEN g[m - 1] ELSE parts[m] \o g[m - 1]
             h == [i \in 0..m |-> IF i = m THEN last ELSE g[i]]
  <2>3. g \in [0..m - 1 -> File] /\ g[m - 1] \in File
    BY <2>1, <2>2 DEF Joins
  <2>4. last \in File
    <3>1. parts[m] \in File \cup {Missing}
      BY <2>1 DEF Parts
    <3>2. QED
      BY <2>3, <3>1 DEF File
  <2> HIDE DEF last
  <2>5. \A i \in 0..m : i # m => i \in 0..m - 1
    BY <1>4
  <2>6. h \in [0..m -> File]
    BY <2>3, <2>4, <2>5
  <2>7. h[m] = last /\ \A i \in 0..m - 1 : h[i] = g[i]
    BY <1>4, <2>1
  <2> HIDE DEF h
  <2>8. h[0] = <<>>
    BY <1>4, <1>6, <2>2, <2>7 DEF Joins
  <2>9. ASSUME NEW i \in 1..m
        PROVE  h[i] = IF parts[i] = Missing THEN h[i - 1] ELSE parts[i] \o h[i - 1]
    <3>1. CASE i = m
      <4>1. h[i - 1] = g[m - 1]
        BY <1>4, <1>6, <2>7, <3>1
      <4>2. QED
        BY <2>7, <3>1, <4>1 DEF last
    <3>2. CASE i # m
      <4>1. i \in 1..m - 1 /\ i \in 0..m - 1 /\ i - 1 \in 0..m - 1
        BY <1>4, <2>9, <3>2
      <4>2. h[i] = g[i] /\ h[i - 1] = g[i - 1]
        BY <2>7, <4>1
      <4>3. QED
        BY <2>2, <4>1, <4>2 DEF Joins
    <3>3. QED
      BY <3>1, <3>2
  <2>10. Joins(h, parts, m)
    BY <2>6, <2>8, <2>9 DEF Joins
  <2>11. QED
    BY <1>4, <2>10
<1>7. QED
  BY <1>5, <1>6

(* Joined is what its recursive definition says. *)
LEMMA JoinedIsJoin ==
  ASSUME NEW parts \in Parts
  PROVE  Joins(Joined(parts), parts, MaxFiles)
<1> DEFINE Def(f) == [i \in 0..MaxFiles |->
                        IF i = 0 THEN <<>>
                        ELSE IF parts[i] = Missing THEN f[i - 1] ELSE parts[i] \o f[i - 1]]
<1>1. MaxFiles \in Nat /\ MaxFiles \in 0..MaxFiles
  BY JournalAssumption
<1>2. PICK g : Joins(g, parts, MaxFiles)
  BY <1>1, JoinExists
<1>3. g = Def(g)
  <2>1. g = [i \in 0..MaxFiles |-> g[i]]
    BY <1>2 DEF Joins
  <2>2. \A i \in 0..MaxFiles : i = 0 \/ i \in 1..MaxFiles
    BY <1>1
  <2>3. \A i \in 0..MaxFiles : g[i] = Def(g)[i]
    BY <1>2, <2>2 DEF Joins
  <2>4. QED
    BY <2>1, <2>3
<1>4. Joined(parts) = CHOOSE f : f = Def(f)
  BY DEF Joined
<1> DEFINE j == Joined(parts)
<1>5. j = Def(j)
  BY <1>3, <1>4, Zenon
<1> HIDE DEF j
<1>6. \A i \in 0..MaxFiles : j[i] = Def(j)[i]
  BY <1>5
<1>7. j[0] = <<>> /\ \A i \in 1..MaxFiles :
        j[i] = IF parts[i] = Missing THEN j[i - 1] ELSE parts[i] \o j[i - 1]
  <2>1. 0 \in 0..MaxFiles /\ \A i \in 1..MaxFiles : i \in 0..MaxFiles /\ i # 0
    BY <1>1
  <2>2. QED
    BY <1>6, <2>1
<1> HIDE DEF Def
<1>8. \A i \in 0..MaxFiles : j[i] = g[i]
  <2> DEFINE Failing == {i \in 0..MaxFiles : j[i] # g[i]}
  <2>1. SUFFICES ASSUME Failing # {} PROVE FALSE
    OBVIOUS
  <2>2. Failing \in SUBSET Nat
    BY <1>1
  <2> DEFINE m == Least(Failing)
  <2>3. m \in Failing /\ \A y \in Failing : m <= y
    BY <2>1, <2>2, LeastIsLeast
  <2> HIDE DEF m
  <2>4. m \in 0..MaxFiles /\ j[m] # g[m] /\ m # 0
    BY <1>2, <1>7, <2>3 DEF Joins
  <2>5. m \in 1..MaxFiles /\ m - 1 \in 0..MaxFiles /\ ~(m <= m - 1)
    BY <1>1, <2>4
  <2>6. j[m - 1] = g[m - 1]
    BY <2>3, <2>5
  <2>7. QED
    BY <1>2, <1>7, <2>4, <2>5, <2>6 DEF Joins
<1>9. j = [i \in 0..MaxFiles |-> g[i]]
  <2>1. j = [i \in 0..MaxFiles |-> j[i]]
    BY <1>5 DEF Def
  <2>2. QED
    BY <1>8, <2>1
<1>10. j \in [0..MaxFiles -> File]
  BY <1>2, <1>9 DEF Joins
<1>11. QED
  BY <1>7, <1>10 DEF Joins, j

(* Parts that are the same from an index on join to the same but for what  *)
(* is behind.                                                              *)
LEMMA JoinRest ==
  ASSUME NEW p \in Parts, NEW q \in Parts, NEW d \in File,
         NEW k \in 0..MaxFiles, NEW n \in k..MaxFiles,
         Joined(q)[k] = Joined(p)[k] \o d,
         \A i \in k + 1..n : q[i] = p[i]
  PROVE  Joined(q)[n] = Joined(p)[n] \o d
<1> DEFINE f == Joined(p)
           g == Joined(q)
           Failing == {i \in k..n : g[i] # f[i] \o d}
<1>1. Joins(f, p, MaxFiles) /\ Joins(g, q, MaxFiles)
  BY JoinedIsJoin
<1>2. MaxFiles \in Nat /\ g[k] = f[k] \o d
  BY JournalAssumption
<1> HIDE DEF f, g
<1>3. SUFFICES ASSUME Failing # {} PROVE FALSE
  BY <1>2 DEF f, g
<1> DEFINE m == Least(Failing)
<1>4. m \in Failing /\ \A y \in Failing : m <= y
  <2>1. Failing \in SUBSET Nat
    BY <1>2
  <2>2. QED
    BY <1>3, <2>1, LeastIsLeast
<1> HIDE DEF m
<1>5. m \in k..n /\ m # k /\ g[m] # f[m] \o d
  BY <1>2, <1>4
<1>6. m \in k + 1..n /\ m \in 1..MaxFiles /\ m - 1 \in k..n /\ m - 1 \in 0..MaxFiles /\ ~(m <= m - 1)
  BY <1>2, <1>5
<1>7. g[m - 1] = f[m - 1] \o d
  BY <1>4, <1>6
<1>8. f[m - 1] \in File /\ q[m] = p[m] /\ p[m] \in File \cup {Missing}
  BY <1>1, <1>6 DEF Joins, Parts
<1>9. /\ g[m] = IF p[m] = Missing THEN g[m - 1] ELSE p[m] \o g[m - 1]
      /\ f[m] = IF p[m] = Missing THEN f[m - 1] ELSE p[m] \o f[m - 1]
  BY <1>1, <1>6, <1>8 DEF Joins
<1>10. CASE p[m] = Missing
  BY <1>5, <1>7, <1>9, <1>10
<1>11. CASE p[m] # Missing
  <2>1. p[m] \o (f[m - 1] \o d) = (p[m] \o f[m - 1]) \o d
    BY <1>8, <1>11, FileConcat
  <2>2. QED
    BY <1>5, <1>7, <1>9, <1>11, <2>1
<1>12. QED
  BY <1>10, <1>11

(* Joined, index by index. *)
LEMMA JoinedSteps ==
  ASSUME NEW p \in Parts
  PROVE  /\ Joined(p) \in [0..MaxFiles -> File] /\ Joined(p)[0] = <<>>
         /\ \A i \in 1..MaxFiles :
              Joined(p)[i] = IF p[i] = Missing THEN Joined(p)[i - 1] ELSE p[i] \o Joined(p)[i - 1]
BY JoinedIsJoin DEF Joins

(* ... and to the same when nothing is. *)
LEMMA JoinSame ==
  ASSUME NEW p \in Parts, NEW q \in Parts, NEW k \in 0..MaxFiles, NEW n \in k..MaxFiles,
         Joined(q)[k] = Joined(p)[k], \A i \in k + 1..n : q[i] = p[i]
  PROVE  Joined(q)[n] = Joined(p)[n]
<1>1. Joined(p)[k] \in File /\ n \in 0..MaxFiles /\ Joined(p)[n] \in File /\ <<>> \in File
  BY JoinedSteps, JournalAssumption DEF File
<1>2. Joined(q)[k] = Joined(p)[k] \o <<>>
  BY <1>1 DEF File
<1>3. Joined(q)[n] = Joined(p)[n] \o <<>>
  BY <1>1, <1>2, JoinRest
<1>4. QED
  BY <1>1, <1>3 DEF File

(* What a reader finds of the parts is the end of all that is there.       *)
LEMMA FoundIsEnd ==
  ASSUME NEW p \in Parts, NEW A, A = {i \in 1..MaxFiles : \A j \in 1..i : p[j] # Missing},
         NEW q, q = [i \in 1..MaxFiles |-> IF i \in A THEN p[i] ELSE Missing]
  PROVE  \E a \in File : /\ Joined(q)[MaxFiles] \in File
                         /\ Joined(p)[MaxFiles] = a \o Joined(q)[MaxFiles]
<1> DEFINE f == Joined(p)
           g == Joined(q)
           Good(i) == /\ i \in A \cup {0} => f[i] = g[i]
                      /\ \E a \in File : f[i] = a \o g[i]
           Failing == {i \in 0..MaxFiles : ~Good(i)}
<1>1. MaxFiles \in Nat /\ MaxFiles \in 0..MaxFiles
  BY JournalAssumption
<1>2. q \in Parts /\ \A i \in 1..MaxFiles : q[i] = IF i \in A THEN p[i] ELSE Missing
  BY DEF Parts
<1>3. /\ f \in [0..MaxFiles -> File] /\ g \in [0..MaxFiles -> File] /\ f[0] = <<>> /\ g[0] = <<>>
      /\ \A i \in 1..MaxFiles : f[i] = IF p[i] = Missing THEN f[i - 1] ELSE p[i] \o f[i - 1]
      /\ \A i \in 1..MaxFiles : g[i] = IF q[i] = Missing THEN g[i - 1] ELSE q[i] \o g[i - 1]
  BY <1>2, JoinedSteps
<1> HIDE DEF f, g
<1>4. SUFFICES ASSUME Failing # {} PROVE FALSE
  BY <1>1, <1>3 DEF f, g
<1> DEFINE m == Least(Failing)
<1>5. m \in Failing /\ \A y \in Failing : m <= y
  <2>1. Failing \in SUBSET Nat
    BY <1>1
  <2>2. QED
    BY <1>4, <2>1, LeastIsLeast
<1> HIDE DEF m
<1>6. m \in 0..MaxFiles /\ ~Good(m)
  BY <1>5
<1>7. \A s \in File : s = <<>> \o s /\ <<>> \in File
  BY DEF File
<1>8. m # 0
  BY <1>1, <1>3, <1>6, <1>7
<1>9. m \in 1..MaxFiles /\ m - 1 \in 0..MaxFiles /\ ~(m <= m - 1)
  BY <1>1, <1>6, <1>8
<1>10. Good(m - 1)
  BY <1>5, <1>9
<1>11. f[m - 1] \in File /\ g[m - 1] \in File /\ p[m] \in File \cup {Missing}
  BY <1>3, <1>9 DEF Parts
<1>12. CASE m \in A
  <2>1. m - 1 \in A \cup {0} /\ p[m] # Missing
    BY <1>9, <1>12
  <2>2. f[m] = g[m]
    BY <1>2, <1>3, <1>9, <1>10, <1>12, <2>1
  <2>3. g[m] \in File
    BY <1>3, <1>6
  <2>4. QED
    BY <1>6, <1>7, <2>2, <2>3
<1>13. CASE m \notin A
  <2>1. g[m] = g[m - 1]
    BY <1>2, <1>3, <1>9, <1>13
  <2>2. PICK a \in File : f[m - 1] = a \o g[m - 1]
    BY <1>10
  <2>3. CASE p[m] = Missing
    BY <1>3, <1>6, <1>8, <1>9, <1>13, <2>1, <2>2, <2>3
  <2>4. CASE p[m] # Missing
    <3>1. p[m] \o a \in File /\ p[m] \o (a \o g[m - 1]) = (p[m] \o a) \o g[m - 1]
      <4>1. p[m] \in File /\ a \in File /\ g[m - 1] \in File
        BY <1>11, <2>4
      <4>2. QED
        BY <4>1, FileConcat
    <3>2. f[m] = (p[m] \o a) \o g[m]
      BY <1>3, <1>9, <2>1, <2>2, <2>4, <3>1
    <3>3. QED
      BY <1>6, <1>8, <1>13, <3>1, <3>2
  <2>5. QED
    BY <2>3, <2>4
<1>14. QED
  BY <1>12, <1>13

(* Whatever of s comes after its last torn line is the end of l. *)
EndOf(s, l) ==
  \A n \in 0..Len(s) : (\A i \in n + 1..Len(s) : s[i] # Torn) =>
    /\ Len(s) - n <= Len(l)
    /\ \A i \in n + 1..Len(s) : s[i] = l[Len(l) - (Len(s) - i)]
EndsTorn(s) == s # <<>> /\ s[Len(s)] = Torn

(* EndOf, of sequences of m and of k lines. *)
Ends(s, l, m, k) ==
  \A n \in 0..m : (\A i \in n + 1..m : s[i] # Torn) =>
    m - n <= k /\ \A i \in n + 1..m : s[i] = l[k - (m - i)]

LEMMA EndOfAs ==
  ASSUME NEW s, NEW l, NEW m, NEW k, m = Len(s), k = Len(l), Ends(s, l, m, k)
  PROVE  EndOf(s, l)
BY DEF EndOf, Ends

(* The end of an end. *)
LEMMA EndOfEnd ==
  ASSUME NEW a \in File, NEW b \in File, NEW l \in Seq(Line), EndOf(a \o b, l)
  PROVE  EndOf(b, l)
<1> DEFINE s == a \o b
           x == Len(a)
           y == Len(b)
<1>1. /\ x \in Nat /\ y \in Nat /\ Len(l) \in Nat /\ Len(s) = x + y
      /\ \A i \in 1..y : s[x + i] = b[i]
  BY DEF File
<1>2. EndOf(s, l)
  OBVIOUS
<1> HIDE DEF s, x
<1>3. SUFFICES ASSUME NEW n \in 0..y, \A i \in n + 1..y : b[i] # Torn
               PROVE  y - n <= Len(l) /\ \A i \in n + 1..y : b[i] = l[Len(l) - (y - i)]
  BY DEF EndOf
<1> HIDE DEF y
<1>4. \A i \in x + n + 1..x + y : i - x \in n + 1..y /\ s[i] = b[i - x]
  <2> TAKE i \in x + n + 1..x + y
  <2>1. i - x \in n + 1..y /\ i - x \in 1..y /\ x + (i - x) = i
    BY <1>1
  <2>2. QED
    BY <1>1, <2>1
<1>5. x + n \in 0..Len(s) /\ \A i \in x + n + 1..Len(s) : s[i] # Torn
  BY <1>1, <1>3, <1>4
<1>6. /\ Len(s) - (x + n) <= Len(l)
      /\ \A i \in x + n + 1..Len(s) : s[i] = l[Len(l) - (Len(s) - i)]
  BY <1>2, <1>5 DEF EndOf
<1>7. ASSUME NEW i \in n + 1..y
      PROVE  b[i] = l[Len(l) - (y - i)]
  <2>1. x + i \in x + n + 1..Len(s) /\ Len(l) - (Len(s) - (x + i)) = Len(l) - (y - i) /\ i \in 1..y
    BY <1>1
  <2>2. QED
    BY <1>1, <1>6, <2>1
<1>8. QED
  BY <1>1, <1>6, <1>7

(* The same lines appended to both. *)
LEMMA EndOfAppend ==
  ASSUME NEW s \in File, NEW l \in Seq(Line), NEW d \in Seq(Line), EndOf(s, l)
  PROVE  EndOf(s \o d, l \o d)
<1> DEFINE u == s \o d
           v == l \o d
           x == Len(s)
           y == Len(d)
           z == Len(l)
<1>1. /\ x \in Nat /\ y \in Nat /\ z \in Nat /\ Len(u) = x + y /\ Len(v) = z + y
      /\ \A i \in 1..x : u[i] = s[i]
      /\ \A i \in 1..y : u[x + i] = d[i]
      /\ \A i \in 1..z : v[i] = l[i]
      /\ \A i \in 1..y : v[z + i] = d[i]
  BY DEF File
<1>2. \A n \in 0..x : (\A i \in n + 1..x : s[i] # Torn) =>
        x - n <= z /\ \A i \in n + 1..x : s[i] = l[z - (x - i)]
  BY DEF EndOf
<1> HIDE DEF u, v, x, y, z
<1>3a. SUFFICES Ends(u, v, x + y, z + y)
  <2>1. Ends(u, v, x + y, z + y) => EndOf(u, v)
    BY <1>1, EndOfAs
  <2>2. QED
    BY <2>1 DEF u, v
<1>3. SUFFICES ASSUME NEW n \in 0..x + y, \A i \in n + 1..x + y : u[i] # Torn
               PROVE  /\ x + y - n <= z + y
                      /\ \A i \in n + 1..x + y : u[i] = v[z + y - (x + y - i)]
  BY <1>1 DEF Ends
<1>4. ASSUME NEW i \in n + 1..x + y, i > x
      PROVE  u[i] = v[z + y - (x + y - i)]
  <2>1. i - x \in 1..y /\ x + (i - x) = i /\ z + y - (x + y - i) = z + (i - x)
    BY <1>1, <1>4
  <2>2. QED
    BY <1>1, <2>1
<1>5. CASE n >= x
  <2>1. x + y - n <= z + y /\ \A i \in n + 1..x + y : i > x
    BY <1>1, <1>5
  <2>2. QED
    BY <1>4, <2>1
<1>6. CASE n < x
  <2>1. n \in 0..x /\ \A i \in n + 1..x : i \in n + 1..x + y /\ i \in 1..x
    BY <1>1, <1>6
  <2>2. \A i \in n + 1..x : s[i] # Torn
    BY <1>1, <1>3, <2>1
  <2>3. x - n <= z /\ \A i \in n + 1..x : s[i] = l[z - (x - i)]
    BY <1>2, <2>1, <2>2
  <2>4. ASSUME NEW i \in n + 1..x
        PROVE  u[i] = v[z + y - (x + y - i)]
    <3>1. z - (x - i) \in 1..z /\ z + y - (x + y - i) = z - (x - i)
      BY <1>1, <2>1, <2>3
    <3>2. QED
      BY <1>1, <2>1, <2>3, <3>1
  <2>5. x + y - n <= z + y
    BY <1>1, <2>3
  <2>6. \A i \in n + 1..x + y : i > x \/ i \in n + 1..x
    BY <1>1
  <2>7. QED
    BY <1>4, <2>4, <2>5, <2>6
<1>7. QED
  BY <1>1, <1>5, <1>6

(* Behind a torn line there is nothing to compare. *)
LEMMA TornIsEnd ==
  ASSUME NEW s \in File, NEW l \in Seq(Line), EndsTorn(s)
  PROVE  EndOf(s, l)
<1> DEFINE x == Len(s)
<1>1. x \in Nat /\ x > 0 /\ s[x] = Torn /\ Len(l) \in Nat
  BY DEF EndsTorn, File
<1>2. SUFFICES ASSUME NEW n \in 0..x, \A i \in n + 1..x : s[i] # Torn
               PROVE  x - n <= Len(l) /\ \A i \in n + 1..x : s[i] = l[Len(l) - (x - i)]
  BY DEF EndOf
<1> HIDE DEF x
<1>3. n = x
  BY <1>1, <1>2
<1>4. QED
  BY <1>1, <1>3

(* What ends in a torn line still does behind other lines. *)
LEMMA TornEnd ==
  ASSUME NEW a \in File, NEW b \in File, EndsTorn(b)
  PROVE  a \o b \in File /\ EndsTorn(a \o b)
<1> DEFINE x == Len(a)
           y == Len(b)
           s == a \o b
<1>1. /\ x \in Nat /\ y \in Nat /\ y > 0 /\ b[y] = Torn /\ s \in File /\ Len(s) = x + y
      /\ \A i \in 1..y : s[x + i] = b[i]
  BY DEF EndsTorn, File
<1> HIDE DEF x, y, s
<1>2. s[Len(s)] = Torn /\ Len(s) # 0
  BY <1>1
<1>3. s # <<>>
  BY <1>2
<1>4. QED
  BY <1>1, <1>2, <1>3 DEF EndsTorn, s

(* The first line of what is appended to a torn line goes with it. *)
LEMMA EndOfSwallow ==
  ASSUME NEW s \in File, NEW l \in Seq(Line), NEW d \in Seq(Line), d # <<>>, EndsTorn(s)
  PROVE  EndOf(s \o Tail(d), l \o d)
<1> DEFINE u == s \o Tail(d)
           v == l \o d
           x == Len(s)
           y == Len(d)
           z == Len(l)
<1>1. /\ x \in Nat /\ y \in Nat /\ z \in Nat /\ x > 0 /\ y > 0 /\ s[x] = Torn
      /\ Len(v) = z + y
      /\ \A i \in 1..y : v[z + i] = d[i]
  BY DEF EndsTorn, File
<1>2. Tail(d) \in File /\ Len(Tail(d)) = y - 1 /\ \A i \in 1..y - 1 : Tail(d)[i] = d[i + 1]
  BY DEF File
<1>3. /\ Len(u) = x + (y - 1) /\ \A i \in 1..x : u[i] = s[i]
      /\ \A i \in 1..y - 1 : u[x + i] = Tail(d)[i]
  BY <1>2 DEF File
<1> HIDE DEF u, v, x, y, z
<1>4a. SUFFICES Ends(u, v, x + (y - 1), z + y)
  <2>1. Ends(u, v, x + (y - 1), z + y) => EndOf(u, v)
    BY <1>1, <1>3, EndOfAs
  <2>2. QED
    BY <2>1 DEF u, v
<1>4. SUFFICES ASSUME NEW n \in 0..x + (y - 1), \A i \in n + 1..x + (y - 1) : u[i] # Torn
               PROVE  /\ x + (y - 1) - n <= z + y
                      /\ \A i \in n + 1..x + (y - 1) : u[i] = v[z + y - (x + (y - 1) - i)]
  BY <1>1 DEF Ends
<1>5. n >= x
  <2>1. u[x] = Torn
    BY <1>1, <1>3
  <2>2. x \in Nat /\ y - 1 \in Nat /\ n \in Nat
    BY <1>1, <1>4
  <2>3. n < x => x \in n + 1..x + (y - 1)
    BY <2>2
  <2>4. QED
    BY <1>4, <2>1, <2>2, <2>3
<1>6. ASSUME NEW i \in n + 1..x + (y - 1)
      PROVE  u[i] = v[z + y - (x + (y - 1) - i)]
  <2>1. /\ i - x \in 1..y - 1 /\ x + (i - x) = i /\ (i - x) + 1 \in 1..y
        /\ z + y - (x + (y - 1) - i) = z + ((i - x) + 1)
    BY <1>1, <1>5
  <2>2. u[i] = d[(i - x) + 1]
    BY <1>2, <1>3, <2>1
  <2>3. QED
    BY <1>1, <2>1, <2>2
<1>7. QED
  BY <1>1, <1>5, <1>6

(* A write, whole or cut short, behind parts j. *)
LEMMA AppendedEnds ==
  ASSUME NEW j \in File, NEW f \in File \cup {Missing}, NEW d \in Seq(Line),
         NEW t \in {<<>>, <<Torn>>}, NEW l \in Seq(Line), EndOf(j \o Lines(f), l)
  PROVE  /\ Appended(f, d \o t) \in File
         /\ EndOf(j \o Lines(Appended(f, d \o t)), l \o d)
<1> DEFINE e == d \o t
           a == Appended(f, e)
<1>1. Missing \notin File /\ Line \subseteq Line \cup {Torn}
  BY JournalAssumption DEF File, Line
<1>2. d \in File /\ e \in File /\ l \o d \in Seq(Line) /\ <<>> \in File
  <2>1. d \in File /\ <<>> \in File
    BY LinesAreFile, FileEmpty
  <2>2. t \in File
    <3>1. <<Torn>> \in Seq(Line \cup {Torn})
      OBVIOUS
    <3>2. QED
      BY <2>1, <3>1 DEF File
  <2>3. e \in File
    BY <2>1, <2>2, FileConcat
  <2>4. QED
    BY <2>1, <2>3
<1>3. CASE t = <<Torn>>
  <2>1. EndsTorn(t) /\ t \in File
    BY <1>3 DEF EndsTorn, File
  <2>2. EndsTorn(e)
    BY <1>2, <2>1, TornEnd
  <2>3. a \in File /\ EndsTorn(a)
    <3>1. CASE f = Missing
      BY <1>2, <2>2, <3>1 DEF Appended
    <3>2. CASE f # Missing /\ f # <<>> /\ e # <<>> /\ Last(f) = Torn
      <4>1. a = f \o Tail(e) /\ f \in File
        BY <3>2 DEF Appended
      <4>2. Tail(e) \in File /\ EndsTorn(f)
        BY <1>2, <3>2, <4>1 DEF File, EndsTorn, Last
      <4>3. CASE Tail(e) = <<>>
        BY <4>1, <4>2, <4>3, FileEmpty
      <4>4. CASE Tail(e) # <<>>
        <5>1. EndsTorn(Tail(e))
          <6> DEFINE n == Len(e)
          <6>1. /\ n \in Nat /\ e[n] = Torn /\ Len(Tail(e)) = n - 1
                /\ \A i \in 1..n - 1 : Tail(e)[i] = e[i + 1]
            BY <1>2, <2>2, <3>2 DEF File, EndsTorn
          <6>2. n - 1 # 0 /\ n - 1 \in Nat
            BY <1>2, <3>2, <4>2, <4>4, <6>1 DEF File
          <6> HIDE DEF n
          <6>3. n - 1 \in 1..n - 1 /\ (n - 1) + 1 = n
            BY <6>1, <6>2
          <6>4. QED
            BY <4>4, <6>1, <6>3 DEF EndsTorn
        <5>2. QED
          BY <4>1, <4>2, <5>1, TornEnd
      <4>5. QED
        BY <4>3, <4>4
    <3>3. CASE f # Missing /\ ~(f # <<>> /\ e # <<>> /\ Last(f) = Torn)
      <4>1. a = f \o e /\ f \in File
        BY <3>3 DEF Appended
      <4>2. QED
        BY <1>2, <2>2, <4>1, TornEnd
    <3>4. QED
      BY <3>1, <3>2, <3>3
  <2> HIDE DEF a
  <2>4. Lines(a) = a
    BY <1>1, <2>3 DEF Lines
  <2>5. EndOf(j \o a, l \o d)
    BY <1>2, <2>3, TornEnd, TornIsEnd
  <2>6. QED
    BY <2>3, <2>4, <2>5 DEF a
<1>4. CASE t = <<>>
  <2>1. e = d
    BY <1>4
  <2>2. CASE f = Missing
    <3>1. a = d /\ Lines(f) = <<>>
      BY <2>1, <2>2 DEF Appended, Lines
    <3>2. Lines(d) = d /\ j \o <<>> = j
      BY <1>1, <1>2, FileEmpty DEF Lines
    <3>3. EndOf(j \o d, l \o d)
      BY <3>1, <3>2, EndOfAppend
    <3>4. QED
      BY <1>2, <3>1, <3>2, <3>3
  <2>3. CASE f # Missing /\ f # <<>> /\ d # <<>> /\ Last(f) = Torn
    <3>1. a = f \o Tail(d) /\ f \in File /\ Lines(f) = f
      BY <2>1, <2>3 DEF Appended, Lines
    <3>2. Tail(d) \in File /\ EndsTorn(f) /\ f \o Tail(d) \in File
      BY <1>2, <2>3, <3>1 DEF File, EndsTorn, Last
    <3>3. Lines(a) = a /\ j \o a = (j \o f) \o Tail(d)
      <4>1. Lines(a) = a
        BY <1>1, <3>1, <3>2 DEF Lines
      <4>2. j \o (f \o Tail(d)) = (j \o f) \o Tail(d)
        BY <3>1, <3>2, FileConcat
      <4>3. QED
        BY <3>1, <4>1, <4>2, Zenon
    <3>4. j \o f \in File /\ EndsTorn(j \o f)
      BY <3>1, <3>2, TornEnd
    <3>5. EndOf((j \o f) \o Tail(d), l \o d)
      BY <2>3, <3>4, EndOfSwallow
    <3>6. QED
      BY <3>1, <3>2, <3>3, <3>5
  <2>4. CASE f # Missing /\ ~(f # <<>> /\ d # <<>> /\ Last(f) = Torn)
    <3>1. a = f \o d /\ f \in File /\ Lines(f) = f
      BY <2>1, <2>4 DEF Appended, Lines
    <3>2. f \o d \in File /\ j \o f \in File
      BY <1>2, <3>1 DEF File
    <3>3. Lines(a) = a /\ j \o a = (j \o f) \o d
      <4>1. Lines(a) = a
        BY <1>1, <3>1, <3>2 DEF Lines
      <4>2. j \o (f \o d) = (j \o f) \o d
        BY <1>2, <3>1, FileConcat, ZenonT(40)
      <4>3. QED
        BY <3>1, <4>1, <4>2, Zenon
    <3>4. EndOf((j \o f) \o d, l \o d)
      BY <3>1, <3>2, EndOfAppend
    <3>5. QED
      BY <3>1, <3>2, <3>3, <3>4
  <2>5. QED
    BY <2>2, <2>3, <2>4
<1>5. QED
  BY <1>3, <1>4

-----------------------------------------------------------------------------
(* The inductive invariant of the journal.                                 *)

JournalType ==
  /\ live \in File \cup {Missing}
  /\ part \in Parts
  /\ lock \in Writers \cup {NoWriter}
  /\ step \in [Writers -> {"new", "idle", "wait", "unlink", "shift", "append", "closed", "dead"}]
  /\ seq \in [Writers -> Nat]
  /\ pair \in [Writers -> BOOLEAN]
  /\ at \in [Writers -> 0..MaxFiles - 1]
  /\ log \in Seq(Line)

(* Whoever is in the locked block holds the lock, and a part is shifted    *)
(* to a place that is free.                                                *)
LockedInv == \A w \in Writers :
  /\ step[w] \in {"unlink", "shift", "append"} => lock = w
  /\ step[w] = "shift" => part[at[w] + 1] = Missing

(* All that the files hold, whether a reader finds it or not, is the end   *)
(* of what was written.                                                    *)
FilesInv == EndOf(Joined(part)[MaxFiles] \o Lines(live), log)

JournalInv == JournalType /\ LockedInv /\ FilesInv

(* What a call writes, whole or in part. *)
LEMMA NewLinesAreLines ==
  ASSUME NEW w \in Writers, JournalType
  PROVE  /\ NewLines(w) \in Seq(Line)
         /\ \A k \in 0..Len(NewLines(w)) - 1 : SubSeq(NewLines(w), 1, k) \in Seq(Line)
<1>1. [by |-> w, seq |-> seq[w]] \in Line /\ [by |-> w, seq |-> seq[w] + 1] \in Line
  BY DEF JournalType, Line
<1>2. NewLines(w) \in Seq(Line)
  <2> DEFINE a == [by |-> w, seq |-> seq[w]]
             b == [by |-> w, seq |-> seq[w] + 1]
  <2>1. a \in Line /\ b \in Line
    BY <1>1
  <2> HIDE DEF a, b
  <2>2. <<a, b>> \in Seq(Line) /\ <<a>> \in Seq(Line)
    BY <2>1
  <2>3. QED
    BY <2>2 DEF NewLines, a, b
<1>3. \A s \in Seq(Line) : \A k \in 0..Len(s) - 1 : SubSeq(s, 1, k) \in Seq(Line)
  OBVIOUS
<1>4. QED
  BY <1>2, <1>3

(* The lines of the parts, and of the live file. *)
LEMMA FilesAreFile ==
  ASSUME JournalType
  PROVE  Joined(part)[MaxFiles] \in File /\ Lines(live) \in File
<1>1. MaxFiles \in 0..MaxFiles
  BY JournalAssumption
<1>2. Joined(part)[MaxFiles] \in File
  BY <1>1, JoinedSteps DEF JournalType
<1>3. Lines(live) \in File
  BY FileEmpty DEF JournalType, Lines, File
<1>4. QED
  BY <1>2, <1>3

(* A write, whole or cut short. *)
LEMMA WriteKeeps ==
  ASSUME NEW d \in Seq(Line), NEW t \in {<<>>, <<Torn>>}, JournalType, FilesInv,
         live' = Appended(live, d \o t), log' = log \o d, part' = part
  PROVE  live' \in File /\ log' \in Seq(Line) /\ FilesInv'
<1> DEFINE j == Joined(part)[MaxFiles]
<1>1. j \in File /\ live \in File \cup {Missing} /\ log \in Seq(Line)
  BY FilesAreFile DEF JournalType
<1>2. EndOf(j \o Lines(live), log)
  BY DEF FilesInv
<1> HIDE DEF j
<1>3. /\ Appended(live, d \o t) \in File
      /\ EndOf(j \o Lines(Appended(live, d \o t)), log \o d)
  BY <1>1, <1>2, AppendedEnds
<1>4. log \o d \in Seq(Line)
  BY <1>1
<1>5. QED
  BY <1>3, <1>4 DEF FilesInv, j

(* The oldest part goes. *)
LEMMA UnlinkKeeps ==
  ASSUME NEW p \in Parts, NEW q \in Parts, NEW d \in File, NEW l \in Seq(Line),
         q = [p EXCEPT ![MaxFiles] = Missing], EndOf(Joined(p)[MaxFiles] \o d, l)
  PROVE  EndOf(Joined(q)[MaxFiles] \o d, l)
<1> DEFINE n == MaxFiles - 1
<1>1. n \in 0..MaxFiles /\ n \in 0..n /\ MaxFiles \in 1..MaxFiles /\ 0 \in 0..MaxFiles /\ n + 1 = MaxFiles
  BY JournalAssumption
<1>2. \A i \in 1..n : i \in 1..MaxFiles /\ i # MaxFiles
  BY JournalAssumption
<1>3. q[MaxFiles] = Missing /\ \A i \in 0 + 1..n : q[i] = p[i]
  BY <1>1, <1>2 DEF Parts
<1>4. Joined(q)[0] = Joined(p)[0]
  BY JoinedSteps
<1>5. Joined(q)[n] = Joined(p)[n]
  BY <1>1, <1>3, <1>4, JoinSame
<1>6. Joined(q)[MaxFiles] = Joined(p)[n]
  BY <1>1, <1>3, <1>5, JoinedSteps
<1>7. Joined(p)[n] \in File
  BY <1>1, JoinedSteps
<1>8. CASE p[MaxFiles] = Missing
  <2>1. Joined(p)[MaxFiles] = Joined(p)[n]
    BY <1>1, <1>8, JoinedSteps
  <2>2. QED
    BY <1>6, <2>1
<1>9. CASE p[MaxFiles] # Missing
  <2>1. Joined(p)[MaxFiles] = p[MaxFiles] \o Joined(p)[n] /\ p[MaxFiles] \in File
    BY <1>1, <1>9, JoinedSteps DEF Parts
  <2>2. Joined(p)[MaxFiles] \o d = p[MaxFiles] \o (Joined(p)[n] \o d)
    <3>1. p[MaxFiles] \o (Joined(p)[n] \o d) = (p[MaxFiles] \o Joined(p)[n]) \o d
      BY <1>7, <2>1, FileConcat
    <3>2. QED
      BY <2>1, <3>1
  <2>3. Joined(p)[n] \o d \in File
    BY <1>7, FileConcat
  <2>4. EndOf(Joined(p)[n] \o d, l)
    BY <2>1, <2>2, <2>3, EndOfEnd
  <2>5. QED
    BY <1>6, <2>4
<1>10. QED
  BY <1>8, <1>9

(* A part moves to the free place behind it. *)
LEMMA ShiftKeeps ==
  ASSUME NEW p \in Parts, NEW q \in Parts, NEW k \in 1..MaxFiles - 1,
         p[k + 1] = Missing, p[k] # Missing,
         q = [p EXCEPT ![k + 1] = p[k], ![k] = Missing]
  PROVE  Joined(q)[MaxFiles] = Joined(p)[MaxFiles]
<1> DEFINE f == Joined(p)
           g == Joined(q)
<1>1. /\ k \in 1..MaxFiles /\ k + 1 \in 1..MaxFiles /\ k # k + 1 /\ (k + 1) - 1 = k
      /\ k - 1 \in 0..MaxFiles /\ k \in 0..MaxFiles /\ k + 1 \in 0..MaxFiles
      /\ MaxFiles \in k + 1..MaxFiles /\ 0 \in 0..MaxFiles /\ k - 1 \in 0..MaxFiles
  BY JournalAssumption
<1>2. q[k + 1] = p[k] /\ q[k] = Missing /\ \A i \in 1..MaxFiles : i # k /\ i # k + 1 => q[i] = p[i]
  BY <1>1 DEF Parts
<1>3. \A i \in 0 + 1..k - 1 : i \in 1..MaxFiles /\ i # k /\ i # k + 1
  BY JournalAssumption
<1>4. \A i \in (k + 1) + 1..MaxFiles : i \in 1..MaxFiles /\ i # k /\ i # k + 1
  BY JournalAssumption
<1>5. g[0] = f[0]
  BY JoinedSteps
<1>6. g[k - 1] = f[k - 1]
  <2>1. \A i \in 0 + 1..k - 1 : q[i] = p[i]
    BY <1>2, <1>3
  <2>2. QED
    BY <1>1, <1>5, <2>1, JoinSame, ZenonT(40)
<1>7. g[k] = g[k - 1] /\ g[k + 1] = p[k] \o g[k]
  <2>1. \A i \in 1..MaxFiles : g[i] = IF q[i] = Missing THEN g[i - 1] ELSE q[i] \o g[i - 1]
    BY JoinedSteps
  <2> HIDE DEF g
  <2>2. QED
    BY <1>1, <1>2, <2>1
<1>8. f[k] = p[k] \o f[k - 1] /\ f[k + 1] = f[k]
  <2>1. \A i \in 1..MaxFiles : f[i] = IF p[i] = Missing THEN f[i - 1] ELSE p[i] \o f[i - 1]
    BY JoinedSteps
  <2> HIDE DEF f
  <2>2. QED
    BY <1>1, <2>1
<1>9. g[k + 1] = f[k + 1]
  BY <1>6, <1>7, <1>8
<1>10. \A i \in (k + 1) + 1..MaxFiles : q[i] = p[i]
  BY <1>2, <1>4
<1>11. QED
  BY <1>1, <1>9, <1>10, JoinSame, ZenonT(40)

(* The live file becomes the first part, whose place is free. *)
LEMMA MoveLiveKeeps ==
  ASSUME NEW p \in Parts, NEW q \in Parts, NEW f \in File \cup {Missing},
         p[1] = Missing, q = [p EXCEPT ![1] = f]
  PROVE  Joined(q)[MaxFiles] = Joined(p)[MaxFiles] \o Lines(f)
<1>1. 1 \in 0..MaxFiles /\ 1 \in 1..MaxFiles /\ MaxFiles \in 1..MaxFiles /\ 1 - 1 = 0
  BY JournalAssumption
<1>2. Lines(f) \in File /\ <<>> \o Lines(f) = Lines(f)
  BY FileEmpty DEF Lines, File
<1>3. q[1] = f /\ \A i \in 1 + 1..MaxFiles : q[i] = p[i]
  <2>1. \A i \in 1 + 1..MaxFiles : i \in 1..MaxFiles /\ i # 1
    BY JournalAssumption
  <2>2. QED
    BY <1>1, <2>1 DEF Parts
<1>4. Joined(p)[1] = <<>>
  BY <1>1, JoinedSteps
<1>5. Joined(q)[1] = Lines(f)
  <2>1. Joined(q)[1] = IF q[1] = Missing THEN <<>> ELSE q[1] \o <<>>
    <3>1. Joined(q)[1] = IF q[1] = Missing THEN Joined(q)[1 - 1] ELSE q[1] \o Joined(q)[1 - 1]
      BY <1>1, JoinedSteps, Zenon
    <3>2. Joined(q)[0] = <<>>
      BY JoinedSteps
    <3>3. QED
      BY <1>1, <3>1, <3>2
  <2>2. f # Missing => f \o <<>> = f
    BY FileEmpty
  <2>3. QED
    BY <1>3, <2>1, <2>2 DEF Lines
<1>6. Joined(q)[1] = Joined(p)[1] \o Lines(f)
  BY <1>2, <1>4, <1>5
<1> DEFINE k == 1
<1>7. /\ k \in 0..MaxFiles /\ MaxFiles \in k..MaxFiles
      /\ Joined(q)[k] = Joined(p)[k] \o Lines(f)
      /\ \A i \in k + 1..MaxFiles : q[i] = p[i]
  BY <1>1, <1>3, <1>6
<1> HIDE DEF k
<1>8. QED
  BY <1>2, <1>7, JoinRest, ZenonT(40)

(* No file is there: nothing is joined. *)
LEMMA InitJournal == JournalInit => JournalInv
<1> SUFFICES ASSUME JournalInit PROVE JournalInv
  OBVIOUS
<1>1. MaxFiles \in Nat \ {0} /\ MaxFiles \in 0..MaxFiles /\ 0 \in 0..MaxFiles - 1
  BY JournalAssumption
<1>2. part \in Parts
  BY DEF JournalInit, Parts
<1>3. log \in Seq(Line) /\ log = <<>> /\ live = Missing /\ lock = NoWriter
  BY DEF JournalInit
<1>4. /\ step \in [Writers -> {"new", "idle", "wait", "unlink", "shift", "append", "closed", "dead"}]
      /\ seq \in [Writers -> Nat] /\ pair \in [Writers -> BOOLEAN]
      /\ at \in [Writers -> 0..MaxFiles - 1]
  BY <1>1 DEF JournalInit
<1>5. JournalType
  BY <1>2, <1>3, <1>4 DEF JournalType
<1>6. LockedInv
  BY DEF JournalInit, LockedInv
<1>7. FilesInv
  <2>1. Joined(part)[0] = <<>> /\ \A i \in 0 + 1..MaxFiles : part[i] = Missing
    BY <1>2, JoinedSteps DEF JournalInit
  <2> DEFINE f == Joined(part)
             Failing == {i \in 0..MaxFiles : f[i] # <<>>}
  <2>2. \A i \in 1..MaxFiles : f[i] = f[i - 1]
    <3>1. \A i \in 1..MaxFiles : part[i] = Missing
      BY <2>1
    <3>2. QED
      BY <1>2, <3>1, JoinedSteps
  <2>3. f[0] = <<>>
    BY <2>1
  <2> HIDE DEF f
  <2>4. Failing = {}
    <3>1. SUFFICES ASSUME Failing # {} PROVE FALSE
      OBVIOUS
    <3> DEFINE m == Least(Failing)
    <3>2. Failing \in SUBSET Nat
      BY <1>1
    <3>3. m \in Failing /\ \A y \in Failing : m <= y
      BY <3>1, <3>2, LeastIsLeast
    <3> HIDE DEF m
    <3>4. m \in 1..MaxFiles /\ m - 1 \in 0..MaxFiles /\ ~(m <= m - 1)
      BY <1>1, <2>3, <3>3
    <3>5. QED
      BY <2>2, <3>3, <3>4
  <2>5. f[MaxFiles] = <<>>
    BY <1>1, <2>4
  <2>6. Joined(part)[MaxFiles] \o Lines(live) = <<>>
    BY <1>3, <2>5, FileEmpty DEF Lines, f
  <2>7. EndOf(<<>>, <<>>)
    BY DEF EndOf
  <2>8. QED
    BY <1>3, <2>6, <2>7, Zenon DEF FilesInv
<1>8. QED
  BY <1>5, <1>6, <1>7 DEF JournalInv

(* A step of one writer that leaves the parts and the others alone. *)
LEMMA LockedKept ==
  ASSUME NEW w \in Writers, JournalType, LockedInv, part' = part,
         step'[w] \notin {"unlink", "shift", "append"},
         \A v \in Writers : v # w => step'[v] = step[v],
         lock' = lock \/ lock' = IF lock = w THEN NoWriter ELSE lock,
         at' = at
  PROVE  LockedInv'
<1> SUFFICES ASSUME NEW v \in Writers
             PROVE  /\ step'[v] \in {"unlink", "shift", "append"} => lock' = v
                    /\ step'[v] = "shift" => part'[at'[v] + 1] = Missing
  BY DEF LockedInv
<1>1. CASE v = w
  BY <1>1
<1>2. CASE v # w
  <2>1. step'[v] = step[v]
    BY <1>2
  <2>2. step[v] \in {"unlink", "shift", "append"} => lock' = v
    BY <1>2 DEF LockedInv
  <2>3. QED
    BY <2>1, <2>2 DEF LockedInv
<1>3. QED
  BY <1>1, <1>2

(* A step of the writer that holds the lock, and keeps it. *)
LEMMA HolderKept ==
  ASSUME NEW w \in Writers, JournalType, LockedInv, lock = w, lock' = w,
         \A v \in Writers : v # w => step'[v] = step[v],
         step'[w] = "shift" => part'[at'[w] + 1] = Missing
  PROVE  LockedInv'
<1> SUFFICES ASSUME NEW v \in Writers
             PROVE  /\ step'[v] \in {"unlink", "shift", "append"} => lock' = v
                    /\ step'[v] = "shift" => part'[at'[v] + 1] = Missing
  BY DEF LockedInv
<1>1. CASE v = w
  BY <1>1
<1>2. CASE v # w
  <2>1. step'[v] = step[v] /\ lock # v
    BY <1>2
  <2>2. QED
    BY <2>1 DEF LockedInv
<1>3. QED
  BY <1>1, <1>2


(* The steps of the locked block. *)
LEMMA UnlinkStep ==
  ASSUME NEW w \in Writers, JournalInv, Unlink(w)
  PROVE  JournalInv'
<1>1. JournalType /\ LockedInv /\ FilesInv /\ MaxFiles \in Nat \ {0}
  BY JournalAssumption DEF JournalInv
<1>2. /\ step[w] = "unlink" /\ part' = [part EXCEPT ![MaxFiles] = Missing]
      /\ at' = [at EXCEPT ![w] = MaxFiles - 1] /\ step' = [step EXCEPT ![w] = "shift"]
      /\ live' = live /\ lock' = lock /\ seq' = seq /\ pair' = pair /\ log' = log
  BY DEF Unlink, UnlinkOldest, GoTo
<1>3. part \in Parts /\ part' \in Parts
  BY <1>1, <1>2 DEF JournalType, Parts
<1>4. JournalType'
  <2>1. MaxFiles - 1 \in 0..MaxFiles - 1
    BY <1>1
  <2>2. at' \in [Writers -> 0..MaxFiles - 1]
    BY <1>1, <1>2, <2>1 DEF JournalType
  <2>3. QED
    BY <1>1, <1>2, <1>3, <2>2 DEF JournalType
<1>5. LockedInv'
  <2>1. lock = w
    BY <1>1, <1>2 DEF LockedInv
  <2>2. at'[w] + 1 = MaxFiles /\ MaxFiles \in 1..MaxFiles
    BY <1>1, <1>2 DEF JournalType
  <2>3. part'[at'[w] + 1] = Missing
    BY <1>2, <1>3, <2>2 DEF Parts
  <2>4. \A v \in Writers : v # w => step'[v] = step[v]
    BY <1>1, <1>2 DEF JournalType
  <2>5. QED
    BY <1>1, <1>2, <2>1, <2>3, <2>4, HolderKept
<1>6. FilesInv'
  <2>1. Lines(live) \in File /\ log \in Seq(Line)
    BY <1>1, FilesAreFile DEF JournalType
  <2>2. EndOf(Joined(part)[MaxFiles] \o Lines(live), log)
    BY <1>1 DEF FilesInv
  <2>3. EndOf(Joined(part')[MaxFiles] \o Lines(live), log)
    BY <1>2, <1>3, <2>1, <2>2, UnlinkKeeps
  <2>4. QED
    BY <1>2, <2>3 DEF FilesInv
<1>7. QED
  BY <1>4, <1>5, <1>6 DEF JournalInv

LEMMA ShiftStep ==
  ASSUME NEW w \in Writers, JournalInv, Shift(w)
  PROVE  JournalInv'
<1> DEFINE i == at[w]
<1>1. JournalType /\ LockedInv /\ FilesInv /\ MaxFiles \in Nat \ {0}
  BY JournalAssumption DEF JournalInv
<1>2. /\ step[w] = "shift" /\ i > 0
      /\ part' = IF part[i] = Missing THEN part
                 ELSE [part EXCEPT ![i + 1] = part[i], ![i] = Missing]
      /\ at' = [at EXCEPT ![w] = i - 1] /\ step' = step
      /\ live' = live /\ lock' = lock /\ seq' = seq /\ pair' = pair /\ log' = log
  BY DEF Shift
<1>3. i \in 0..MaxFiles - 1 /\ lock = w /\ part[i + 1] = Missing
  BY <1>1, <1>2 DEF JournalType, LockedInv
<1>4. at' \in [Writers -> 0..MaxFiles - 1] /\ at'[w] = i - 1
  <2> HIDE DEF i
  <2>1. i - 1 \in 0..MaxFiles - 1
    BY <1>1, <1>2, <1>3
  <2>2. QED
    BY <1>1, <1>2, <2>1 DEF JournalType
<1> HIDE DEF i
<1>5. i \in 1..MaxFiles - 1 /\ i \in 1..MaxFiles /\ i + 1 \in 1..MaxFiles /\ i # i + 1 /\ (i - 1) + 1 = i
  BY <1>1, <1>2, <1>3
<1>6. part \in Parts /\ part' \in Parts /\ part'[i] = Missing
  BY <1>1, <1>2, <1>5 DEF JournalType, Parts
<1>7. JournalType'
  BY <1>1, <1>2, <1>4, <1>6 DEF JournalType
<1>8. LockedInv'
  <2>1. part'[at'[w] + 1] = Missing
    BY <1>4, <1>5, <1>6
  <2>2. \A v \in Writers : v # w => step'[v] = step[v]
    BY <1>2
  <2>3. QED
    BY <1>1, <1>2, <1>3, <2>1, <2>2, HolderKept
<1>9. Joined(part')[MaxFiles] = Joined(part)[MaxFiles]
  <2>1. CASE part[i] = Missing
    BY <1>2, <2>1
  <2>2. CASE part[i] # Missing
    BY <1>2, <1>3, <1>5, <1>6, <2>2, ShiftKeeps
  <2>3. QED
    BY <2>1, <2>2
<1>10. FilesInv'
  BY <1>1, <1>2, <1>9 DEF FilesInv
<1>11. QED
  BY <1>7, <1>8, <1>10 DEF JournalInv

LEMMA MoveLiveStep ==
  ASSUME NEW w \in Writers, JournalInv, MoveLive(w)
  PROVE  JournalInv'
<1>1. JournalType /\ LockedInv /\ FilesInv /\ MaxFiles \in Nat \ {0}
  BY JournalAssumption DEF JournalInv
<1>2. /\ step[w] = "shift" /\ at[w] = 0 /\ part' = [part EXCEPT ![1] = live]
      /\ step' = [step EXCEPT ![w] = "append"] /\ live' = Missing
      /\ lock' = lock /\ seq' = seq /\ pair' = pair /\ log' = log /\ at' = at
  BY DEF MoveLive, GoTo
<1>3. part \in Parts /\ part' \in Parts /\ live \in File \cup {Missing}
  BY <1>1, <1>2 DEF JournalType, Parts
<1>4. lock = w /\ part[1] = Missing
  BY <1>1, <1>2 DEF LockedInv
<1>5. JournalType'
  BY <1>1, <1>2, <1>3 DEF JournalType
<1>6. LockedInv'
  <2>1. step'[w] = "append" /\ \A v \in Writers : v # w => step'[v] = step[v]
    BY <1>1, <1>2 DEF JournalType
  <2>2. QED
    BY <1>1, <1>2, <1>4, <2>1, HolderKept
<1>7. FilesInv'
  <2>1. Joined(part')[MaxFiles] = Joined(part)[MaxFiles] \o Lines(live)
    BY <1>2, <1>3, <1>4, MoveLiveKeeps
  <2>2. Joined(part')[MaxFiles] \in File /\ Lines(live') = <<>>
    BY <1>2, <1>3, <1>1, JoinedSteps DEF Lines
  <2>3. Joined(part')[MaxFiles] \o Lines(live') = Joined(part)[MaxFiles] \o Lines(live)
    BY <2>1, <2>2, FileEmpty
  <2>4. QED
    BY <1>1, <1>2, <2>3 DEF FilesInv
<1>8. QED
  BY <1>5, <1>6, <1>7 DEF JournalInv

(* A write that is cut short. *)
LEMMA CutKeeps ==
  ASSUME NEW w \in Writers, JournalInv, CutShort(w), part' = part
  PROVE  live' \in File /\ log' \in Seq(Line) /\ FilesInv'
<1>1. JournalType /\ FilesInv
  BY DEF JournalInv
<1>2. PICK k \in 0..Len(NewLines(w)) - 1, t \in {<<>>, <<Torn>>} :
        /\ live' = Appended(live, SubSeq(NewLines(w), 1, k) \o t)
        /\ log' = log \o SubSeq(NewLines(w), 1, k)
  BY DEF CutShort
<1>3. SubSeq(NewLines(w), 1, k) \in Seq(Line)
  BY <1>1, NewLinesAreLines
<1>4. QED
  BY <1>1, <1>2, <1>3, WriteKeeps

LEMMA AppendStep ==
  ASSUME NEW w \in Writers, JournalInv, Append_(w)
  PROVE  JournalInv'
<1>1. JournalType /\ LockedInv /\ FilesInv
  BY DEF JournalInv
<1>2. /\ step[w] = "append" /\ live' = Appended(live, NewLines(w))
      /\ log' = log \o NewLines(w) /\ seq' = [seq EXCEPT ![w] = Count(w)]
      /\ lock' = IF lock = w THEN NoWriter ELSE lock
      /\ step' = [step EXCEPT ![w] = "idle"]
      /\ part' = part /\ pair' = pair /\ at' = at
  BY DEF Append_, Free, GoTo
<1>3. NewLines(w) \in Seq(Line) /\ NewLines(w) \o <<>> = NewLines(w)
  <2>1. NewLines(w) \in Seq(Line)
    BY <1>1, NewLinesAreLines
  <2>2. QED
    BY <2>1, LinesAreFile, FileEmpty
<1>4. live' = Appended(live, NewLines(w) \o <<>>)
  BY <1>2, <1>3
<1>5. live' \in File /\ log' \in Seq(Line) /\ FilesInv'
  BY <1>1, <1>2, <1>3, <1>4, WriteKeeps
<1>6. seq' \in [Writers -> Nat]
  BY <1>1, <1>2 DEF JournalType, Count
<1>7. lock' \in Writers \cup {NoWriter}
  BY <1>1, <1>2 DEF JournalType
<1>8. JournalType'
  BY <1>1, <1>2, <1>5, <1>6, <1>7 DEF JournalType
<1>9. LockedInv'
  <2>1. step'[w] \notin {"unlink", "shift", "append"} /\ \A v \in Writers : v # w => step'[v] = step[v]
    BY <1>1, <1>2 DEF JournalType
  <2>2. QED
    BY <1>1, <1>2, <2>1, LockedKept
<1>10. QED
  BY <1>5, <1>8, <1>9 DEF JournalInv

LEMMA WriteCutStep ==
  ASSUME NEW w \in Writers, JournalInv, WriteCut(w)
  PROVE  JournalInv'
<1>1. JournalType /\ LockedInv /\ FilesInv
  BY DEF JournalInv
<1>2. /\ lock' = IF lock = w THEN NoWriter ELSE lock
      /\ step' = [step EXCEPT ![w] = "idle"]
      /\ part' = part /\ pair' = pair /\ at' = at /\ seq' = seq
  BY DEF WriteCut, Free, GoTo
<1>3. live' \in File /\ log' \in Seq(Line) /\ FilesInv'
  BY <1>2, CutKeeps DEF WriteCut
<1>4. JournalType'
  BY <1>1, <1>2, <1>3 DEF JournalType
<1>5. LockedInv'
  <2>1. step'[w] \notin {"unlink", "shift", "append"} /\ \A v \in Writers : v # w => step'[v] = step[v]
    BY <1>1, <1>2 DEF JournalType
  <2>2. QED
    BY <1>1, <1>2, <2>1, LockedKept
<1>6. QED
  BY <1>3, <1>4, <1>5 DEF JournalInv

LEMMA DieStep ==
  ASSUME NEW w \in Writers, JournalInv, Die(w)
  PROVE  JournalInv'
<1>1. JournalType /\ LockedInv /\ FilesInv
  BY DEF JournalInv
<1>2. /\ lock' = IF lock = w THEN NoWriter ELSE lock
      /\ step' = [step EXCEPT ![w] = "dead"]
      /\ part' = part /\ pair' = pair /\ at' = at /\ seq' = seq
      /\ UNCHANGED <<live, log>> \/ CutShort(w)
  BY DEF Die, FreeAtDeath, Free, GoTo
<1>3. live' \in File \cup {Missing} /\ log' \in Seq(Line) /\ FilesInv'
  <2>1. CASE UNCHANGED <<live, log>>
    BY <1>1, <1>2, <2>1 DEF JournalType, FilesInv
  <2>2. CASE CutShort(w)
    BY <1>2, <2>2, CutKeeps
  <2>3. QED
    BY <1>2, <2>1, <2>2
<1>4. JournalType'
  BY <1>1, <1>2, <1>3 DEF JournalType
<1>5. LockedInv'
  <2>1. step'[w] \notin {"unlink", "shift", "append"} /\ \A v \in Writers : v # w => step'[v] = step[v]
    BY <1>1, <1>2 DEF JournalType
  <2>2. QED
    BY <1>1, <1>2, <2>1, LockedKept
<1>6. QED
  BY <1>3, <1>4, <1>5 DEF JournalInv

(* The calls that do not touch the parts: construct, begin, wait, give up  *)
(* and close.                                                              *)
LEMMA CallStep ==
  ASSUME NEW w \in Writers, JournalInv,
         Construct(w) \/ Event(w) \/ AcquireFails(w) \/ AppendFails(w) \/ Close(w)
  PROVE  JournalInv'
<1>1. JournalType /\ LockedInv /\ FilesInv
  BY DEF JournalInv
<1>2. /\ part' = part /\ at' = at /\ log' = log
      /\ lock' = lock \/ lock' = IF lock = w THEN NoWriter ELSE lock
      /\ live' = live \/ (live = Missing /\ live' = <<>>)
      /\ \E l \in {"idle", "wait", "closed"} : step' = [step EXCEPT ![w] = l]
  BY DEF Construct, Event, AcquireFails, AppendFails, Close, Free, GoTo, files
<1>3. seq' \in [Writers -> Nat]
  BY <1>1 DEF Construct, Event, AcquireFails, AppendFails, Close, JournalType
<1>4. pair' \in [Writers -> BOOLEAN]
  <2>1. CASE Event(w)
    <3>1. PICK conflict \in BOOLEAN : pair' = [pair EXCEPT ![w] = conflict]
      BY <2>1 DEF Event
    <3>2. QED
      BY <1>1, <3>1 DEF JournalType
  <2>2. CASE pair' = pair
    BY <1>1, <2>2 DEF JournalType
  <2>3. QED
    BY <2>1, <2>2 DEF Construct, AcquireFails, AppendFails, Close
<1>5. PICK l \in {"idle", "wait", "closed"} : step' = [step EXCEPT ![w] = l]
  BY <1>2
<1>6. JournalType'
  <2>1. live' \in File \cup {Missing}
    <3>1. <<>> \in File
      BY DEF File
    <3>2. QED
      BY <1>1, <1>2, <3>1 DEF JournalType
  <2>2. step' \in [Writers -> {"new", "idle", "wait", "unlink", "shift", "append", "closed", "dead"}]
    BY <1>1, <1>5 DEF JournalType
  <2>3. lock' \in Writers \cup {NoWriter}
    BY <1>1, <1>2 DEF JournalType
  <2>4. QED
    BY <1>1, <1>2, <1>3, <1>4, <2>1, <2>2, <2>3 DEF JournalType
<1>7. LockedInv'
  <2>1. step'[w] \notin {"unlink", "shift", "append"} /\ \A v \in Writers : v # w => step'[v] = step[v]
    BY <1>1, <1>2, <1>5 DEF JournalType
  <2>2. QED
    BY <1>1, <1>2, <2>1, LockedKept
<1>8. FilesInv'
  <2>1. Lines(live') = Lines(live)
    BY <1>2, FileEmpty DEF Lines
  <2>2. QED
    BY <1>1, <1>2, <2>1 DEF FilesInv
<1>9. QED
  BY <1>6, <1>7, <1>8 DEF JournalInv

(* The lock is taken by a writer that waited, and by no other. *)
LEMMA AcquireStep ==
  ASSUME NEW w \in Writers, JournalInv, Acquire(w)
  PROVE  JournalInv'
<1>1. JournalType /\ LockedInv /\ FilesInv
  BY DEF JournalInv
<1>2. PICK l \in {"unlink", "append"} : step' = [step EXCEPT ![w] = l]
  BY DEF Acquire, GoTo
<1>3. /\ lock = NoWriter /\ lock' = w
      /\ part' = part /\ live' = live /\ seq' = seq /\ pair' = pair /\ at' = at /\ log' = log
  BY DEF Acquire, LockFree, files
<1>4. step' \in [Writers -> {"new", "idle", "wait", "unlink", "shift", "append", "closed", "dead"}]
  BY <1>1, <1>2 DEF JournalType
<1>5. JournalType'
  BY <1>1, <1>3, <1>4 DEF JournalType
<1>6. LockedInv'
  <2> SUFFICES ASSUME NEW v \in Writers
               PROVE  /\ step'[v] \in {"unlink", "shift", "append"} => lock' = v
                      /\ step'[v] = "shift" => part'[at'[v] + 1] = Missing
    BY DEF LockedInv
  <2>1. CASE v = w
    BY <1>1, <1>2, <1>3, <2>1 DEF JournalType
  <2>2. CASE v # w
    <3>1. step'[v] = step[v] /\ lock # v
      BY <1>1, <1>2, <1>3, <2>2, JournalAssumption DEF JournalType
    <3>2. QED
      BY <1>1, <3>1 DEF LockedInv
  <2>3. QED
    BY <2>1, <2>2
<1>7. FilesInv'
  BY <1>1, <1>3 DEF FilesInv
<1>8. QED
  BY <1>5, <1>6, <1>7 DEF JournalInv

LEMMA NextJournal == JournalInv /\ [JournalNext]_journalVars => JournalInv'
<1> SUFFICES ASSUME JournalInv, [JournalNext]_journalVars PROVE JournalInv'
  OBVIOUS
<1>1. CASE UNCHANGED journalVars
  BY <1>1 DEF journalVars, files, JournalInv, JournalType, LockedInv, FilesInv
<1>2. CASE JournalNext
  <2>1. PICK w \in Writers :
          Construct(w) \/ Event(w) \/ Acquire(w) \/ AcquireFails(w) \/ Holding(w) \/ Die(w) \/ Close(w)
    BY <1>2 DEF JournalNext
  <2>2. CASE Construct(w) \/ Event(w) \/ AcquireFails(w) \/ AppendFails(w) \/ Close(w)
    BY <2>2, CallStep
  <2>3. CASE Acquire(w)
    BY <2>3, AcquireStep
  <2>4. CASE Unlink(w)
    BY <2>4, UnlinkStep
  <2>5. CASE Shift(w)
    BY <2>5, ShiftStep
  <2>6. CASE MoveLive(w)
    BY <2>6, MoveLiveStep
  <2>7. CASE Append_(w)
    BY <2>7, AppendStep
  <2>8. CASE WriteCut(w)
    BY <2>8, WriteCutStep
  <2>9. CASE Die(w)
    BY <2>9, DieStep
  <2>10. QED
    BY <2>1, <2>2, <2>3, <2>4, <2>5, <2>6, <2>7, <2>8, <2>9 DEF Holding
<1>3. QED
  BY <1>1, <1>2

\* The files are, from the last line that a failed write left torn, the newest
\* lines of the log, whatever a writer in the locked block is in the middle of.
THEOREM JournalInvariant == JournalSpec => []JournalInv
<1>1. QED
  BY InitJournal, NextJournal, PTL DEF JournalSpec

(* With no torn line in it, the end is a suffix. *)
LEMMA WholeEndIsSuffix ==
  ASSUME NEW s \in File, NEW l \in Seq(Line), EndOf(s, l), \A i \in DOMAIN s : s[i] # Torn
  PROVE  IsSuffix(s, l)
<1> DEFINE n == Len(s)
           m == Len(l)
           r == Reverse(s)
           q == Reverse(l)
<1>1. n \in Nat /\ m \in Nat /\ n <= m /\ \A i \in 1..n : s[i] = l[m - (n - i)]
  <2>1. 0 \in 0..n /\ n \in Nat /\ m \in Nat /\ DOMAIN s = 1..n
    BY DEF File
  <2>2. \A i \in 0 + 1..n : s[i] # Torn
    BY <2>1
  <2>3. n - 0 <= m /\ \A i \in 0 + 1..n : s[i] = l[m - (n - i)]
    BY <2>1, <2>2 DEF EndOf
  <2>4. QED
    BY <2>1, <2>3
<1>2. r \in File /\ Len(r) = n /\ \A i \in 1..n : r[i] = s[(n - i) + 1]
  BY DEF Reverse, File
<1>3. q \in Seq(Line) /\ Len(q) = m /\ \A i \in 1..m : q[i] = l[(m - i) + 1]
  BY DEF Reverse
<1> HIDE DEF n, m, r, q
<1>4. ASSUME NEW i \in 1..n
      PROVE  r[i] = q[i]
  <2>1. (n - i) + 1 \in 1..n /\ m - (n - ((n - i) + 1)) = (m - i) + 1 /\ i \in 1..m
    BY <1>1
  <2>2. QED
    BY <1>1, <1>2, <1>3, <2>1
<1>5. SubSeq(r, 1, n) = SubSeq(q, 1, n)
  BY <1>1, <1>2, <1>3, <1>4 DEF File
<1>6. QED
  BY <1>1, <1>2, <1>3, <1>5 DEF IsSuffix, IsPrefix, r, q

\* read_events_chain and _rotate_if_full: rotation, a second writer and a writer
\* that died in the middle of either never lose, repeat or reorder a line between
\* two that a reader gets, for every number of writers, parts and lines to a part.
THEOREM ChainIsTheEnd == JournalSpec => []ChainIsNewestEvents
<1>1. ASSUME JournalInv
      PROVE  ChainIsNewestEvents
  <2>1. JournalType /\ FilesInv
    BY <1>1 DEF JournalInv
  <2> SUFFICES ASSUME ~Corrupt PROVE IsSuffix(Chain, log)
    BY DEF ChainIsNewestEvents
  <2> DEFINE found == [i \in 1..MaxFiles |-> IF i \in Archived THEN part[i] ELSE Missing]
             a == Joined(found)[MaxFiles]
             b == Lines(live)
  <2>2. Chain = a \o b
    BY DEF Chain
  <2>3. PICK c \in File : a \in File /\ Joined(part)[MaxFiles] = c \o a
    <3>1. part \in Parts /\ Archived = {i \in 1..MaxFiles : \A j \in 1..i : part[j] # Missing}
      BY <2>1 DEF JournalType, Archived
    <3>2. found = [i \in 1..MaxFiles |-> IF i \in Archived THEN part[i] ELSE Missing]
      OBVIOUS
    <3> HIDE DEF found
    <3>3. QED
      BY <3>1, <3>2, FoundIsEnd, ZenonT(40)
  <2>4. b \in File /\ log \in Seq(Line)
    BY <2>1, FilesAreFile DEF JournalType
  <2>5. EndOf((c \o a) \o b, log)
    BY <2>1, <2>3 DEF FilesInv
  <2> HIDE DEF a, b
  <2>6. a \o b \in File /\ c \o (a \o b) = (c \o a) \o b
    BY <2>3, <2>4, FileConcat
  <2>7. EndOf(a \o b, log)
    BY <2>3, <2>4, <2>5, <2>6, EndOfEnd
  <2>8. \A i \in DOMAIN Chain : Chain[i] # Torn
    BY DEF Corrupt
  <2>9. QED
    BY <2>2, <2>4, <2>6, <2>7, <2>8, WholeEndIsSuffix
<1>2. QED
  BY <1>1, JournalInvariant, PTL

=============================================================================
