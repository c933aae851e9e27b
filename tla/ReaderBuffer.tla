---------------------------- MODULE ReaderBuffer ----------------------------
(***************************************************************************)
(* The bounded drop-oldest buffer of SerialReader (serial_reader.py): the  *)
(* background thread appends chunks and evicts the oldest ones, consumers  *)
(* wait for a pattern with read_until, the session may stop the thread.    *)
(*                                                                         *)
(* The chunks are consecutive slices of what the device sent, so the deque *)
(* is modelled by the positions of its chunk boundaries: cuts holds the    *)
(* start of every chunk and the end of the last one.  Bytes are told apart *)
(* only by where an occurrence of the consumers' pattern ends.             *)
(***************************************************************************)
EXTENDS Integers

CONSTANTS MaxBytes,   \* max_bytes
          Chunk,      \* chunk: the largest read of the thread
          NeedleLen,  \* length of the pattern
          MaxStream,  \* bound: bytes the device ever sends
          Consumers   \* threads inside read_until

ASSUME BufferAssumption ==
    /\ Chunk \in Nat \ {0}
    /\ MaxBytes \in Nat
    /\ Chunk <= MaxBytes  \* __init__ raises otherwise
    /\ NeedleLen \in Nat \ {0}
    /\ MaxStream \in Nat

VARIABLES
    hi,        \* bytes appended so far
    cuts,      \* boundaries of the chunks in the deque
    bytes,     \* _bytes
    dropped,   \* _dropped
    consumed,  \* _consumed: offset into the first chunk
    tpc,       \* the thread: polling, holding a chunk it has read, or dead
    error,     \* _error is set
    stop,      \* _stop
    pc,        \* consumer -> idle, about to look, about to check
    snap,      \* consumer -> its snapshot, as <<bytes before it, its last byte>>
    marks,     \* positions at which an occurrence of the pattern ends
    lost,      \* history: positions evicted before they were consumed
    out,       \* history: the slices read_until returned as found
    taken      \* history: number of bytes consumed by read_until

buffer  == <<hi, cuts, bytes, dropped, consumed>>
thread  == <<tpc, error, stop>>
history == <<marks, lost, out, taken>>
vars    == <<buffer, thread, pc, snap, history>>

Least(S)    == CHOOSE x \in S : \A y \in S : x <= y
Greatest(S) == CHOOSE x \in S : \A y \in S : y <= x

lo == Least(cuts)     \* where the first chunk starts
rp == lo + consumed   \* first byte a consumer has not been given

TypeOK ==
    /\ hi \in Nat /\ bytes \in Nat /\ dropped \in Nat /\ consumed \in Nat
    /\ cuts \subseteq 0..hi /\ cuts # {}
    /\ tpc \in {"poll", "have", "dead"}
    /\ error \in BOOLEAN /\ stop \in BOOLEAN
    /\ pc \in [Consumers -> {"idle", "look", "check"}]
    /\ snap \in [Consumers -> (0..hi) \X (0..hi)]
    /\ marks \subseteq 1..hi /\ lost \subseteq 1..hi
    /\ out \subseteq (0..hi) \X (0..hi)
    /\ taken \in Nat

Init ==
    /\ hi = 0 /\ cuts = {0} /\ bytes = 0 /\ dropped = 0 /\ consumed = 0
    /\ tpc = "poll" /\ error = FALSE /\ stop = FALSE
    /\ pc = [c \in Consumers |-> "idle"]
    /\ snap = [c \in Consumers |-> <<0, 0>>]
    /\ marks = {} /\ lost = {} /\ out = {} /\ taken = 0

-----------------------------------------------------------------------------
(* The background thread. *)

\* A chunk is read under the io_lock and appended later under the buffer lock;
\* what is in it is decided here or there to no one's notice, so it is there.
ReadChunk ==
    /\ tpc = "poll"
    /\ ~stop
    /\ hi < MaxStream
    /\ tpc' = "have"
    /\ UNCHANGED <<buffer, error, stop, pc, snap, history>>

\* The port dies, or _stop is seen at the loop head.
ThreadEnds ==
    /\ tpc = "poll"
    /\ \/ error' = TRUE
       \/ stop /\ UNCHANGED error
    /\ tpc' = "dead"
    /\ UNCHANGED <<buffer, stop, pc, snap, history>>

\* Slips of the eviction, for the mutants: the offset survives its chunk, the
\* consumed prefix is counted as dropped.
OffsetKept(first)    == consumed
DropPrefixToo(first) == dropped + (first - lo)

\* _evict_locked: whole oldest chunks go until the bound holds; the first chunk
\* kept starts at the least boundary that satisfies it.
Fits(b, c)         == b - (c - lo) <= MaxBytes
OffsetAfter(first) == IF first = lo THEN consumed ELSE 0
DropCount(first)   == IF first = lo THEN dropped ELSE dropped + (first - lo) - consumed

AppendChunk ==
    /\ tpc = "have"
    /\ \E n \in 1..Chunk : \E M \in SUBSET (hi + 1 .. hi + n) :
       LET all   == cuts \cup {hi + n}
           first == Least({c \in all : Fits(bytes + n, c)})
       IN  /\ hi + n <= MaxStream
           /\ hi' = hi + n
           /\ cuts' = {c \in all : first <= c}
           /\ bytes' = bytes + n - (first - lo)
           /\ dropped' = DropCount(first)
           /\ consumed' = OffsetAfter(first)
           /\ marks' = marks \cup M
           /\ lost' = IF first = lo THEN lost ELSE lost \cup (rp + 1 .. first)
    /\ tpc' = "poll"
    /\ UNCHANGED <<error, stop, pc, snap, out, taken>>

\* SerialReader.stop, called by the session.
Stop ==
    /\ ~stop
    /\ stop' = TRUE
    /\ UNCHANGED <<buffer, tpc, error, pc, snap, history>>

-----------------------------------------------------------------------------
(* read_until. *)

Call(c) ==
    /\ pc[c] = "idle"
    /\ pc' = [pc EXCEPT ![c] = "look"]
    /\ UNCHANGED <<buffer, thread, snap, history>>

Occurrences == {e \in marks : rp + NeedleLen <= e /\ e <= hi}

\* Slips: the last occurrence is taken; what was taken of a chunk is forgotten.
LastMatch         == Greatest(Occurrences)
NoOffset(e, first) == 0

FirstMatch == Least(Occurrences)
\* _consume_locked: whole chunks go while they fit into what was taken, the rest
\* is the offset into the chunk the read position falls in.
StartAfter(e)      == Greatest({c \in cuts : c <= e})
OffsetIn(e, first) == e - first

\* Under the buffer lock: find, and consume up to the end of the match.
Find(c) ==
    /\ pc[c] = "look"
    /\ Occurrences # {}
    /\ LET e == FirstMatch  first == StartAfter(e) IN
          /\ cuts' = {x \in cuts : first <= x}
          /\ bytes' = bytes - (first - lo)
          /\ consumed' = OffsetIn(e, first)
          /\ out' = out \cup {<<rp, e>>}
          /\ taken' = taken + (e - rp)
    /\ pc' = [pc EXCEPT ![c] = "idle"]
    /\ UNCHANGED <<hi, dropped, thread, snap, marks, lost>>

Miss(c) ==
    /\ pc[c] = "look"
    /\ Occurrences = {}
    /\ snap' = [snap EXCEPT ![c] = <<rp, hi>>]
    /\ pc' = [pc EXCEPT ![c] = "check"]
    /\ UNCHANGED <<buffer, thread, history>>

\* After the lock is released: give up with the snapshot when the thread died,
\* was stopped, or the deadline passed ...
OverOnError == error  \* slip: a stopped reader keeps its consumers
Over        == error \/ stop
GiveUp(c) ==
    /\ pc[c] = "check"
    /\ pc' = [pc EXCEPT ![c] = "idle"]
    /\ UNCHANGED <<buffer, thread, snap, history>>

\* ... or sleep and look again.
Retry(c) ==
    /\ pc[c] = "check"
    /\ ~Over
    /\ pc' = [pc EXCEPT ![c] = "look"]
    /\ UNCHANGED <<buffer, thread, snap, history>>

-----------------------------------------------------------------------------
Next ==
    \/ ReadChunk \/ AppendChunk \/ ThreadEnds \/ Stop
    \/ \E c \in Consumers : Call(c) \/ Find(c) \/ Miss(c) \/ GiveUp(c) \/ Retry(c)

Spec == Init /\ [][Next]_vars

\* A waiting consumer keeps looping; the clock is not assumed to run out.
FairSpec == Spec /\ \A c \in Consumers :
    /\ WF_vars(Find(c) \/ Miss(c))
    /\ WF_vars(Over /\ GiveUp(c))
    /\ WF_vars(Retry(c))

-----------------------------------------------------------------------------
(* Properties. *)

\* The counter the eviction works with is the size of the deque, the offset
\* stays inside the first chunk, and the bound holds whatever was consumed.
BufferBounded ==
    /\ hi \in cuts
    /\ bytes = hi - lo
    /\ bytes <= MaxBytes
    /\ rp <= hi
    /\ consumed # 0 => \A c \in cuts : c = lo \/ rp < c

\* Every byte the device sent is accounted for once: still in the buffer,
\* consumed by read_until, or counted in dropped (stats() and tail() report it).
EveryByteAccounted == dropped + taken + (bytes - consumed) = hi

\* Two read_until calls, of one thread or of two, never get the same byte, nor
\* a byte that was reported lost.
NoByteTwice ==
    \A d \in out :
       /\ \A x \in d[1] + 1 .. d[2] : x \notin lost
       /\ \A f \in out : d # f => d[2] <= f[1] \/ f[2] <= d[1]

\* No occurrence of the pattern is passed over: once the read position is past
\* its end, it ended a delivery, or overlapped one, or lost a byte to eviction.
NoOccurrencePassedOver ==
    \A e \in marks : NeedleLen <= e /\ e <= rp =>
       \/ \E d \in out : e - NeedleLen < d[2] /\ d[2] <= e
       \/ \E x \in e - NeedleLen + 1 .. e : x \in lost

\* Consumers whose reader died or was stopped come back (read_until returns on
\* _error and on _stop, not only at its deadline).
DeadReaderReleasesConsumers ==
    \A c \in Consumers : (pc[c] # "idle" /\ (error \/ stop)) ~> pc[c] = "idle"

\* The buffer is a ByteFeed.
Feed == INSTANCE ByteFeed WITH sent <- hi, next <- rp
FeedSpec == Feed!Spec

=============================================================================
