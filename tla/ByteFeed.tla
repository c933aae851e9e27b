------------------------------ MODULE ByteFeed ------------------------------
(***************************************************************************)
(* What a background reader promises its consumers, without its chunks:    *)
(* the device's bytes are numbered 1, 2, ... as they arrive; a consumer is *)
(* handed, in order and once, the bytes up to the next occurrence of its   *)
(* pattern; bytes may be lost, but only the oldest ones, never those that  *)
(* have just arrived, and never more than MaxBytes are held.               *)
(***************************************************************************)
EXTENDS Naturals

CONSTANTS MaxBytes,   \* the bound of the buffer
          Chunk,      \* the largest read of the background thread
          NeedleLen,  \* length of the pattern the consumers wait for
          MaxStream   \* bound: bytes the device ever sends

VARIABLES sent,   \* bytes that have arrived
          next,   \* bytes that are gone: delivered or lost
          marks,  \* positions at which an occurrence of the pattern ends
          lost,   \* positions lost before a consumer saw them
          out     \* the deliveries, each as <<bytes before it, its last byte>>

vars == <<sent, next, marks, lost, out>>

Init ==
    /\ sent = 0
    /\ next = 0
    /\ marks = {}
    /\ lost = {}
    /\ out = {}

\* The occurrences that lie wholly in the bytes from+1 .. to.
Occurrences(from, to) == {e \in marks : from + NeedleLen <= e /\ e <= to}

Arrive ==
    /\ \E n \in 1..Chunk :
          /\ sent + n <= MaxStream
          /\ sent' = sent + n
          /\ \E M \in SUBSET (sent + 1 .. sent + n) : marks' = marks \cup M
    /\ next' \in next..sent
    /\ sent' - next' <= MaxBytes
    /\ lost' = lost \cup (next + 1 .. next')
    /\ UNCHANGED out

Deliver ==
    /\ \E e \in Occurrences(next, sent) :
          /\ \A d \in Occurrences(next, sent) : e <= d
          /\ next' = e
          /\ out' = out \cup {<<next, e>>}
    /\ UNCHANGED <<sent, marks, lost>>

Next == Arrive \/ Deliver
Spec == Init /\ [][Next]_vars

=============================================================================
