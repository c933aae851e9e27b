----------------------------- MODULE ToolsProofs -----------------------------
(***************************************************************************)
(* Tools, proved for every number of callers, files and sessions, and      *)
(* every quota, rate and deadline.                                         *)
(***************************************************************************)
EXTENDS Tools, FiniteSetTheorems, TLAPS

-----------------------------------------------------------------------------
(* Types. *)

\* The places of a caller that has its session, and the others.
InCall == {"gate", "deadline", "device", "lock", "files", "put", "emit"}
Places == InCall \cup {"idle", "build", "take", "forget"}

Links == [open : BOOLEAN, started : Nat, window : Nat \cup {NIL}, used : Nat,
          passes : Seq(Nat), ok : Nat]

Outcomes == {"none", "ok", "crash", "closed", "rate", "stale", "failed", "quota", "unjournaled"}

ServerTypes ==
    /\ current \in 0..built /\ built \in 0..MaxSessions /\ closed \subseteq 1..built
    /\ singleton \in Callers \cup {NIL}
CallTypes ==
    /\ pc \in [Callers -> Places]
    /\ op \in [Callers -> ToolCalls \cup {NIL}]
    /\ mine \in [Callers -> 0..MaxSessions]
    /\ outcome \in [Callers -> Outcomes]
LinkTypes == link \in [Sessions -> Links] /\ now \in Nat /\ ops \in Nat
TreeTypes ==
    /\ size \in [Files -> (0..MaxBytes) \cup {NIL}]
    /\ fsLock \in [Sessions -> Callers \cup {NIL}]
TypeOK == ServerTypes /\ CallTypes /\ LinkTypes /\ TreeTypes

\* A caller has a session, one of those built, exactly while its call is past the
\* lookup; it has a tool until then and from there on.
CallOK == \A c \in Callers :
    /\ pc[c] \in InCall <=> mine[c] # 0
    /\ mine[c] <= built
    /\ pc[c] \in InCall \cup {"build", "take"} => op[c] \in ToolCalls
    /\ pc[c] \in {"lock", "files", "put"} => op[c].tool # "io"
    /\ pc[c] = "put" => op[c].tool = "file_write"

LEMMA ToolFields ==
  ASSUME NEW o \in ToolCalls
  PROVE  /\ o.tool \in {"io", "file_write", "file_delete"}
         /\ o.tool # "io" => o.file \in Files
         /\ o.tool = "file_write" => o.bytes \in 1..MaxBytes
  BY DEF ToolCalls

LEMMA Constants ==
  /\ MaxBytes \in Nat /\ MaxFiles \in Nat /\ Period \in Nat /\ Idle \in Nat
  /\ MaxTime \in Nat /\ MaxOps \in Nat /\ MaxSessions \in Nat /\ MaxCalls \in Nat \ {0}
  BY ToolsAssumption

LEMMA EndsTypes ==
  ASSUME CallTypes, NEW c \in Callers, NEW how \in Outcomes, Ends(c, how)
  PROVE  CallTypes'
  BY Constants DEF CallTypes, Ends, Places

LEMMA GotoTypes ==
  ASSUME CallTypes, NEW c \in Callers, NEW place \in Places, Goto(c, place)
  PROVE  CallTypes'
  BY DEF CallTypes, Goto

\* The limiter's bookkeeping stays in its types.
LEMMA RatedTypes ==
  ASSUME TypeOK, NEW s \in Sessions
  PROVE  LET l == Rated(link[s]) IN
         /\ link[s] \in Links /\ l \in Links /\ l.passes = link[s].passes
         /\ [l EXCEPT !.passes = Append(@, now)] \in Links
<1>1. link[s] \in Links /\ now \in Nat
  BY DEF TypeOK, LinkTypes
<1>2. Rated(link[s]) \in Links /\ Rated(link[s]).passes = link[s].passes
  <2>1. ASSUME NEW l \in Links PROVE Rated(l) \in Links /\ Rated(l).passes = l.passes
    <3>1. CASE WindowOver(l)
      BY <1>1, <2>1, <3>1 DEF Rated, Links
    <3>2. CASE ~WindowOver(l)
      <4>1. l.used + 1 \in Nat
        BY <2>1 DEF Links
      <4>2. Rated(l) = [l EXCEPT !.used = l.used + 1]
        BY <3>2 DEF Rated
      <4>3. QED
        BY <4>1, <4>2, <2>1 DEF Links
    <3>3. QED
      BY <3>1, <3>2
  <2>2. QED
    BY <1>1, <2>1
<1>3. Append(Rated(link[s]).passes, now) \in Seq(Nat)
  BY <1>1, <1>2 DEF Links
<1>4. QED
  BY <1>1, <1>2, <1>3 DEF Links

\* A caller past the lookup has a session of the server, and a tool.
LEMMA Mine ==
  ASSUME TypeOK, CallOK, NEW c \in Callers, pc[c] \in InCall
  PROVE  /\ mine[c] \in Sessions /\ mine[c] \in 1..built
         /\ op[c] \in ToolCalls
  BY Constants DEF TypeOK, ServerTypes, CallTypes, CallOK, Sessions

LEMMA TypeStep ==
  ASSUME TypeOK, CallOK, [Next]_vars
  PROVE  TypeOK'
<1> USE DEF Places, InCall, Outcomes, server, call, tree
<1> ServerTypes /\ CallTypes /\ LinkTypes /\ TreeTypes
  BY DEF TypeOK
<1>1. CASE Tick \/ UNCHANGED vars
  <2>1. UNCHANGED <<server, call, link, ops, tree>> /\ now' \in {now, now + 1}
    BY <1>1 DEF Tick, vars
  <2>2. LinkTypes'
    BY <2>1 DEF LinkTypes
  <2>3. ServerTypes' /\ CallTypes' /\ TreeTypes'
    BY <2>1 DEF ServerTypes, CallTypes, TreeTypes
  <2>4. QED
    BY <2>2, <2>3 DEF TypeOK
<1>2. ASSUME NEW c \in Callers, Call(c) PROVE TypeOK'
  <2>1. CallTypes'
    BY <1>2 DEF Call, CallTypes
  <2>2. QED
    BY <1>2, <2>1 DEF Call, TypeOK, ServerTypes, LinkTypes, TreeTypes
<1>3. ASSUME NEW c \in Callers, Build(c) \/ ResetCloses(c) \/ ResetForgets(c) PROVE TypeOK'
  <2>1. CallTypes'
    BY <1>3, GotoTypes DEF Build, ResetCloses, ResetForgets
  <2>2. ServerTypes'
    <3>1. CASE Build(c)
      BY <3>1, Constants DEF Build, ServerTypes
    <3>2. CASE ResetCloses(c)
      BY <3>2, Constants DEF ResetCloses, ServerTypes
    <3>3. CASE ResetForgets(c)
      BY <3>3, Constants DEF ResetForgets, ServerTypes
    <3>4. QED
      BY <1>3, <3>1, <3>2, <3>3
  <2>3. QED
    BY <1>3, <2>1, <2>2 DEF Build, ResetCloses, ResetForgets, TypeOK, LinkTypes, TreeTypes
<1>4. ASSUME NEW c \in Callers, Take(c) PROVE TypeOK'
  <2>1. CallTypes'
    <3>1. CASE current = 0
      BY <1>4, <3>1, EndsTypes DEF Take
    <3>2. CASE current # 0
      BY <1>4, <3>2, Constants DEF Take, CallTypes, ServerTypes
    <3>3. QED
      BY <3>1, <3>2
  <2>2. QED
    BY <1>4, <2>1 DEF Take, TypeOK, ServerTypes, LinkTypes, TreeTypes
<1>5. ASSUME NEW c \in Callers, OpenLink(c) \/ RateGate(c) \/ DeviceOk(c) PROVE TypeOK'
  <2>1. CallTypes'
    BY <1>5, EndsTypes, GotoTypes DEF OpenLink, RateGate, DeviceOk
  <2>2. link' \in [Sessions -> Links]
    <3>1. CASE OpenLink(c)
      <4>1. [NoLink EXCEPT !.open = TRUE, !.started = now, !.ok = now] \in Links
        <5>1. <<>> \in Seq(Nat) /\ now \in Nat
          BY DEF LinkTypes
        <5>2. QED
          BY <5>1 DEF NoLink, Links
      <4>2. QED
        BY <3>1, <4>1 DEF OpenLink, LinkTypes
    <3>2. CASE RateGate(c)
      <4>1. mine[c] \in Sessions
        BY <3>2, Mine DEF RateGate, At
      <4>2. /\ Rated(link[mine[c]]) \in Links
            /\ [Rated(link[mine[c]]) EXCEPT !.passes = Append(@, now)] \in Links
        BY <4>1, RatedTypes
      <4>3. QED
        BY <3>2, <4>2 DEF RateGate, LinkTypes
    <3>3. CASE DeviceOk(c)
      BY <3>3 DEF DeviceOk, Links, LinkTypes
    <3>4. QED
      BY <1>5, <3>1, <3>2, <3>3
  <2>3. QED
    BY <1>5, <2>1, <2>2
    DEF OpenLink, RateGate, DeviceOk, TypeOK, ServerTypes, LinkTypes, TreeTypes
<1>6. ASSUME NEW c \in Callers, NoSession(c) \/ DeadlineGate(c) \/ DeviceFails(c) \/ FileGate(c)
                                \/ Emit(c)
      PROVE  TypeOK'
  <2>1. CallTypes'
    BY <1>6, EndsTypes, GotoTypes DEF NoSession, DeadlineGate, DeviceFails, FileGate, Emit
  <2>2. QED
    BY <1>6, <2>1
    DEF NoSession, DeadlineGate, DeviceFails, FileGate, Emit, TypeOK, ServerTypes, LinkTypes,
        TreeTypes
<1>7. ASSUME NEW c \in Callers, LockFiles(c) \/ CheckQuota(c) \/ Put(c) \/ Delete(c) PROVE TypeOK'
  <2>1. CallTypes'
    BY <1>7, EndsTypes, GotoTypes DEF LockFiles, CheckQuota, Put, Delete
  <2>2. fsLock' \in [Sessions -> Callers \cup {NIL}]
    BY <1>7 DEF LockFiles, CheckQuota, Put, Delete, Acquires, Releases, TreeTypes
  <2>3. size' \in [Files -> (0..MaxBytes) \cup {NIL}]
    <3>1. CASE Put(c)
      <4>1. op[c].bytes \in 1..MaxBytes
        BY <3>1, Mine, ToolFields DEF Put, CallOK
      <4>2. \A part \in 0..(op[c].bytes - 1) : part \in 0..MaxBytes
        BY <4>1, Constants
      <4>3. QED
        BY <3>1, <4>1, <4>2, Constants DEF Put, TreeTypes
    <3>2. QED
      BY <1>7, <3>1 DEF LockFiles, CheckQuota, Delete, TreeTypes
  <2>4. QED
    BY <1>7, <2>1, <2>2, <2>3
    DEF LockFiles, CheckQuota, Put, Delete, TypeOK, ServerTypes, LinkTypes, TreeTypes
<1>8. QED
  BY <1>1, <1>2, <1>3, <1>4, <1>5, <1>6, <1>7 DEF Next, Step

LEMMA CallStep ==
  ASSUME TypeOK, CallOK, [Next]_vars
  PROVE  CallOK'
<1> USE Constants DEF TypeOK, ServerTypes, CallTypes, CallOK, Places, InCall, server, call, tree
<1>1. CASE Tick \/ UNCHANGED vars
  BY <1>1 DEF Tick, vars
<1>2. ASSUME NEW c \in Callers, Call(c) PROVE CallOK'
  BY <1>2 DEF Call
<1>3. ASSUME NEW c \in Callers, ResetCloses(c) \/ ResetForgets(c) PROVE CallOK'
  BY <1>3 DEF ResetCloses, ResetForgets, Goto
<1>4. ASSUME NEW c \in Callers, Build(c) PROVE CallOK'
  BY <1>4 DEF Build, Goto
<1>5. ASSUME NEW c \in Callers, Take(c) PROVE CallOK'
  BY <1>5 DEF Take, Ends
<1>6. ASSUME NEW c \in Callers, OpenLink(c) \/ NoSession(c) \/ DeviceOk(c) \/ DeviceFails(c)
                                \/ Emit(c)
      PROVE  CallOK'
  <2>1. Ends(c, outcome'[c]) /\ UNCHANGED built
    BY <1>6 DEF OpenLink, NoSession, DeviceOk, DeviceFails, Emit, Ends
  <2>2. QED
    BY <2>1 DEF Ends
<1>7. ASSUME NEW c \in Callers, RateGate(c) \/ DeadlineGate(c) PROVE CallOK'
  BY <1>7 DEF RateGate, DeadlineGate, At, Ends, Goto
<1>8. ASSUME NEW c \in Callers, FileGate(c) \/ LockFiles(c) \/ CheckQuota(c) PROVE CallOK'
  BY <1>8 DEF FileGate, LockFiles, CheckQuota, At, Ends, Goto
<1>9. ASSUME NEW c \in Callers, Put(c) \/ Delete(c) PROVE CallOK'
  BY <1>9 DEF Put, Delete, At, Ends, Goto
<1>10. QED
  BY <1>1, <1>2, <1>3, <1>4, <1>5, <1>6, <1>7, <1>8, <1>9 DEF Next, Step

ToolsInv == TypeOK /\ CallOK

LEMMA InitTypes == Init => ToolsInv
<1> SUFFICES ASSUME Init PROVE ToolsInv
  OBVIOUS
<1> USE Constants DEF Init
<1>1. ServerTypes /\ CallTypes /\ TreeTypes
  BY DEF ServerTypes, CallTypes, TreeTypes, Places, Outcomes
<1>2. LinkTypes
  <2>1. <<>> \in Seq(Nat)
    OBVIOUS
  <2>2. NoLink \in Links
    BY <2>1 DEF NoLink, Links
  <2>3. QED
    BY <2>2 DEF LinkTypes
<1>3. CallOK
  BY DEF CallOK, InCall
<1>4. QED
  BY <1>1, <1>2, <1>3 DEF ToolsInv, TypeOK

\* Every call runs through its places with the session and the tool it took.
THEOREM ToolsTypes == Spec => []ToolsInv
<1>1. ToolsInv /\ [Next]_vars => ToolsInv'
  BY TypeStep, CallStep DEF ToolsInv
<1>2. QED
  BY <1>1, InitTypes, PTL DEF Spec

-----------------------------------------------------------------------------
(* One live session. *)

\* Only the current session can be live; a reset that is under way has closed it.
LiveInv ==
    /\ (1..built) \ closed \subseteq {current}
    /\ \A c \in Callers : pc[c] = "forget" => singleton = c /\ current \notin (1..built) \ closed

LEMMA LiveStep ==
  ASSUME TypeOK, LiveInv, [Next]_vars
  PROVE  LiveInv'
<1> USE DEF TypeOK, CallTypes, ServerTypes, LiveInv, server, call
<1>1. ASSUME NEW c \in Callers, Build(c) PROVE LiveInv'
  <2>1. \A d \in Callers : pc'[d] # "forget"
    BY <1>1, ToolsAssumption DEF Build, Goto
  <2>2. (1..built') \ closed' \subseteq {current'}
    BY <1>1 DEF Build
  <2>3. QED
    BY <2>1, <2>2
<1>2. ASSUME NEW c \in Callers, ResetCloses(c) PROVE LiveInv'
  <2>1. (1..built') \ closed' = {} /\ singleton' = c
    BY <1>2 DEF ResetCloses
  <2>2. \A d \in Callers : pc'[d] = "forget" => d = c
    BY <1>2, ToolsAssumption DEF ResetCloses, Goto
  <2>3. QED
    BY <2>1, <2>2
<1>3. ASSUME NEW c \in Callers, ResetForgets(c) PROVE LiveInv'
  <2>1. (1..built') \ closed' = {}
    BY <1>3 DEF ResetForgets
  <2>2. \A d \in Callers : pc'[d] # "forget"
    BY <1>3 DEF ResetForgets, Goto
  <2>3. QED
    BY <2>1, <2>2
<1>4. ASSUME UNCHANGED server, \A d \in Callers : pc'[d] = "forget" => pc[d] = "forget"
      PROVE  LiveInv'
  BY <1>4
<1>5. ASSUME NEW c \in Callers,
             \/ Call(c) \/ Take(c) \/ OpenLink(c) \/ NoSession(c) \/ RateGate(c) \/ DeadlineGate(c)
             \/ DeviceOk(c) \/ DeviceFails(c) \/ FileGate(c) \/ LockFiles(c) \/ CheckQuota(c)
             \/ Put(c) \/ Delete(c) \/ Emit(c)
      PROVE  UNCHANGED server /\ \A d \in Callers : pc'[d] = "forget" => pc[d] = "forget"
  BY <1>5 DEF Call, Take, OpenLink, NoSession, RateGate, DeadlineGate, DeviceOk, DeviceFails,
              FileGate, LockFiles, CheckQuota, Put, Delete, Emit, Ends, Goto
<1>6. CASE Tick \/ UNCHANGED vars
  BY <1>6, <1>4 DEF Tick, vars
<1>7. QED
  BY <1>1, <1>2, <1>3, <1>4, <1>5, <1>6 DEF Next, Step

\* Racing first calls and resets leave one session live at most: the second look is
\* made under the lock that the reset holds from its close to its forgetting.
THEOREM OneSession == Spec => []OneLiveSession
<1>1. Init => LiveInv
  BY DEF Init, LiveInv
<1>2. ToolsInv /\ LiveInv /\ [Next]_vars => LiveInv'
  BY LiveStep DEF ToolsInv
<1>3. LiveInv => OneLiveSession
  <2> SUFFICES ASSUME LiveInv PROVE OneLiveSession
    OBVIOUS
  <2>1. (1..built) \ closed \subseteq {current}
    BY DEF LiveInv
  <2>2. IsFiniteSet({current}) /\ Cardinality({current}) = 1
    BY FS_Singleton
  <2>3. /\ Cardinality((1..built) \ closed) <= Cardinality({current})
    BY <2>1, <2>2, FS_Subset
  <2>4. QED
    BY <2>2, <2>3 DEF OneLiveSession
<1>4. QED
  BY <1>1, <1>2, <1>3, ToolsTypes, PTL DEF Spec

-----------------------------------------------------------------------------
(* The quota. *)

\* A sandbox has one caller inside: who looks at the tree or writes it has the lock
\* of its session.
FilesLocked == \A c \in Callers : pc[c] \in {"files", "put"} => fsLock[mine[c]] = c

LEMMA LockStep ==
  ASSUME TypeOK, CallOK, FilesLocked, [Next]_vars
  PROVE  FilesLocked'
<1> USE ToolsAssumption DEF TypeOK, CallTypes, TreeTypes, FilesLocked, call, tree
<1>1. ASSUME NEW c \in Callers, LockFiles(c) PROVE FilesLocked'
  <2>1. mine[c] \in Sessions
    BY <1>1, Mine DEF LockFiles, InCall
  <2>2. ASSUME NEW d \in Callers, pc'[d] \in {"files", "put"} PROVE fsLock'[mine'[d]] = d
    <3>1. CASE d = c
      BY <1>1, <2>1, <3>1 DEF LockFiles, Acquires, Goto
    <3>2. CASE d # c
      <4>1. pc[d] \in {"files", "put"} /\ mine'[d] = mine[d]
        BY <1>1, <2>2, <3>2 DEF LockFiles, Goto
      <4>2. mine[d] \in Sessions /\ fsLock[mine[d]] = d
        BY <4>1, Mine DEF InCall
      <4>3. QED
        BY <1>1, <2>1, <3>2, <4>1, <4>2 DEF LockFiles, Acquires
    <3>3. QED
      BY <3>1, <3>2
  <2>3. QED
    BY <2>2
<1>2. ASSUME NEW c \in Callers, CheckQuota(c) \/ Put(c) \/ Delete(c) PROVE FilesLocked'
  <2>1. pc[c] \in {"files", "put"} /\ fsLock[mine[c]] = c
    BY <1>2 DEF CheckQuota, Put, Delete, At
  <2>2. fsLock' = fsLock \/ fsLock' = [fsLock EXCEPT ![mine[c]] = NIL]
    BY <1>2 DEF CheckQuota, Put, Delete, Releases
  <2>3. pc'[c] \in {"files", "put"} => fsLock' = fsLock /\ mine' = mine
    BY <1>2 DEF CheckQuota, Put, Delete, Ends, Goto
  <2>4. ASSUME NEW d \in Callers, pc'[d] \in {"files", "put"} PROVE fsLock'[mine'[d]] = d
    <3>1. CASE d = c
      BY <2>1, <2>3, <2>4, <3>1
    <3>2. CASE d # c
      <4>1. pc[d] \in {"files", "put"} /\ mine'[d] = mine[d]
        BY <1>2, <2>4, <3>2 DEF CheckQuota, Put, Delete, Ends, Goto
      <4>2. mine[d] \in Sessions /\ fsLock[mine[d]] = d
        BY <4>1, Mine DEF InCall
      <4>3. QED
        BY <2>1, <2>2, <3>2, <4>1, <4>2
    <3>3. QED
      BY <3>1, <3>2
  <2>5. QED
    BY <2>4
<1>3. ASSUME UNCHANGED fsLock,
             \A d \in Callers : pc'[d] \in {"files", "put"} =>
                 pc[d] \in {"files", "put"} /\ mine'[d] = mine[d]
      PROVE  FilesLocked'
  BY <1>3
<1>4. ASSUME NEW c \in Callers,
             \/ Call(c) \/ Build(c) \/ Take(c) \/ ResetCloses(c) \/ ResetForgets(c) \/ OpenLink(c)
             \/ NoSession(c) \/ RateGate(c) \/ DeadlineGate(c) \/ DeviceOk(c) \/ DeviceFails(c)
             \/ FileGate(c) \/ Emit(c)
      PROVE  /\ UNCHANGED <<fsLock, size>>
             /\ \A d \in Callers : pc'[d] \in {"files", "put"} =>
                    pc[d] \in {"files", "put"} /\ mine'[d] = mine[d]
  BY <1>4 DEF Call, Build, Take, ResetCloses, ResetForgets, OpenLink, NoSession, RateGate,
              DeadlineGate, DeviceOk, DeviceFails, FileGate, Emit, Ends, Goto
<1>5. CASE Tick \/ UNCHANGED vars
  BY <1>5, <1>3 DEF Tick, vars
<1>6. QED
  BY <1>1, <1>2, <1>3, <1>4, <1>5 DEF Next, Step

\* What is stored, and that it can be counted.
LEMMA StoredIs ==
  ASSUME TreeTypes
  PROVE  /\ \A x : x \in Stored <=> \E f \in Files : size[f] # NIL /\ x \in {f} \X (1..size[f])
         /\ Stored \subseteq Files \X (1..MaxBytes)
         /\ IsFiniteSet(Stored) /\ UsedBytes \in Nat
         /\ IsFiniteSet(Present) /\ Cardinality(Present) \in Nat
<1>1. \A x : x \in Stored <=> \E f \in Files : size[f] # NIL /\ x \in {f} \X (1..size[f])
  BY DEF Stored, Present, Bytes
<1>2. Stored \subseteq Files \X (1..MaxBytes)
  <2>1. ASSUME NEW x \in Stored PROVE x \in Files \X (1..MaxBytes)
    <3>1. PICK f \in Files : size[f] # NIL /\ x \in {f} \X (1..size[f])
      BY <1>1, <2>1
    <3>2. size[f] \in 0..MaxBytes
      BY <3>1 DEF TreeTypes
    <3>3. \A k \in 1..size[f] : k \in 1..MaxBytes
      BY <3>2, Constants
    <3>4. QED
      BY <3>1, <3>3
  <2>2. QED
    BY <2>1
<1>3. IsFiniteSet(Files \X (1..MaxBytes))
  <2>1. IsFiniteSet(1..MaxBytes)
    BY Constants, FS_Interval
  <2>2. QED
    BY <2>1, ToolsAssumption, FS_Product
<1>4. IsFiniteSet(Stored) /\ UsedBytes \in Nat
  BY <1>2, <1>3, FS_Subset, FS_CardinalityType DEF UsedBytes
<1>5. IsFiniteSet(Present) /\ Cardinality(Present) \in Nat
  <2>1. Present \subseteq Files
    BY DEF Present
  <2>2. QED
    BY <2>1, ToolsAssumption, FS_Subset, FS_CardinalityType
<1>6. QED
  BY <1>1, <1>2, <1>4, <1>5

\* The bytes of one file from one offset to another, counted.
LEMMA Stretch ==
  ASSUME NEW f, NEW i \in Nat, NEW j \in Nat, i <= j
  PROVE  IsFiniteSet({f} \X (i + 1 .. j)) /\ Cardinality({f} \X (i + 1 .. j)) = j - i
<1> DEFINE D == i + 1 .. j
           g == [k \in D |-> <<f, k>>]
<1>1. IsFiniteSet(D) /\ Cardinality(D) = j - i
  <2>1. i + 1 \in Int /\ j \in Int
    OBVIOUS
  <2>2. IsFiniteSet(D) /\ Cardinality(D) = IF i + 1 > j THEN 0 ELSE j - (i + 1) + 1
    BY <2>1, FS_Interval
  <2>3. QED
    BY <2>2
<1>2. g \in Bijection(D, {f} \X D)
  <2> HIDE DEF D
  <2>1. \A k \in D : g[k] = <<f, k>>
    OBVIOUS
  <2>2. g \in [D -> {f} \X D]
    OBVIOUS
  <2>3. \A k, l \in D : g[k] = g[l] => k = l
    BY <2>1
  <2>4. \A x \in {f} \X D : \E k \in D : g[k] = x
    BY <2>1
  <2> HIDE DEF g
  <2>5. QED
    BY <2>2, <2>3, <2>4 DEF Bijection, Injection, Surjection, IsInjective
<1>3. ExistsBijection(D, {f} \X D)
  BY <1>2 DEF ExistsBijection
<1> HIDE DEF g, D
<1>4. IsFiniteSet({f} \X D) /\ Cardinality({f} \X D) = Cardinality(D)
  BY <1>1, <1>3, FS_Bijection
<1>5. QED
  BY <1>1, <1>4 DEF D

\* A write takes at most what it adds, wherever it stops; the file then exists.
LEMMA PutAdds ==
  ASSUME TreeTypes, TreeTypes', NEW f \in Files, NEW n \in 0..MaxBytes,
         size' = [size EXCEPT ![f] = n]
  PROVE  /\ UsedBytes' <= UsedBytes + (IF n > Bytes(f) THEN n - Bytes(f) ELSE 0)
         /\ UsedBytes' \in Nat
         /\ Present' = Present \cup {f}
<1> DEFINE b == Bytes(f)
           More == IF n > b THEN {f} \X (b + 1 .. n) ELSE {}
           more == IF n > b THEN n - b ELSE 0
<1>1. b \in Nat /\ n \in Nat /\ n # NIL
  BY Constants, ToolsAssumption DEF TreeTypes, Bytes
<1>2. IsFiniteSet(More) /\ Cardinality(More) = more
  <2>1. CASE n > b
    <3> HIDE DEF b
    <3>1. b <= n
      BY <1>1, <2>1
    <3>2. QED
      BY <1>1, <2>1, <3>1, Stretch
  <2>2. CASE ~(n > b)
    BY <2>2, FS_EmptySet
  <2>3. QED
    BY <2>1, <2>2
<1>3. Stored' \subseteq Stored \cup More
  <2>1. ASSUME NEW x \in Stored' PROVE x \in Stored \cup More
    <3>1. PICK g \in Files : size'[g] # NIL /\ x \in {g} \X (1..size'[g])
      <4>1. \A y : y \in Stored' <=> \E g \in Files : size'[g] # NIL /\ y \in {g} \X (1..size'[g])
        BY DEF Stored, Present, Bytes, TreeTypes
      <4>2. QED
        BY <2>1, <4>1
    <3>2. CASE g # f
      <4>1. size'[g] = size[g]
        BY <3>2 DEF TreeTypes
      <4>2. QED
        BY <3>1, <4>1, StoredIs
    <3>3. CASE g = f
      <4>1. size'[f] = n
        BY DEF TreeTypes
      <4>2. PICK k \in 1..n : x = <<f, k>>
        BY <3>1, <3>3, <4>1
      <4>3. CASE k <= b
        <5>1. size[f] # NIL /\ k \in 1..size[f]
          BY <1>1, <4>2, <4>3 DEF Bytes
        <5>2. x \in {f} \X (1..size[f])
          BY <4>2, <5>1
        <5>3. QED
          BY <5>1, <5>2, StoredIs
      <4>4. CASE ~(k <= b)
        <5>1. n > b /\ k \in b + 1 .. n
          BY <1>1, <4>2, <4>4
        <5>2. QED
          BY <4>2, <5>1
      <4>5. QED
        BY <4>3, <4>4
    <3>4. QED
      BY <3>2, <3>3
  <2>2. QED
    BY <2>1
<1> HIDE DEF More
<1>4. /\ IsFiniteSet(Stored \cup More)
      /\ Cardinality(Stored \cup More) <= UsedBytes + more
  <2>1. IsFiniteSet(Stored) /\ UsedBytes = Cardinality(Stored) /\ UsedBytes \in Nat
    BY StoredIs DEF UsedBytes
  <2>2. Cardinality(Stored \cap More) \in Nat
    BY <2>1, FS_Intersection, FS_CardinalityType
  <2>3. /\ IsFiniteSet(Stored \cup More)
        /\ Cardinality(Stored \cup More)
             = Cardinality(Stored) + Cardinality(More) - Cardinality(Stored \cap More)
    BY <1>2, <2>1, FS_Union
  <2>4. more \in Nat
    BY <1>1
  <2> HIDE DEF more
  <2>5. QED
    BY <1>2, <2>1, <2>2, <2>3, <2>4
<1>5. UsedBytes' <= Cardinality(Stored \cup More)
  BY <1>3, <1>4, FS_Subset DEF UsedBytes
<1>6. UsedBytes' \in Nat /\ UsedBytes \in Nat /\ Cardinality(Stored \cup More) \in Nat /\ more \in Nat
  <2>1. IsFiniteSet(Stored')
    BY <1>3, <1>4, FS_Subset
  <2>2. QED
    BY <1>1, <1>4, <2>1, StoredIs, FS_CardinalityType DEF UsedBytes
<1>7. Present' = Present \cup {f}
  BY <1>1 DEF Present, TreeTypes
<1>8. UsedBytes' <= UsedBytes + more
  <2> HIDE DEF more
  <2>1. QED
    BY <1>4, <1>5, <1>6
<1>9. QED
  BY <1>6, <1>7, <1>8

\* With one session there is one lock: what a check allowed still fits when its
\* caller writes.
QuotaInv ==
    /\ QuotaKept
    /\ built <= 1 => \A c \in Callers : pc[c] = "put" => Fits(op[c])

\* With one session, nobody else is between the check and the write.
LEMMA OneInside ==
  ASSUME ToolsInv, FilesLocked, built <= 1, NEW c \in Callers, NEW d \in Callers,
         pc[c] \in {"files", "put"}, pc[d] \in {"files", "put"}
  PROVE  c = d
<1>1. mine[c] \in 1..built /\ mine[d] \in 1..built /\ built \in Nat
  BY Mine, Constants DEF ToolsInv, TypeOK, ServerTypes, InCall
<1>2. mine[c] = mine[d]
  BY <1>1
<1>3. QED
  BY <1>2 DEF FilesLocked

LEMMA PutKeeps ==
  ASSUME ToolsInv, TreeTypes', FilesLocked, QuotaInv, NEW c \in Callers, Put(c)
  PROVE  QuotaInv'
<1> DEFINE o == op[c]
<1>1. TypeOK /\ TreeTypes /\ built' = built
  BY DEF ToolsInv, TypeOK, Put, server
<1>2. pc[c] = "put" /\ o.file \in Files /\ o.bytes \in 1..MaxBytes
  BY Mine, ToolFields DEF ToolsInv, Put, CallOK, InCall
<1>3. PICK n \in 0..o.bytes : size' = [size EXCEPT ![o.file] = n]
  <2>1. o.bytes \in 0..o.bytes /\ 0..(o.bytes - 1) \subseteq 0..o.bytes
    BY <1>2
  <2>2. QED
    BY <2>1 DEF Put
<1>4. ASSUME built <= 1, NEW d \in Callers PROVE pc'[d] # "put"
  <2>1. CASE d = c
    BY <2>1 DEF Put, Goto, Ends, ToolsInv, TypeOK, CallTypes
  <2>2. CASE d # c
    <3>1. pc'[d] = pc[d]
      BY <2>2 DEF Put, Goto, Ends, ToolsInv, TypeOK, CallTypes
    <3>2. QED
      BY <1>2, <1>4, <2>2, <3>1, OneInside
  <2>3. QED
    BY <2>1, <2>2
<1>5. ASSUME built <= 1
      PROVE  UsedBytes' <= MaxBytes /\ Cardinality(Present') <= MaxFiles
  <2>1. Fits(o)
    BY <1>2, <1>5 DEF QuotaInv
  <2>2. n \in 0..MaxBytes /\ n \in Nat /\ o.bytes \in Nat /\ n <= o.bytes
    BY <1>2, <1>3, Constants
  <2>3. /\ UsedBytes' <= UsedBytes + (IF n > Bytes(o.file) THEN n - Bytes(o.file) ELSE 0)
        /\ UsedBytes' \in Nat
        /\ Present' = Present \cup {o.file}
    BY <1>1, <1>2, <1>3, <2>2, PutAdds
  <2>4. UsedBytes + Adds(o) <= MaxBytes /\ Cardinality(Present \cup {o.file}) <= MaxFiles
    BY <2>1 DEF Fits
  <2>5. Bytes(o.file) \in Nat
    BY <1>1, <1>2, Constants DEF TreeTypes, Bytes
  <2>6. (IF n > Bytes(o.file) THEN n - Bytes(o.file) ELSE 0) <= Adds(o) /\ Adds(o) \in Nat
    BY <2>2, <2>5 DEF Adds
  <2>7. UsedBytes \in Nat /\ UsedBytes' \in Nat
    BY <1>1, <2>3, StoredIs
  <2>8. UsedBytes' <= MaxBytes
    <3> DEFINE more == IF n > Bytes(o.file) THEN n - Bytes(o.file) ELSE 0
    <3>1. more \in Nat /\ more <= Adds(o)
      BY <2>2, <2>5, <2>6
    <3>2. UsedBytes' <= UsedBytes + more
      BY <2>3
    <3> HIDE DEF more
    <3>3. QED
      BY <2>4, <2>6, <2>7, <3>1, <3>2, Constants
  <2>9. QED
    BY <2>3, <2>4, <2>8
<1>6. QED
  BY <1>1, <1>4, <1>5 DEF QuotaInv, QuotaKept

LEMMA DeleteKeeps ==
  ASSUME ToolsInv, TreeTypes', FilesLocked, QuotaInv, NEW c \in Callers, Delete(c)
  PROVE  QuotaInv'
<1>1. TypeOK /\ TreeTypes /\ CallTypes /\ built' = built /\ pc[c] = "files"
  BY DEF ToolsInv, TypeOK, Delete, At, server
<1>2. size' = size \/ size' = [size EXCEPT ![op[c].file] = NIL]
  BY DEF Delete
<1>3. ASSUME built <= 1, NEW d \in Callers PROVE pc'[d] # "put"
  <2>1. CASE d = c
    BY <2>1, <1>1 DEF Delete, Goto, Ends, CallTypes
  <2>2. CASE d # c
    <3>1. pc'[d] = pc[d]
      BY <2>2, <1>1 DEF Delete, Goto, Ends, CallTypes
    <3>2. QED
      BY <1>1, <1>3, <2>2, <3>1, OneInside
  <2>3. QED
    BY <2>1, <2>2
<1>4. Stored' \subseteq Stored /\ Present' \subseteq Present
  <2>1. \A f \in Files : size'[f] = NIL \/ size'[f] = size[f]
    BY <1>1, <1>2 DEF TreeTypes
  <2>2. QED
    BY <2>1 DEF Stored, Present, Bytes
<1>5. UsedBytes' <= UsedBytes /\ Cardinality(Present') <= Cardinality(Present)
  BY <1>1, <1>4, StoredIs, FS_Subset DEF UsedBytes
<1>6. /\ UsedBytes \in Nat /\ UsedBytes' \in Nat /\ Cardinality(Present) \in Nat
      /\ Cardinality(Present') \in Nat
  <2>1. IsFiniteSet(Stored') /\ IsFiniteSet(Present')
    BY <1>1, <1>4, StoredIs, FS_Subset
  <2>2. QED
    BY <1>1, <2>1, StoredIs, FS_CardinalityType DEF UsedBytes
<1>7. built <= 1 => UsedBytes' <= MaxBytes /\ Cardinality(Present') <= MaxFiles
  BY <1>5, <1>6, Constants DEF QuotaInv, QuotaKept
<1>8. QED
  BY <1>1, <1>3, <1>7 DEF QuotaInv, QuotaKept

LEMMA QuotaStep ==
  ASSUME ToolsInv, ToolsInv', FilesLocked, QuotaInv, [Next]_vars
  PROVE  QuotaInv'
<1> USE DEF ToolsInv, TypeOK, CallTypes
<1>1. ASSUME NEW c \in Callers, Put(c) PROVE QuotaInv'
  BY <1>1, PutKeeps
<1>2. ASSUME NEW c \in Callers, Delete(c) PROVE QuotaInv'
  BY <1>2, DeleteKeeps
<1>3. ASSUME size' = size, built <= built' \/ built' = built,
             \A d \in Callers : pc'[d] = "put" => op'[d] = op[d] /\ (pc[d] = "put" \/ Fits(op[d]))
      PROVE  QuotaInv'
  <2>1. UsedBytes' = UsedBytes /\ Present' = Present
    BY <1>3 DEF UsedBytes, Stored, Present, Bytes
  <2>2. built' <= 1 => built <= 1
    BY <1>3, Constants DEF ServerTypes
  <2>3. \A d \in Callers : Fits(op[d])' <=> Fits(op'[d])
    BY <1>3, <2>1 DEF Fits, Adds, Bytes
  <2>4. QED
    BY <1>3, <2>1, <2>2, <2>3 DEF QuotaInv, QuotaKept
<1>4. ASSUME NEW c \in Callers, CheckQuota(c)
      PROVE  /\ size' = size /\ built' = built
             /\ \A d \in Callers : pc'[d] = "put" => op'[d] = op[d] /\ (pc[d] = "put" \/ Fits(op[d]))
  BY <1>4 DEF CheckQuota, Goto, Ends, server
<1>5. ASSUME NEW c \in Callers,
             \/ Call(c) \/ Take(c) \/ ResetCloses(c) \/ ResetForgets(c) \/ OpenLink(c)
             \/ NoSession(c) \/ RateGate(c) \/ DeadlineGate(c) \/ DeviceOk(c) \/ DeviceFails(c)
             \/ FileGate(c) \/ LockFiles(c) \/ Emit(c)
      PROVE  /\ size' = size /\ built' = built
             /\ \A d \in Callers : pc'[d] = "put" => op'[d] = op[d] /\ pc[d] = "put"
  BY <1>5
     DEF Call, Take, ResetCloses, ResetForgets, OpenLink, NoSession, RateGate,
         DeadlineGate, DeviceOk, DeviceFails, FileGate, LockFiles, Emit, Ends, Goto, server, tree
<1>6. ASSUME NEW c \in Callers, Build(c)
      PROVE  /\ size' = size /\ (built <= built' \/ built' = built)
             /\ \A d \in Callers : pc'[d] = "put" => op'[d] = op[d] /\ pc[d] = "put"
  BY <1>6, Constants DEF Build, Goto, ServerTypes, tree
<1>7. CASE Tick \/ UNCHANGED vars
  <2>1. size' = size /\ built' = built /\ pc' = pc /\ op' = op
    BY <1>7 DEF Tick, vars, server, call, tree
  <2>2. QED
    BY <2>1, <1>3
<1>8. QED
  BY <1>1, <1>2, <1>3, <1>4, <1>5, <1>7, <1>6 DEF Next, Step

\* Writers who each fit the quota keep it together, a short write keeps it, and so
\* does an overwrite that shrinks: the check and the write are under one lock.
THEOREM QuotaHolds == Spec => []QuotaKept
<1>1. Init => FilesLocked /\ QuotaInv
  <2> SUFFICES ASSUME Init PROVE FilesLocked /\ QuotaInv
    OBVIOUS
  <2>1. Present = {}
    BY DEF Init, Present
  <2>2. Stored = {}
    BY <2>1 DEF Stored
  <2>3. UsedBytes = 0 /\ Cardinality(Present) = 0
    BY <2>1, <2>2, FS_EmptySet DEF UsedBytes
  <2>4. QED
    BY <2>3, Constants DEF Init, FilesLocked, QuotaInv, QuotaKept
<1>2. ToolsInv /\ FilesLocked /\ [Next]_vars => FilesLocked'
  BY LockStep DEF ToolsInv
<1>3. ToolsInv /\ ToolsInv' /\ FilesLocked /\ QuotaInv /\ [Next]_vars => QuotaInv'
  BY QuotaStep
<1>4. QuotaInv => QuotaKept
  BY DEF QuotaInv
<1>5. QED
  BY <1>1, <1>2, <1>3, <1>4, ToolsTypes, PTL DEF Spec

-----------------------------------------------------------------------------
(* Denials. *)

\* The calls that passed the limiter since its window began are those it counted,
\* up to the limit; the deadline counts from the last success.
SinceWindow(l) == {k \in DOMAIN l.passes : l.passes[k] >= l.window}
Counted(l) ==
    /\ l.started = l.ok
    /\ l.window # NIL =>
         /\ l.window <= now
         /\ Cardinality(SinceWindow(l)) >= l.used \/ Cardinality(SinceWindow(l)) >= MaxCalls
RateInv == \A s \in Sessions : Counted(link[s])

LEMMA PassesFinite ==
  ASSUME NEW l \in Links
  PROVE  /\ DOMAIN l.passes = 1..Len(l.passes) /\ Len(l.passes) \in Nat
         /\ IsFiniteSet(DOMAIN l.passes)
         /\ IsFiniteSet(SinceWindow(l)) /\ Cardinality(SinceWindow(l)) \in Nat
         /\ \A k \in DOMAIN l.passes : l.passes[k] \in Nat
<1>1. l.passes \in Seq(Nat)
  BY DEF Links
<1>2. /\ DOMAIN l.passes = 1..Len(l.passes) /\ Len(l.passes) \in Nat
      /\ \A k \in DOMAIN l.passes : l.passes[k] \in Nat
  BY <1>1
<1>3. IsFiniteSet(DOMAIN l.passes)
  BY <1>2, FS_Interval
<1>4. SinceWindow(l) \subseteq DOMAIN l.passes
  BY DEF SinceWindow
<1>5. QED
  BY <1>2, <1>3, <1>4, FS_Subset, FS_CardinalityType

\* A call that passes is one more since the window began.
LEMMA PassCounts ==
  ASSUME now \in Nat, NEW l \in Links, Counted(l), Rated(l) \in Links,
         NEW m, m = [Rated(l) EXCEPT !.passes = Append(@, now)], m \in Links,
         Rated(l).used <= MaxCalls
  PROVE  Counted(m)
<1> DEFINE n == Len(l.passes)
<1>1. /\ l.passes \in Seq(Nat) /\ DOMAIN l.passes = 1..n /\ n \in Nat
      /\ \A k \in 1..n : l.passes[k] \in Nat
  BY PassesFinite DEF Links
<1>2. /\ m.passes = Append(l.passes, now) /\ m.window = Rated(l).window /\ m.used = Rated(l).used
      /\ m.started = l.started /\ m.ok = l.ok
  BY DEF Rated, Links
<1>3. /\ DOMAIN m.passes = 1..(n + 1) /\ m.passes[n + 1] = now
      /\ \A k \in 1..n : m.passes[k] = l.passes[k]
  BY <1>1, <1>2
<1>4. IsFiniteSet(SinceWindow(m)) /\ Cardinality(SinceWindow(m)) \in Nat
  BY PassesFinite
<1> HIDE DEF n
<1>5. CASE WindowOver(l)
  <2>1. m.window = now /\ m.used = 1
    BY <1>2, <1>5 DEF Rated, Links
  <2>2. {n + 1} \subseteq SinceWindow(m)
    BY <1>1, <1>3, <2>1 DEF SinceWindow
  <2>3. Cardinality({n + 1}) <= Cardinality(SinceWindow(m)) /\ Cardinality({n + 1}) = 1
    BY <1>4, <2>2, FS_Subset, FS_Singleton
  <2>4. QED
    BY <1>2, <1>4, <2>1, <2>3 DEF Counted
<1>6. CASE ~WindowOver(l)
  <2>1. /\ m.window = l.window /\ m.used = l.used + 1 /\ l.window # NIL
        /\ l.window \in Nat /\ l.used \in Nat /\ l.window <= now
    BY <1>2, <1>6 DEF Rated, Links, WindowOver, Counted
  <2>2. SinceWindow(l) \subseteq 1..n /\ n + 1 \notin SinceWindow(l)
    BY <1>1 DEF SinceWindow
  <2>3. SinceWindow(m) = SinceWindow(l) \cup {n + 1}
    BY <1>1, <1>3, <2>1 DEF SinceWindow
  <2>4. Cardinality(SinceWindow(m)) = Cardinality(SinceWindow(l)) + 1
    BY <2>2, <2>3, PassesFinite, FS_AddElement
  <2>5. Cardinality(SinceWindow(l)) \in Nat
    BY PassesFinite
  <2>6. Cardinality(SinceWindow(l)) >= l.used \/ Cardinality(SinceWindow(l)) >= MaxCalls
    BY <2>1 DEF Counted
  <2>7. Cardinality(SinceWindow(m)) >= m.used \/ Cardinality(SinceWindow(m)) >= MaxCalls
    BY <2>1, <2>4, <2>5, <2>6, Constants
  <2>8. QED
    BY <1>2, <2>1, <2>7 DEF Counted
<1>7. QED
  BY <1>5, <1>6

\* A call that is denied finds the window running and the limit used up in it.
LEMMA DenialCounts ==
  ASSUME now \in Nat, NEW l \in Links, Counted(l), Rated(l).used > MaxCalls
  PROVE  /\ ~WindowOver(l) /\ l.window \in Nat
         /\ Cardinality(SinceWindow(l)) >= MaxCalls
         /\ Counted(Rated(l))
<1>1. ~WindowOver(l)
  BY Constants DEF Rated, Links
<1>2. /\ Rated(l) = [l EXCEPT !.used = l.used + 1] /\ l.used \in Nat /\ l.window # NIL
      /\ l.window \in Nat
  BY <1>1 DEF Rated, Links, WindowOver
<1>3. /\ Rated(l).passes = l.passes /\ Rated(l).window = l.window /\ Rated(l).used = l.used + 1
      /\ Rated(l).started = l.started /\ Rated(l).ok = l.ok
  BY <1>2 DEF Links
<1>4. SinceWindow(Rated(l)) = SinceWindow(l)
  BY <1>3 DEF SinceWindow
<1>5. Cardinality(SinceWindow(l)) >= MaxCalls
  <2>1. Cardinality(SinceWindow(l)) \in Nat
    BY PassesFinite
  <2>2. Cardinality(SinceWindow(l)) >= l.used \/ Cardinality(SinceWindow(l)) >= MaxCalls
    BY <1>2 DEF Counted
  <2>3. QED
    BY <1>2, <1>3, <2>1, <2>2, Constants
<1>6. QED
  BY <1>1, <1>2, <1>3, <1>4, <1>5 DEF Counted

LEMMA RateStep ==
  ASSUME ToolsInv, RateInv, [Next]_vars
  PROVE  RateInv'
<1>1. LinkTypes /\ TypeOK
  BY DEF ToolsInv, TypeOK
<1>2. now \in Nat /\ \A s \in Sessions : link[s] \in Links
  BY <1>1 DEF LinkTypes
<1>3. ASSUME NEW c \in Callers, RateGate(c) PROVE RateInv'
  <2> DEFINE l == link[mine[c]]
             m == [Rated(l) EXCEPT !.passes = Append(@, now)]
  <2>1. mine[c] \in Sessions
    BY <1>3, Mine DEF RateGate, At, ToolsInv, InCall
  <2>2. l \in Links /\ Rated(l) \in Links /\ m \in Links /\ Counted(l)
    BY <2>1, <1>1, RatedTypes DEF RateInv
  <2>3. CASE Rated(l).used > MaxCalls
    <3>1. Counted(Rated(l))
      BY <1>2, <2>2, <2>3, DenialCounts
    <3>2. link' = [link EXCEPT ![mine[c]] = Rated(l)] /\ now' = now
      BY <1>3, <2>3 DEF RateGate
    <3> HIDE DEF l
    <3>3. \A s \in Sessions : Counted(link'[s])
      BY <1>1, <2>1, <3>1, <3>2 DEF RateInv, LinkTypes
    <3>4. QED
      BY <3>2, <3>3 DEF RateInv, Counted
  <2>4. CASE ~(Rated(l).used > MaxCalls)
    <3>1. Rated(l).used <= MaxCalls
      BY <2>2, <2>4, Constants DEF Links
    <3>2. Counted(m)
      BY <1>2, <2>2, <3>1, PassCounts
    <3>3. link' = [link EXCEPT ![mine[c]] = m] /\ now' = now
      BY <1>3, <2>4 DEF RateGate
    <3> HIDE DEF l, m
    <3>4. \A s \in Sessions : Counted(link'[s])
      BY <1>1, <2>1, <3>2, <3>3 DEF RateInv, LinkTypes
    <3>5. QED
      BY <3>3, <3>4 DEF RateInv, Counted
  <2>5. QED
    BY <2>3, <2>4
<1>4. ASSUME NEW c \in Callers, OpenLink(c) \/ DeviceOk(c) PROVE RateInv'
  <2>1. now' = now
    BY <1>4 DEF OpenLink, DeviceOk
  <2>2. ASSUME NEW s \in Sessions PROVE Counted(link'[s])
    <3>1. CASE link'[s] = link[s]
      BY <3>1 DEF RateInv
    <3>2. CASE link'[s] = [NoLink EXCEPT !.open = TRUE, !.started = now, !.ok = now]
      <4>1. link'[s].started = now /\ link'[s].ok = now /\ link'[s].window = NIL
        BY <3>2 DEF NoLink
      <4>2. QED
        BY <4>1 DEF Counted
    <3>3. CASE link'[s] = [link[s] EXCEPT !.started = now, !.ok = now]
      <4>1. /\ link'[s].started = now /\ link'[s].ok = now
            /\ link'[s].window = link[s].window /\ link'[s].used = link[s].used
            /\ link'[s].passes = link[s].passes
        BY <1>2, <3>3 DEF Links
      <4>2. Counted(link[s])
        BY DEF RateInv
      <4>3. QED
        BY <4>1, <4>2 DEF Counted, SinceWindow
    <3>4. QED
      BY <1>1, <1>4, <3>1, <3>2, <3>3 DEF OpenLink, DeviceOk, LinkTypes
  <2>3. QED
    BY <2>1, <2>2 DEF RateInv, Counted
<1>5. ASSUME link' = link, now' \in {now, now + 1} PROVE RateInv'
  <2>1. ASSUME NEW s \in Sessions PROVE Counted(link[s])'
    <3>1. Counted(link[s]) /\ link[s] \in Links
      BY <1>2 DEF RateInv
    <3>2. link[s].window # NIL => link[s].window <= now'
      BY <1>2, <1>5, <3>1 DEF Counted, Links
    <3>3. QED
      BY <1>5, <3>1, <3>2 DEF Counted
  <2>2. QED
    BY <2>1 DEF RateInv
<1>6. ASSUME NEW c \in Callers, Call(c) \/ ResetCloses(c) \/ Step(c),
             ~RateGate(c), ~OpenLink(c), ~DeviceOk(c)
      PROVE  link' = link /\ now' = now
  BY <1>6 DEF Step, Call, Build, Take, ResetCloses, ResetForgets, NoSession, DeadlineGate,
              DeviceFails, FileGate, LockFiles, CheckQuota, Put, Delete, Emit
<1>7. CASE Tick \/ UNCHANGED vars
  BY <1>5, <1>7 DEF Tick, vars
<1>8. QED
  BY <1>3, <1>4, <1>5, <1>6, <1>7 DEF Next

\* Who ends a call, and how: a denial comes from its own gate.
LEMMA DenialFrom ==
  ASSUME ToolsInv, [Next]_vars, NEW c \in Callers, mine[c] # 0, pc'[c] = "idle"
  PROVE  /\ outcome'[c] = "rate" => RateGate(c)
         /\ outcome'[c] = "stale" => DeadlineGate(c)
<1> USE DEF ToolsInv, TypeOK, CallTypes, call
<1>1. pc[c] \in InCall /\ pc[c] # "idle"
  BY DEF CallOK, InCall
<1>2. ASSUME NEW d \in Callers, Call(d) \/ ResetCloses(d) \/ Step(d) PROVE d = c
  BY <1>1, <1>2
  DEF Step, Call, Build, Take, ResetCloses, ResetForgets, OpenLink, NoSession, RateGate,
      DeadlineGate, DeviceOk, DeviceFails, FileGate, LockFiles, CheckQuota, Put, Delete, Emit,
      Ends, Goto
<1>3. Step(c)
  <2>1. ~(Tick \/ UNCHANGED vars)
    BY <1>1 DEF Tick, vars
  <2>2. ~Call(c) /\ ~ResetCloses(c)
    BY <1>1 DEF Call, ResetCloses
  <2>3. QED
    BY <1>2, <2>1, <2>2 DEF Next
<1>4. QED
  BY <1>1, <1>3
  DEF Step, Build, Take, ResetForgets, OpenLink, NoSession, RateGate, DeadlineGate, DeviceOk,
      DeviceFails, FileGate, LockFiles, CheckQuota, Put, Delete, Emit, Ends, Goto, InCall

LEMMA EarnedStep ==
  ASSUME ToolsInv, RateInv, [Next]_vars
  PROVE  Earned
<1> SUFFICES ASSUME NEW c \in Callers, mine[c] # 0, pc'[c] = "idle"
             PROVE  LET l == link[mine[c]] IN
                    /\ outcome'[c] = "rate" =>
                       Cardinality({k \in DOMAIN l.passes : l.passes[k] + Period > now}) >= MaxCalls
                    /\ outcome'[c] = "stale" => now - l.ok > Idle
  BY DEF Earned, Newly
<1> DEFINE l == link[mine[c]]
<1>1. mine[c] \in Sessions
  BY Mine DEF ToolsInv, CallOK
<1>2. l \in Links /\ now \in Nat /\ Counted(l)
  BY <1>1 DEF ToolsInv, TypeOK, LinkTypes, RateInv
<1> HIDE DEF l
<1>3. ASSUME outcome'[c] = "rate"
      PROVE  Cardinality({k \in DOMAIN l.passes : l.passes[k] + Period > now}) >= MaxCalls
  <2> DEFINE Recent == {k \in DOMAIN l.passes : l.passes[k] + Period > now}
  <2>1. RateGate(c)
    BY <1>3, DenialFrom
  <2>2. Rated(l).used > MaxCalls
    BY <1>3, <2>1 DEF RateGate, Goto, l, ToolsInv, TypeOK, CallTypes
  <2>3. ~WindowOver(l) /\ l.window \in Nat /\ Cardinality(SinceWindow(l)) >= MaxCalls
    BY <1>2, <2>2, DenialCounts
  <2>4. now - l.window < Period
    BY <1>2, <2>3, Constants DEF WindowOver
  <2>5. SinceWindow(l) \subseteq Recent
    <3>1. ASSUME NEW k \in DOMAIN l.passes, l.passes[k] >= l.window
          PROVE  l.passes[k] + Period > now
      <4>1. l.passes[k] \in Nat
        BY <1>2, PassesFinite
      <4>2. QED
        BY <1>2, <2>3, <2>4, <3>1, <4>1, Constants
    <3>2. QED
      BY <3>1 DEF SinceWindow
  <2>6. IsFiniteSet(Recent)
    BY <1>2, PassesFinite, FS_Subset
  <2>7. Cardinality(SinceWindow(l)) <= Cardinality(Recent)
    BY <2>5, <2>6, FS_Subset
  <2>8. Cardinality(Recent) \in Nat /\ Cardinality(SinceWindow(l)) \in Nat
    BY <1>2, <2>6, PassesFinite, FS_CardinalityType
  <2> HIDE DEF Recent
  <2>9. Cardinality(Recent) >= MaxCalls
    BY <2>3, <2>7, <2>8, Constants
  <2>10. QED
    BY <2>9 DEF Recent
<1>4. ASSUME outcome'[c] = "stale" PROVE now - l.ok > Idle
  <2>1. DeadlineGate(c)
    BY <1>4, DenialFrom
  <2>2. Stale(l)
    BY <2>1, <1>4 DEF DeadlineGate, Goto, l, ToolsInv, TypeOK, CallTypes
  <2>3. QED
    BY <1>2, <2>2 DEF Stale, Counted
<1>5. QED
  BY <1>3, <1>4 DEF l

\* A call is denied by the rate limit, or as stale, only when the limit was used up
\* or the connection idle, whatever other calls did between the two checks.
THEOREM DenialsEarned == Spec => DenialsAreEarned
<1>1. Init => RateInv
  BY DEF Init, RateInv, Counted, NoLink
<1>2. ToolsInv /\ RateInv /\ [Next]_vars => RateInv'
  BY RateStep
<1>3. ToolsInv /\ RateInv /\ [Next]_vars => [Earned]_vars
  BY EarnedStep
<1>4. QED
  BY <1>1, <1>2, <1>3, ToolsTypes, PTL DEF Spec, DenialsAreEarned

=============================================================================
