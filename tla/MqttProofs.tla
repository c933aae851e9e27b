----------------------------- MODULE MqttProofs -----------------------------
(***************************************************************************)
(* Proofs about the MQTT transports and the simulated broker, for every    *)
(* set of transports, devices, connections, filters and publish calls:     *)
(* the inbox is the newest part of what arrived, a granted subscription is *)
(* in the broker, and no live subscriber misses the retained payload.      *)
(***************************************************************************)
EXTENDS Mqtt, TLAPS

Subscriptions == [type : {"SUBSCRIBE"}, id : Nat, body : Filters]
Publications ==
    [type : {"PUBLISH"}, id : Nat, body : Nat, qos : 0 .. 2, retain : BOOLEAN]
Packets ==
    Subscriptions \cup Publications
    \cup [type : {"CONNECT", "DISCONNECT"}, id : {0}, body : {Empty}]

Calls == {"new", "opening", "giving up", "idle", "subscribing", "publishing",
          "closing", "closed"}
Transports ==
    [call : Calls, arg : Filters \cup {<<>>}, mid : Nat, conn : Conns \cup {0},
     net : {"none", "run", "leaving", "lost"}, connected : BOOLEAN, closing : BOOLEAN,
     results : SUBSET Nat, unacked : Seq(Publications), inbox : Seq(Nat),
     arrived : Seq(Nat), granted : SUBSET (Filters \cup {<<>>}), told : BOOLEAN]
Wires == [link : {"free", "backlog", "up", "cut", "shut"}, up : Seq(Packets)]
Threads ==
    [pc : {"none", "idle", "suback", "snapshot", "replay", "store", "aim", "cast", "ended"},
     subs : SUBSET Filters, job : Seq(Packets), todo : SUBSET Nat]

TransportInv == tr \in [Clients -> Transports]
BrokerInv ==
    /\ wire \in [Conns -> Wires] /\ br \in [Conns -> Threads]
    /\ listening \in {"on", "swept", "off"} /\ clients \subseteq Conns
    /\ retained \in Nat /\ ops \in Nat /\ got \in [Conns -> SUBSET Nat]
(* The packet a thread works on. *)
JobInv ==
    \A k \in Conns :
        /\ br[k].pc \in {"suback", "snapshot"} => br[k].job[1] \in Subscriptions
        /\ br[k].pc \in {"store", "aim", "cast"} => br[k].job[1] \in Publications
        /\ br[k].pc = "cast" => br[k].todo \subseteq Conns
TypeInv == TransportInv /\ BrokerInv /\ JobInv

(* The inbox is the end of what arrived, place by place. *)
NewestOf(s, a) ==
    /\ Len(s) <= Len(a)
    /\ \A i \in 1 .. Len(s) : s[i] = a[Len(a) - Len(s) + i]
InboxInv == \A c \in Clients : NewestOf(tr[c].inbox, tr[c].arrived)

(* A transport that has not lost its connection has had one only. *)
Whole(t) == ~t.told /\ ~t.closing
CallOf(t) ==
    /\ t.closing <=> t.call \in {"giving up", "closing"}
    /\ t.call = "new" => t = Fresh
    /\ t.call = "closed" => t.granted = {} /\ t.net = "none"
    /\ Whole(t) /\ t.call \notin {"new", "closed"} => t.net = "run"
    /\ t.net = "leaving" => t.closing
CallInv == \A c \in Clients : CallOf(tr[c])

(* A connection with a network thread at its end is that thread's own. *)
OnLine(c) == tr[c].net \in {"run", "leaving"}
LineInv ==
    /\ \A c \in Clients : OnLine(c) =>
         /\ tr[c].conn \in Conns \ Devices
         /\ wire[tr[c].conn].link \in {"backlog", "up", "cut"}
    /\ \A c, d \in Clients : OnLine(c) /\ OnLine(d) /\ tr[c].conn = tr[d].conn => c = d
    /\ \A k \in Conns : wire[k].link = "backlog" => br[k].pc = "none"

(* A SUBSCRIBE with the id of the running call is that call's.  *)
Fits(t, p) ==
    /\ p.id <= t.mid
    /\ t.call = "subscribing" /\ p.id = t.mid => p.body = t.arg

(* What is on its way and what has come back of a transport's              *)
(* subscriptions, on its line w and in the broker's thread b.              *)
AccountedFor(t, w, b) ==
    /\ \A i \in 1 .. Len(w.up) : w.up[i].type = "SUBSCRIBE" => Fits(t, w.up[i])
    /\ b.pc = "suback" => Fits(t, b.job[1]) /\ b.job[1].body \in b.subs
    /\ \A m \in t.results : m <= t.mid
    /\ t.call = "subscribing" /\ t.mid \in t.results => t.arg \in b.subs
    /\ t.granted \subseteq b.subs
SubInv ==
    \A c \in Clients :
        Whole(tr[c]) /\ tr[c].net = "run" /\ wire[tr[c].conn].link # "cut"
            => AccountedFor(tr[c], wire[tr[c].conn], br[tr[c].conn])

(* The retained payload is on its way to k: with the SUBACK of a matching  *)
(* filter, in k's own replay, or in a broadcast that has k in view.        *)
OnTheWay(k) ==
    \/ br[k].pc \in {"suback", "snapshot"} /\ TopicMatches(br[k].job[1].body, Topic)
    \/ br[k].pc = "replay" /\ retained \in br[k].todo
    \/ \E j \in Conns \ {k} :
         /\ \/ br[j].pc = "aim"
            \/ br[j].pc = "cast" /\ k \in br[j].todo
         /\ br[j].job[1].body = retained
ThreadInv ==
    \A k \in Conns :
        /\ br[k].pc \in {"none", "ended"} => br[k].subs = {}
        /\ br[k].pc = "store" => br[k].job[1].body \in got[k]
ValueInv ==
    \A k \in Conns :
        (retained # Empty /\ Wants(k) /\ wire[k].link = "up" /\ k \in clients)
            => retained \in got[k] \/ OnTheWay(k)

-----------------------------------------------------------------------------
(* Packets, wires and what a transport makes of a packet. *)

(* A packet at the end of a line leaves packets on it. *)
LEMMA ToBrokerType ==
    ASSUME NEW w \in [Conns -> Wires], NEW k, NEW p \in Packets
    PROVE  /\ ToBroker(w, k, p) \in [Conns -> Wires]
           /\ \A j \in Conns : ToBroker(w, k, p)[j].link = w[j].link
           /\ \A j \in Conns \ {k} : ToBroker(w, k, p)[j] = w[j]
           /\ k \in Conns => ToBroker(w, k, p)[k].up \in {w[k].up, Append(w[k].up, p)}
<1> DEFINE r == [w[k] EXCEPT !.up = IF w[k].link \in {"backlog", "up"} THEN Append(w[k].up, p) ELSE w[k].up]
<1>1. ToBroker(w, k, p) = [w EXCEPT ![k] = r]
  BY DEF ToBroker
<1>2. CASE k \in Conns
  <2>1. w[k] \in Wires /\ w[k].up \in Seq(Packets)
    BY <1>2 DEF Wires
  <2>2. Append(w[k].up, p) \in Seq(Packets)
    BY <2>1
  <2>3. r \in Wires /\ r.link = w[k].link /\ r.up \in {w[k].up, Append(w[k].up, p)}
    BY <2>1, <2>2 DEF Wires
  <2> HIDE DEF r
  <2>4. QED
    BY <1>1, <1>2, <2>3
<1>3. CASE k \notin Conns
  <2> HIDE DEF r
  <2>1. [w EXCEPT ![k] = r] = w
    BY <1>3
  <2>2. QED
    BY <1>1, <1>3, <2>1
<1>4. QED
  BY <1>2, <1>3

(* deque.append of a full or a half-full deque. *)
LEMMA KeptType ==
    ASSUME NEW s \in Seq(Nat), NEW v \in Nat
    PROVE  Kept(s, v) \in Seq(Nat)
<1>1. CASE Len(s) = QueueSize
  BY <1>1, MqttAssumption DEF Kept
<1>2. CASE Len(s) # QueueSize
  BY <1>2 DEF Kept
<1>3. QED
  BY <1>1, <1>2

(* What is still to be acknowledged. *)
LEMMA UnpublishedType ==
    ASSUME NEW s \in Seq(Publications), NEW id
    PROVE  Unpublished(s, id) \in Seq(Publications)
<1>1. CASE \E i \in DOMAIN s : s[i].id = id
  <2> DEFINE i == CHOOSE i \in DOMAIN s : s[i].id = id
  <2>1. i \in 1 .. Len(s)
    BY <1>1
  <2> HIDE DEF i
  <2>2. SubSeq(s, 1, i - 1) \in Seq(Publications) /\ SubSeq(s, i + 1, Len(s)) \in Seq(Publications)
    BY <2>1
  <2>3. Unpublished(s, id) = SubSeq(s, 1, i - 1) \o SubSeq(s, i + 1, Len(s))
    BY <1>1 DEF Unpublished, RemoveAt, i
  <2>4. QED
    BY <2>2, <2>3
<1>2. CASE ~ \E i \in DOMAIN s : s[i].id = id
  BY <1>2 DEF Unpublished
<1>3. QED
  BY <1>1, <1>2

(* What the broker sends. *)
Sent == [type : {"CONNACK"}, id : {0}, body : {Empty}]
        \cup [type : {"SUBACK", "PUBACK"}, id : Nat, body : {Empty}]
        \cup [type : {"PUBLISH"}, id : {0}, body : Nat]

(* Only the transport's answers, its inbox and its pending publications    *)
(* change with a packet.                                                   *)
LEMMA OnPacketType ==
    ASSUME NEW t \in Transports, NEW p \in Sent
    PROVE  /\ OnPacket(t, p) \in Transports
           /\ \A f \in {"call", "arg", "mid", "conn", "net", "closing", "granted", "told"} :
                OnPacket(t, p)[f] = t[f]
           /\ OnPacket(t, p).results \in {t.results, t.results \cup {p.id}}
           /\ p.type # "SUBACK" => OnPacket(t, p).results = t.results
           /\ p.type # "PUBLISH" =>
                OnPacket(t, p).inbox = t.inbox /\ OnPacket(t, p).arrived = t.arrived
           /\ p.type = "PUBLISH" =>
                /\ OnPacket(t, p).inbox = Kept(t.inbox, p.body)
                /\ OnPacket(t, p).arrived = Append(t.arrived, p.body)
<1>1. CASE p.type = "CONNACK"
  BY <1>1 DEF OnPacket, Transports
<1>2. CASE p.type = "SUBACK"
  BY <1>2 DEF OnPacket, Transports, Sent
<1>3. CASE p.type = "PUBACK"
  <2>1. Unpublished(t.unacked, p.id) \in Seq(Publications)
    BY UnpublishedType DEF Transports
  <2>2. OnPacket(t, p) = [t EXCEPT !.unacked = Unpublished(t.unacked, p.id)]
    BY <1>3 DEF OnPacket
  <2>3. QED
    BY <1>3, <2>1, <2>2 DEF Transports
<1>4. CASE p.type = "PUBLISH"
  <2>1. p.body \in Nat
    BY <1>4 DEF Sent
  <2>2. Kept(t.inbox, p.body) \in Seq(Nat) /\ Append(t.arrived, p.body) \in Seq(Nat)
    <3>1. t.inbox \in Seq(Nat) /\ t.arrived \in Seq(Nat)
      BY DEF Transports
    <3>2. Kept(t.inbox, p.body) \in Seq(Nat)
      BY <2>1, <3>1, KeptType
    <3>3. QED
      BY <2>1, <3>1, <3>2
  <2>3. OnPacket(t, p) = [t EXCEPT !.inbox = Kept(t.inbox, p.body),
                                   !.arrived = Append(t.arrived, p.body)]
    BY <1>4 DEF OnPacket
  <2>4. QED
    BY <1>4, <2>2, <2>3 DEF Transports
<1>5. p.type \in {"CONNACK", "SUBACK", "PUBACK", "PUBLISH"}
  BY DEF Sent
<1>6. QED
  BY <1>1, <1>2, <1>3, <1>4, <1>5

(* A packet is received by at most the transports at the end of its line.  *)
LEMMA ReceivedType ==
    ASSUME TransportInv, NEW k \in Conns, NEW p \in Sent
    PROVE  /\ Received(k, p) \in [Clients -> Transports]
           /\ \A c \in Clients :
                \/ Received(k, p)[c] = tr[c]
                \/ /\ Received(k, p)[c] = OnPacket(tr[c], p)
                   /\ tr[c].conn = k /\ OnLine(c)
BY OnPacketType DEF Received, TransportInv, OnLine

(* What the broker sends to k may be remembered of k. *)
LEMMA SendsType ==
    ASSUME TransportInv, BrokerInv, NEW k \in Conns, NEW p \in Sent, Sends(k, p)
    PROVE  /\ TransportInv' /\ got' \in [Conns -> SUBSET Nat]
           /\ \A c \in Clients :
                tr'[c] = tr[c] \/ (tr'[c] = OnPacket(tr[c], p) /\ tr[c].conn = k /\ OnLine(c))
           /\ \A j \in Conns : got[j] \subseteq got'[j]
           /\ p.type = "PUBLISH" /\ wire[k].link = "up" => p.body \in got'[k]
<1>1. tr' = Received(k, p)
  BY DEF Sends
<1>2. p.type = "PUBLISH" => p.body \in Nat
  BY DEF Sent
<1>3. got \in [Conns -> SUBSET Nat]
  BY DEF BrokerInv
<1>4. got' = IF p.type = "PUBLISH" /\ wire[k].link = "up"
             THEN [got EXCEPT ![k] = @ \cup {p.body}] ELSE got
  BY DEF Sends
<1>5. /\ got' \in [Conns -> SUBSET Nat] /\ \A j \in Conns : got[j] \subseteq got'[j]
      /\ p.type = "PUBLISH" /\ wire[k].link = "up" => p.body \in got'[k]
  BY <1>2, <1>3, <1>4
<1>6. tr' \in [Clients -> Transports]
  BY <1>1, ReceivedType
<1>7. \A c \in Clients :
        tr'[c] = tr[c] \/ (tr'[c] = OnPacket(tr[c], p) /\ tr[c].conn = k /\ OnLine(c))
  BY <1>1, ReceivedType
<1>8. QED
  BY <1>5, <1>6, <1>7 DEF TransportInv

(* The packets a client writes, a broker sends. *)
LEMMA PacketTypes ==
    /\ \A i \in Nat, f \in Filters : Packet("SUBSCRIBE", i, f) \in Subscriptions
    /\ Packet("CONNECT", 0, Empty) \in Packets /\ Packet("DISCONNECT", 0, Empty) \in Packets
    /\ Packet("CONNACK", 0, Empty) \in Sent
    /\ \A i \in Nat : Packet("SUBACK", i, Empty) \in Sent /\ Packet("PUBACK", i, Empty) \in Sent
    /\ \A v \in Nat : Packet("PUBLISH", 0, v) \in Sent
BY DEF Packet, Subscriptions, Packets, Sent, Empty

LEMMA PublicationType ==
    ASSUME BrokerInv, NEW form \in Forms, NEW i \in Nat
    PROVE  Publication(form, i) \in Publications
<1>1. form \in [qos : 0 .. 2, retain : BOOLEAN, empty : BOOLEAN] /\ ops \in Nat
  BY MqttAssumption DEF BrokerInv
<1>2. QED
  BY <1>1 DEF Publication, Publications, Empty

(* The connection a transport dials is nobody's. *)
LEMMA DialsType ==
    ASSUME TypeInv, NEW c \in Clients, NEW t \in Transports, Dials(c, t)
    PROVE  \E k \in Conns :
             /\ Unused(k) /\ wire'[k].link = "backlog" /\ wire' \in [Conns -> Wires]
             /\ wire'[k].up = <<Packet("CONNECT", 0, Empty)>> \o t.unacked
             /\ \A j \in Conns \ {k} : wire'[j] = wire[j]
             /\ tr' = [tr EXCEPT ![c] = [t EXCEPT !.conn = k, !.net = "run"]]
             /\ br' = [br EXCEPT ![k] = NoThread] /\ got' = [got EXCEPT ![k] = {}]
             /\ UNCHANGED <<listening, clients, retained, ops>>
<1>1. PICK k \in Conns :
         /\ Unused(k)
         /\ wire' = [wire EXCEPT ![k] = [link |-> "backlog",
                        up |-> <<Packet("CONNECT", 0, Empty)>> \o t.unacked]]
         /\ tr' = [tr EXCEPT ![c] = [t EXCEPT !.conn = k, !.net = "run"]]
         /\ br' = [br EXCEPT ![k] = NoThread]
         /\ got' = [got EXCEPT ![k] = {}]
  BY DEF Dials
<1>2. <<Packet("CONNECT", 0, Empty)>> \o t.unacked \in Seq(Packets)
  <2>1. <<Packet("CONNECT", 0, Empty)>> \in Seq(Packets)
    BY PacketTypes
  <2>2. t.unacked \in Seq(Packets)
    BY DEF Transports, Packets
  <2>3. QED
    BY <2>1, <2>2
<1> DEFINE w == [link |-> "backlog", up |-> <<Packet("CONNECT", 0, Empty)>> \o t.unacked]
<1>3. w \in Wires /\ w.link = "backlog" /\ w.up = <<Packet("CONNECT", 0, Empty)>> \o t.unacked
  BY <1>2 DEF Wires
<1>4. wire' = [wire EXCEPT ![k] = w] /\ wire \in [Conns -> Wires]
  BY <1>1 DEF TypeInv, BrokerInv
<1> HIDE DEF w
<1>5. /\ wire' \in [Conns -> Wires] /\ wire'[k].link = "backlog"
      /\ wire'[k].up = <<Packet("CONNECT", 0, Empty)>> \o t.unacked
      /\ \A j \in Conns \ {k} : wire'[j] = wire[j]
  BY <1>3, <1>4
<1>6. UNCHANGED <<listening, clients, retained, ops>>
  BY DEF Dials
<1>7. QED
  BY <1>1, <1>5, <1>6

(* The next packet of a connection. *)
LEMMA NextPacket ==
    ASSUME BrokerInv, NEW k \in Conns, wire[k].up # <<>>
    PROVE  Next_(k) \in Packets /\ Taken(k) \in [Conns -> Wires]
<1>1. wire[k] \in Wires /\ wire \in [Conns -> Wires] /\ wire[k].up \in Seq(Packets)
  BY DEF BrokerInv, Wires
<1>2. Head(wire[k].up) \in Packets /\ Tail(wire[k].up) \in Seq(Packets)
  BY <1>1
<1>3. [wire[k] EXCEPT !.up = Tail(wire[k].up)] \in Wires
  BY <1>1, <1>2 DEF Wires
<1>4. QED
  BY <1>1, <1>2, <1>3 DEF Next_, Taken

-----------------------------------------------------------------------------
(* Types. *)

LEMMA MqttTypeInit ==
    ASSUME Init
    PROVE  TypeInv
<1>1. Fresh \in Transports
  BY DEF Fresh, Transports, Calls
<1>2. TransportInv
  BY <1>1 DEF Init, TransportInv
<1>3. \A k \in Conns : br[k] \in Threads /\ br[k].pc \in {"none", "idle"}
  <2> SUFFICES ASSUME NEW k \in Conns
               PROVE  br[k] \in Threads /\ br[k].pc \in {"none", "idle"}
    OBVIOUS
  <2>1. br[k] = [NoThread EXCEPT !.pc = IF k \in Devices THEN "idle" ELSE "none"]
    BY DEF Init
  <2>2. NoThread \in Threads
    BY DEF NoThread, Threads
  <2>3. QED
    BY <2>1, <2>2 DEF Threads
<1>4. Devices \subseteq Conns
  BY MqttAssumption DEF Devices, Conns
<1>5. br \in [Conns -> Threads] /\ JobInv
  BY <1>3 DEF Init, JobInv
<1>6. wire \in [Conns -> Wires]
  BY DEF Init, Wires
<1>7. QED
  BY <1>2, <1>4, <1>5, <1>6 DEF Init, TypeInv, BrokerInv, Empty

(* A transport's caller and its network thread. *)
LEMMA CallerType ==
    ASSUME TypeInv, NEW c \in Clients, CallerNext(c) \/ NetNext(c)
    PROVE  TypeInv'
<1> USE DEF TypeInv
<1>1. tr[c] \in Transports /\ tr \in [Clients -> Transports] /\ wire \in [Conns -> Wires]
  BY DEF TransportInv, BrokerInv
<1>2. ASSUME NEW t \in Transports, Dials(c, t)
      PROVE  TypeInv'
  <2>1. PICK k \in Conns :
             /\ Unused(k) /\ wire'[k].link = "backlog" /\ wire' \in [Conns -> Wires]
             /\ wire'[k].up = <<Packet("CONNECT", 0, Empty)>> \o t.unacked
             /\ \A j \in Conns \ {k} : wire'[j] = wire[j]
             /\ tr' = [tr EXCEPT ![c] = [t EXCEPT !.conn = k, !.net = "run"]]
             /\ br' = [br EXCEPT ![k] = NoThread] /\ got' = [got EXCEPT ![k] = {}]
             /\ UNCHANGED <<listening, clients, retained, ops>>
    BY <1>2, DialsType
  <2>2. [t EXCEPT !.conn = k, !.net = "run"] \in Transports
    BY DEF Transports
  <2>3. TransportInv'
    BY <1>1, <2>1, <2>2 DEF TransportInv
  <2>4. NoThread \in Threads /\ NoThread.pc = "none"
    BY DEF NoThread, Threads
  <2>5. br' \in [Conns -> Threads] /\ br'[k] = NoThread /\ \A j \in Conns \ {k} : br'[j] = br[j]
    BY <2>1, <2>4 DEF BrokerInv
  <2>6. BrokerInv'
    BY <2>1, <2>5 DEF BrokerInv
  <2>7. JobInv'
    BY <2>4, <2>5 DEF JobInv
  <2>8. QED
    BY <2>3, <2>6, <2>7
<1>3. ASSUME UNCHANGED <<br, listening, clients, retained, got>>, ops' \in Nat,
             wire' \in [Conns -> Wires], tr' \in [Clients -> Transports]
      PROVE  TypeInv'
  BY <1>3 DEF TransportInv, BrokerInv, JobInv
<1>4. ASSUME UNCHANGED <<wire, broker, ops>>, NEW t \in Transports, tr' = [tr EXCEPT ![c] = t]
      PROVE  TypeInv'
  BY <1>1, <1>3, <1>4 DEF broker, BrokerInv
<1>5. CASE Open(c)
  <2>1. [tr[c] EXCEPT !.call = "opening"] \in Transports
    BY <1>1 DEF Transports, Calls
  <2>2. QED
    BY <1>2, <1>5, <2>1 DEF Open
<1>6. CASE OpenReturns(c)
  <2>1. [tr[c] EXCEPT !.call = "idle"] \in Transports
    BY <1>1 DEF Transports, Calls
  <2>2. QED
    BY <1>4, <1>6, <2>1 DEF OpenReturns, Become
<1>7. ASSUME NEW from, NEW call \in Calls, TearsDown(c, from, call)
      PROVE  TypeInv'
  <2> DEFINE t == [tr[c] EXCEPT !.call = call, !.closing = TRUE,
                                !.net = IF tr[c].net = "run" THEN "leaving" ELSE tr[c].net]
  <2>1. t \in Transports
    BY <1>1 DEF Transports
  <2>2. tr' = [tr EXCEPT ![c] = t] /\ UNCHANGED <<wire, broker, ops>>
    BY <1>7 DEF TearsDown
  <2> HIDE DEF t
  <2>3. QED
    BY <1>4, <2>1, <2>2
<1>8. CASE OpenTimesOut(c)
  BY <1>7, <1>8 DEF OpenTimesOut, Calls
<1>9. CASE Close(c)
  BY <1>7, <1>9 DEF Close, Calls
<1>10. CASE TeardownEnds(c)
  <2>1. [Fresh EXCEPT !.call = "closed", !.conn = tr[c].conn, !.told = tr[c].told,
                      !.net = IF tr[c].net = "lost" THEN "none" ELSE tr[c].net] \in Transports
    <3>1. Fresh \in Transports
      BY DEF Fresh, Transports, Calls
    <3>2. "closed" \in Calls /\ tr[c].conn \in Conns \cup {0} /\ tr[c].told \in BOOLEAN
          /\ tr[c].net \in {"none", "run", "leaving", "lost"}
      BY <1>1 DEF Transports, Calls
    <3> HIDE DEF Fresh
    <3>3. QED
      BY <3>1, <3>2 DEF Transports
  <2>2. QED
    BY <1>4, <1>10, <2>1 DEF TeardownEnds
<1>11. ASSUME NEW f \in Filters, Subscribe(c, f)
       PROVE  TypeInv'
  <2> DEFINE t == [tr[c] EXCEPT !.call = "subscribing", !.arg = f, !.mid = tr[c].mid + 1]
  <2>1. tr[c].mid + 1 \in Nat
    BY <1>1 DEF Transports
  <2>6. t \in Transports
    BY <1>1, <2>1 DEF Transports, Calls
  <2>2. tr' = [tr EXCEPT ![c] = t]
    BY <1>11 DEF Subscribe
  <2>3. Packet("SUBSCRIBE", tr[c].mid + 1, f) \in Packets
    BY <2>1, PacketTypes DEF Packets
  <2>4. wire' \in [Conns -> Wires]
    BY <1>1, <1>11, <2>3, ToBrokerType DEF Subscribe
  <2>5. QED
    BY <1>1, <1>3, <1>11, <2>6, <2>2, <2>4 DEF Subscribe, broker, BrokerInv
<1>12. CASE SubscribeReturns(c)
  <2>1. PICK m \in Answers(c) :
          tr' = [tr EXCEPT ![c] = [tr[c] EXCEPT !.call = "idle", !.arg = <<>>,
                   !.results = tr[c].results \ {m}, !.granted = tr[c].granted \cup {tr[c].arg}]]
    BY <1>12 DEF SubscribeReturns
  <2>2. [tr[c] EXCEPT !.call = "idle", !.arg = <<>>, !.results = tr[c].results \ {m},
                      !.granted = tr[c].granted \cup {tr[c].arg}] \in Transports
    BY <1>1 DEF Transports, Calls
  <2>3. QED
    BY <1>4, <1>12, <2>1, <2>2 DEF SubscribeReturns
<1>13. CASE SubscribeTimesOut(c)
  <2>1. [tr[c] EXCEPT !.call = "idle", !.arg = <<>>] \in Transports
    BY <1>1 DEF Transports, Calls
  <2>2. tr' = [tr EXCEPT ![c] = [tr[c] EXCEPT !.call = "idle", !.arg = <<>>]]
    BY <1>1, <1>13 DEF SubscribeTimesOut
  <2>3. QED
    BY <1>4, <1>13, <2>1, <2>2 DEF SubscribeTimesOut
<1>14. CASE ReadMessage(c)
  <2>1. Tail(tr[c].inbox) \in Seq(Nat)
    BY <1>1, <1>14 DEF ReadMessage, Transports
  <2>2. [tr[c] EXCEPT !.inbox = Tail(tr[c].inbox)] \in Transports
    BY <1>1, <2>1 DEF Transports
  <2>3. QED
    BY <1>4, <1>14, <2>2 DEF ReadMessage
<1>15. ASSUME NEW form \in Forms, Publish(c, form)
       PROVE  TypeInv'
  <2> DEFINE p == Publication(form, tr[c].mid + 1)
             t == [tr[c] EXCEPT !.mid = tr[c].mid + 1,
                     !.call = IF p.qos = 0 THEN "idle" ELSE "publishing",
                     !.unacked = IF p.qos = 0 THEN tr[c].unacked ELSE Append(tr[c].unacked, p)]
  <2>1. tr[c].mid + 1 \in Nat
    BY <1>1 DEF Transports
  <2>2. p \in Publications /\ p \in Packets
    BY <2>1, PublicationType DEF Packets
  <2>3. tr' = [tr EXCEPT ![c] = t] /\ wire' = ToBroker(wire, tr[c].conn, p)
    BY <1>1, <1>15 DEF Publish
  <2> HIDE DEF p
  <2>4. Append(tr[c].unacked, p) \in Seq(Publications)
    BY <1>1, <2>2 DEF Transports
  <2>5. t \in Transports
    BY <1>1, <2>1, <2>4 DEF Transports, Calls
  <2>6. wire' \in [Conns -> Wires]
    BY <1>1, <2>2, <2>3, ToBrokerType
  <2> HIDE DEF t
  <2>8. UNCHANGED <<br, listening, clients, retained, got>>
    BY <1>15 DEF Publish, broker
  <2>9. ops' \in Nat
    BY <1>15 DEF Publish, BrokerInv
  <2>10. tr' \in [Clients -> Transports]
    BY <1>1, <2>3, <2>5
  <2>7. QED
    BY <1>1, <1>3, <1>15, <2>5, <2>6, <2>8, <2>9, <2>10
<1>16. CASE PublishEnds(c)
  <2>1. [tr[c] EXCEPT !.call = "idle"] \in Transports
    BY <1>1 DEF Transports, Calls
  <2>2. QED
    BY <1>4, <1>16, <2>1 DEF PublishEnds, Become
<1>17. OnDisconnect(tr[c]) \in Transports
  BY <1>1 DEF OnDisconnect, Transports
<1>18. CASE NetLoses(c)
  BY <1>4, <1>17, <1>18 DEF NetLoses
<1>19. CASE NetHangsUp(c)
  <2> DEFINE w == ToBroker(wire, tr[c].conn, Packet("DISCONNECT", 0, Empty))
  <2>1. w \in [Conns -> Wires]
    BY <1>1, PacketTypes, ToBrokerType
  <2>2. wire' = [w EXCEPT ![tr[c].conn].link = IF w[tr[c].conn].link = "cut" THEN "cut" ELSE "shut"]
    BY <1>19 DEF NetHangsUp
  <2> HIDE DEF w
  <2>3. wire' \in [Conns -> Wires]
    BY <2>1, <2>2 DEF Wires
  <2>4. QED
    BY <1>1, <1>3, <1>17, <1>19, <2>3 DEF NetHangsUp, broker, BrokerInv
<1>20. CASE NetReconnects(c)
  BY <1>1, <1>2, <1>20 DEF NetReconnects
<1>21. QED
  BY <1>5, <1>6, <1>8, <1>9, <1>10, <1>11, <1>12, <1>13, <1>14, <1>15, <1>16, <1>18, <1>19, <1>20
     DEF CallerNext, NetNext

(* A serving thread of the broker. *)
LEMMA ServeType ==
    ASSUME TypeInv, NEW k \in Conns, ServeNext(k)
    PROVE  TypeInv'
<1> USE DEF TypeInv
<1>1. br[k] \in Threads /\ br \in [Conns -> Threads] /\ wire \in [Conns -> Wires] /\ wire[k] \in Wires
  BY DEF BrokerInv
<1> DEFINE Doing(b) == /\ b.pc \in {"suback", "snapshot"} => b.job[1] \in Subscriptions
                       /\ b.pc \in {"store", "aim", "cast"} => b.job[1] \in Publications
                       /\ b.pc = "cast" => b.todo \subseteq Conns
<1>2. ASSUME NEW b \in Threads, br' = [br EXCEPT ![k] = b], Doing(b)
      PROVE  br' \in [Conns -> Threads] /\ JobInv'
  BY <1>1, <1>2 DEF JobInv
<1>3. ASSUME UNCHANGED br
      PROVE  br' \in [Conns -> Threads] /\ JobInv'
  BY <1>1, <1>3 DEF JobInv
<1>4. ASSUME TransportInv', br' \in [Conns -> Threads], JobInv', wire' \in [Conns -> Wires],
             listening' = listening, clients' \subseteq Conns, retained' \in Nat,
             ops' \in Nat, got' \in [Conns -> SUBSET Nat]
      PROVE  TypeInv'
  BY <1>4 DEF BrokerInv
<1>5. TransportInv /\ clients \subseteq Conns /\ retained \in Nat /\ ops \in Nat
      /\ got \in [Conns -> SUBSET Nat] /\ JobInv
  BY DEF BrokerInv
<1>6. ASSUME NEW pc \in {"idle", "suback", "snapshot", "replay", "store", "aim", "cast"}, Goes(k, pc),
             pc = "snapshot" => br[k].pc = "suback", pc = "aim" => br[k].pc = "store",
             pc \notin {"suback", "store", "cast"}
      PROVE  br' \in [Conns -> Threads] /\ JobInv'
  <2> DEFINE job == IF pc = "idle" THEN <<>> ELSE br[k].job
             b == [br[k] EXCEPT !.pc = pc, !.job = job]
  <2>5. job \in Seq(Packets)
    BY <1>1 DEF Threads
  <2>6. pc # "idle" => job = br[k].job
    OBVIOUS
  <2>7. br' = [br EXCEPT ![k].pc = pc, ![k].job = job]
    BY <1>6 DEF Goes
  <2> HIDE DEF job
  <2>1. b \in Threads /\ b.pc = pc /\ b.job = job
    BY <1>1, <1>6, <2>5 DEF Threads
  <2>2. br' = [br EXCEPT ![k] = b]
    BY <1>1, <2>7
  <2> HIDE DEF b
  <2>3. Doing(b)
    BY <1>5, <1>6, <2>1, <2>6 DEF JobInv
  <2>4. QED
    BY <1>2, <2>1, <2>2, <2>3
<1>7. ASSUME UNCHANGED tr
      PROVE  TransportInv'
  BY <1>5, <1>7 DEF TransportInv
<1>8. CASE Accept(k)
  <2>1. wire' \in [Conns -> Wires]
    BY <1>1, <1>8 DEF Accept, Wires
  <2>2. br' \in [Conns -> Threads] /\ JobInv'
    BY <1>6, <1>8 DEF Accept
  <2>3. QED
    BY <1>4, <1>5, <1>7, <1>8, <2>1, <2>2 DEF Accept
<1>9. ASSUME NEW type, Takes(k, type)
      PROVE  Next_(k) \in Packets /\ Taken(k) \in [Conns -> Wires] /\ Next_(k).type = type
  BY <1>9, NextPacket DEF Takes
<1>10. ASSUME NEW p \in Sent, Sends(k, p)
       PROVE  TransportInv' /\ got' \in [Conns -> SUBSET Nat]
  BY <1>10, SendsType
<1>11. CASE Connect(k)
  <2>1. TransportInv' /\ got' \in [Conns -> SUBSET Nat]
    BY <1>10, <1>11, PacketTypes DEF Connect
  <2>2. QED
    BY <1>3, <1>4, <1>5, <1>9, <1>11, <2>1 DEF Connect
<1>12. CASE HandleSubscribe(k)
  <2> DEFINE p == Next_(k)
             b == [br[k] EXCEPT !.subs = br[k].subs \cup {p.body}, !.pc = "suback", !.job = <<p>>]
  <2>1. p \in Packets /\ p.type = "SUBSCRIBE" /\ Taken(k) \in [Conns -> Wires]
    BY <1>9, <1>12 DEF HandleSubscribe
  <2>2. br' = [br EXCEPT ![k] = b]
    BY <1>12 DEF HandleSubscribe
  <2> HIDE DEF p
  <2>3. p \in Subscriptions
    BY <2>1 DEF Packets, Subscriptions, Publications
  <2>4. p.body \in Filters /\ <<p>> \in Seq(Packets)
    BY <2>1, <2>3 DEF Subscriptions
  <2>5. b \in Threads /\ b.pc = "suback" /\ b.job = <<p>>
    BY <1>1, <2>4 DEF Threads
  <2> HIDE DEF b
  <2>6. Doing(b)
    BY <2>3, <2>5
  <2>7. QED
    BY <1>2, <1>4, <1>5, <1>7, <1>12, <2>1, <2>2, <2>5, <2>6 DEF HandleSubscribe
<1>13. CASE SendSuback(k)
  <2>1. br[k].job[1].id \in Nat
    BY <1>5, <1>13 DEF SendSuback, Thread, JobInv, Subscriptions
  <2>2. TransportInv' /\ got' \in [Conns -> SUBSET Nat]
    BY <1>10, <1>13, <2>1, PacketTypes DEF SendSuback
  <2>3. br' \in [Conns -> Threads] /\ JobInv'
    BY <1>6, <1>13 DEF SendSuback, Thread
  <2>4. QED
    BY <1>1, <1>4, <1>5, <1>13, <2>2, <2>3 DEF SendSuback
<1>14. CASE TakeSnapshot(k)
  <2> DEFINE b == [br[k] EXCEPT !.pc = "replay", !.todo = RetainedFor(k)]
  <2>1. RetainedFor(k) \subseteq Nat
    BY <1>5 DEF RetainedFor
  <2>2. b \in Threads /\ b.pc = "replay"
    BY <1>1, <2>1 DEF Threads
  <2>3. br' = [br EXCEPT ![k] = b]
    BY <1>14 DEF TakeSnapshot
  <2> HIDE DEF b
  <2>4. Doing(b)
    BY <2>2
  <2>5. QED
    BY <1>1, <1>2, <1>4, <1>5, <1>7, <1>14, <2>2, <2>3, <2>4 DEF TakeSnapshot
<1>15. CASE Replay(k)
  <2>1. CASE br[k].todo = {} /\ Goes(k, "idle") /\ UNCHANGED <<tr, got>>
    BY <1>1, <1>4, <1>5, <1>6, <1>7, <1>15, <2>1 DEF Replay
  <2>2. ASSUME NEW v \in br[k].todo, Sends(k, Packet("PUBLISH", 0, v)),
               br' = [br EXCEPT ![k].todo = @ \ {v}]
        PROVE  TypeInv'
    <3>1. v \in Nat
      BY <1>1, <2>2 DEF Threads
    <3>2. TransportInv' /\ got' \in [Conns -> SUBSET Nat]
      BY <1>10, <2>2, <3>1, PacketTypes
    <3> DEFINE b == [br[k] EXCEPT !.todo = br[k].todo \ {v}]
    <3>3. b \in Threads /\ b.pc = br[k].pc /\ b.job = br[k].job /\ b.todo \subseteq br[k].todo
      BY <1>1 DEF Threads
    <3>4. br' = [br EXCEPT ![k] = b]
      BY <1>1, <2>2
    <3> HIDE DEF b
    <3>5. Doing(b)
      BY <1>5, <3>3 DEF JobInv
    <3>6. QED
      BY <1>1, <1>2, <1>4, <1>5, <1>15, <3>2, <3>3, <3>4, <3>5 DEF Replay
  <2>3. QED
    BY <1>15, <2>1, <2>2 DEF Replay
<1>16. CASE HandlePublish(k)
  <2> DEFINE p == Next_(k)
             b == [br[k] EXCEPT !.job = <<p>>, !.pc = PublishGoes(p, "read")]
  <2>1. p \in Packets /\ p.type = "PUBLISH" /\ Taken(k) \in [Conns -> Wires]
    BY <1>9, <1>16 DEF HandlePublish
  <2>2. br' = [br EXCEPT ![k] = b]
    BY <1>16 DEF HandlePublish
  <2>3. tr' = IF p.qos = 1 THEN Received(k, Packet("PUBACK", p.id, Empty)) ELSE tr
    BY <1>16 DEF HandlePublish
  <2>4. got' = [got EXCEPT ![k] = got[k] \cup {p.body}]
    BY <1>16 DEF HandlePublish
  <2> HIDE DEF p
  <2>5. p \in Publications
    BY <2>1 DEF Packets, Subscriptions, Publications
  <2>6. p.body \in Nat /\ p.id \in Nat /\ <<p>> \in Seq(Packets)
    BY <2>1, <2>5 DEF Publications
  <2>7. PublishGoes(p, "read") \in {"idle", "store", "aim"}
    BY DEF PublishGoes
  <2>8. b \in Threads /\ b.job = <<p>>
    BY <1>1, <2>6, <2>7 DEF Threads
  <2>9. b.pc \in {"idle", "store", "aim"}
    BY <1>1, <2>7 DEF Threads
  <2> HIDE DEF b
  <2>10. Doing(b)
    BY <2>5, <2>8, <2>9
  <2>11. TransportInv'
    BY <1>5, <2>3, <2>6, PacketTypes, ReceivedType DEF TransportInv
  <2>12. got' \in [Conns -> SUBSET Nat]
    BY <1>5, <2>4, <2>6
  <2>13. QED
    BY <1>2, <1>4, <1>5, <1>16, <2>1, <2>2, <2>8, <2>10, <2>11, <2>12 DEF HandlePublish
<1>17. CASE Store(k)
  <2>1. br[k].job[1].body \in Nat
    BY <1>5, <1>17 DEF Store, Thread, JobInv, Publications
  <2>2. br' \in [Conns -> Threads] /\ JobInv'
    BY <1>6, <1>17 DEF Store, Thread, PublishGoes
  <2>3. QED
    BY <1>1, <1>4, <1>5, <1>7, <1>17, <2>1, <2>2 DEF Store
<1>18. CASE Aim(k)
  <2> DEFINE b == [br[k] EXCEPT !.pc = "cast", !.todo = clients \ {k}]
  <2>1. clients \ {k} \subseteq Nat
    BY <1>5, MqttAssumption DEF Conns
  <2>2. b \in Threads /\ b.pc = "cast" /\ b.job = br[k].job /\ b.todo \subseteq Conns
    BY <1>1, <1>5, <2>1 DEF Threads
  <2>3. br' = [br EXCEPT ![k] = b]
    BY <1>18 DEF Aim
  <2> HIDE DEF b
  <2>4. Doing(b)
    BY <1>5, <1>18, <2>2 DEF JobInv, Aim, Thread
  <2>5. QED
    BY <1>1, <1>2, <1>4, <1>5, <1>7, <1>18, <2>2, <2>3, <2>4 DEF Aim
<1>19. CASE Cast(k)
  <2>1. CASE br[k].todo = {} /\ Goes(k, PublishGoes(br[k].job[1], "cast")) /\ UNCHANGED <<tr, got>>
    BY <1>1, <1>4, <1>5, <1>6, <1>7, <1>19, <2>1 DEF Cast, PublishGoes
  <2>2. ASSUME NEW t \in br[k].todo, br' = [br EXCEPT ![k].todo = @ \ {t}],
               IF Wants(t) THEN Sends(t, Packet("PUBLISH", 0, br[k].job[1].body))
               ELSE UNCHANGED <<tr, got>>
        PROVE  TypeInv'
    <3>1. br[k].job[1].body \in Nat
      BY <1>5, <1>19 DEF Cast, Thread, JobInv, Publications
    <3>2. TransportInv' /\ got' \in [Conns -> SUBSET Nat]
      <4>1. t \in Conns
        BY <1>5, <1>19, <2>2 DEF Cast, Thread, JobInv
      <4>2. CASE Wants(t)
        BY <2>2, <3>1, <4>1, <4>2, SendsType, PacketTypes
      <4>3. CASE ~Wants(t)
        BY <1>5, <1>7, <2>2, <4>3
      <4>4. QED
        BY <4>2, <4>3
    <3> DEFINE b == [br[k] EXCEPT !.todo = br[k].todo \ {t}]
    <3>3. b \in Threads /\ b.pc = br[k].pc /\ b.job = br[k].job /\ b.todo \subseteq br[k].todo
      BY <1>1 DEF Threads
    <3>4. br' = [br EXCEPT ![k] = b]
      BY <1>1, <2>2
    <3> HIDE DEF b
    <3>5. Doing(b)
      BY <1>5, <3>3 DEF JobInv
    <3>6. QED
      BY <1>1, <1>2, <1>4, <1>5, <1>19, <3>2, <3>3, <3>4, <3>5 DEF Cast
  <2>3. QED
    BY <1>19, <2>1, <2>2 DEF Cast
<1>20. CASE ServeEnds(k)
  <2>1. [up |-> <<>>, link |-> IF wire[k].link = "up" THEN "cut" ELSE wire[k].link] \in Wires
    BY <1>1 DEF Wires
  <2>2. wire' \in [Conns -> Wires]
    BY <1>1, <1>20, <2>1 DEF ServeEnds
  <2> DEFINE b == [NoThread EXCEPT !.pc = "ended"]
  <2>3. b \in Threads /\ b.pc = "ended"
    <3>1. NoThread \in Threads
      BY DEF NoThread, Threads
    <3>2. QED
      BY <3>1 DEF Threads
  <2>4. br' = [br EXCEPT ![k] = b]
    BY <1>20 DEF ServeEnds
  <2> HIDE DEF b
  <2>5. Doing(b)
    BY <2>3
  <2>6. QED
    BY <1>2, <1>4, <1>5, <1>7, <1>20, <2>2, <2>3, <2>4, <2>5 DEF ServeEnds
<1>21. CASE Cut(k)
  <2>3. [wire[k] EXCEPT !.link = "cut"] \in Wires
    BY <1>1 DEF Wires
  <2>1. wire' \in [Conns -> Wires] /\ ops' \in Nat
    BY <1>1, <1>5, <1>21, <2>3 DEF Cut
  <2>2. QED
    BY <1>1, <1>3, <1>4, <1>5, <1>7, <1>21, <2>1 DEF Cut, broker
<1>22. QED
  BY <1>8, <1>11, <1>12, <1>13, <1>14, <1>15, <1>16, <1>17, <1>18, <1>19, <1>20, <1>21 DEF ServeNext

(* A device that publishes, and stop(). *)
LEMMA OthersType ==
    ASSUME TypeInv, (\E d \in Devices, form \in Forms : DevicePublishes(d, form))
                      \/ Sweep \/ StopListening \/ UNCHANGED vars
    PROVE  TypeInv'
<1> USE DEF TypeInv
<1>1. wire \in [Conns -> Wires]
  BY DEF BrokerInv
<1>2. CASE Sweep
  <2>1. \A k \in Conns : [wire[k] EXCEPT !.link = "cut"] \in Wires
    BY <1>1 DEF Wires
  <2>2. wire' \in [Conns -> Wires]
    BY <1>1, <1>2, <2>1 DEF Sweep
  <2>3. QED
    BY <1>2, <2>2 DEF Sweep, TransportInv, BrokerInv, JobInv
<1>3. CASE StopListening
  <2>1. \A k \in Conns : [wire[k] EXCEPT !.link = "cut"] \in Wires
    BY <1>1 DEF Wires
  <2>2. wire' \in [Conns -> Wires]
    BY <1>1, <1>3, <2>1 DEF StopListening
  <2>3. QED
    BY <1>3, <2>2 DEF StopListening, TransportInv, BrokerInv, JobInv
<1>4. ASSUME NEW d \in Devices, NEW form \in Forms, DevicePublishes(d, form)
      PROVE  TypeInv'
  <2>1. Publication(form, 0) \in Packets
    BY PublicationType DEF Packets
  <2>2. wire' \in [Conns -> Wires]
    BY <1>1, <1>4, <2>1, ToBrokerType DEF DevicePublishes
  <2>3. QED
    BY <1>4, <2>2 DEF DevicePublishes, broker, TransportInv, BrokerInv, JobInv
<1>5. CASE UNCHANGED vars
  BY <1>5 DEF vars, TransportInv, BrokerInv, JobInv
<1>6. QED
  BY <1>2, <1>3, <1>4, <1>5

LEMMA MqttTypeNext ==
    ASSUME TypeInv, [Next]_vars
    PROVE  TypeInv'
BY CallerType, ServeType, OthersType DEF Next

-----------------------------------------------------------------------------
(* The inbox. *)

(* One message more at the end of both, and perhaps the oldest one less.   *)
LEMMA KeptIsNewest ==
    ASSUME NEW s \in Seq(Nat), NEW a \in Seq(Nat), NEW v \in Nat, NewestOf(s, a)
    PROVE  NewestOf(Kept(s, v), Append(a, v))
<1> DEFINE n == Len(s)
           m == Len(a)
           u == Kept(s, v)
           b == Append(a, v)
<1>1. n \in Nat /\ m \in Nat /\ n <= m /\ \A i \in 1 .. n : s[i] = a[m - n + i]
  BY DEF NewestOf
<1>2. Len(b) = m + 1 /\ b[m + 1] = v /\ \A i \in 1 .. m : b[i] = a[i]
  OBVIOUS
<1>3. CASE n = QueueSize
  <2>1. n > 0 /\ s # <<>>
    BY <1>1, <1>3, MqttAssumption
  <2>2. Tail(s) \in Seq(Nat) /\ Len(Tail(s)) = n - 1 /\ \A i \in 1 .. n - 1 : Tail(s)[i] = s[i + 1]
    BY <2>1
  <2>3. Len(u) = n /\ u[n] = v /\ \A i \in 1 .. n - 1 : u[i] = s[i + 1]
    BY <1>1, <1>3, <2>1, <2>2 DEF Kept
  <2> HIDE DEF n, m, u, b
  <2>4. ASSUME NEW i \in 1 .. n
        PROVE  u[i] = b[(m + 1) - n + i]
    <3>1. CASE i = n
      <4>1. (m + 1) - n + i = m + 1
        BY <1>1, <3>1
      <4>2. QED
        BY <1>2, <2>3, <3>1, <4>1
    <3>2. CASE i # n
      <4>1. i + 1 \in 1 .. n /\ i \in 1 .. n - 1
        BY <1>1, <3>2
      <4>2. m - n + (i + 1) = (m + 1) - n + i /\ (m + 1) - n + i \in 1 .. m
        BY <1>1, <4>1
      <4>3. QED
        BY <1>1, <1>2, <2>3, <4>1, <4>2
    <3>3. QED
      BY <3>1, <3>2
  <2>5. Len(u) <= Len(b)
    BY <1>1, <1>2, <2>3
  <2>6. QED
    BY <1>2, <2>3, <2>4, <2>5 DEF NewestOf, u, b
<1>4. CASE n # QueueSize
  <2>1. Len(u) = n + 1 /\ u[n + 1] = v /\ \A i \in 1 .. n : u[i] = s[i]
    BY <1>4 DEF Kept
  <2> HIDE DEF n, m, u, b
  <2>2. ASSUME NEW i \in 1 .. n + 1
        PROVE  u[i] = b[(m + 1) - (n + 1) + i]
    <3>1. CASE i = n + 1
      <4>1. (m + 1) - (n + 1) + i = m + 1
        BY <1>1, <3>1
      <4>2. QED
        BY <1>2, <2>1, <3>1, <4>1
    <3>2. CASE i # n + 1
      <4>1. i \in 1 .. n /\ (m + 1) - (n + 1) + i = m - n + i /\ m - n + i \in 1 .. m
        BY <1>1, <3>2
      <4>2. QED
        BY <1>1, <1>2, <2>1, <4>1
    <3>3. QED
      BY <3>1, <3>2
  <2>3. Len(u) <= Len(b)
    BY <1>1, <1>2, <2>1
  <2>4. QED
    BY <1>2, <2>1, <2>2, <2>3 DEF NewestOf, u, b
<1>5. QED
  BY <1>3, <1>4

(* Reading takes the oldest. *)
LEMMA TailIsNewest ==
    ASSUME NEW s \in Seq(Nat), NEW a \in Seq(Nat), s # <<>>, NewestOf(s, a)
    PROVE  NewestOf(Tail(s), a)
<1> DEFINE n == Len(s)
           m == Len(a)
<1>1. n \in Nat \ {0} /\ m \in Nat /\ n <= m /\ \A i \in 1 .. n : s[i] = a[m - n + i]
  BY DEF NewestOf
<1>2. Len(Tail(s)) = n - 1 /\ \A i \in 1 .. n - 1 : Tail(s)[i] = s[i + 1]
  OBVIOUS
<1> HIDE DEF n
<1>3. ASSUME NEW i \in 1 .. n - 1
      PROVE  Tail(s)[i] = a[m - (n - 1) + i]
  <2> HIDE DEF m
  <2>1. i + 1 \in 1 .. n /\ m - n + (i + 1) = m - (n - 1) + i
    BY <1>1
  <2>2. QED
    BY <1>1, <1>2, <2>1
<1>4. n - 1 <= m
  BY <1>1
<1>5. QED
  BY <1>2, <1>3, <1>4 DEF NewestOf

(* The end of a sequence is its suffix. *)
LEMMA NewestIsSuffix ==
    ASSUME NEW s \in Seq(Nat), NEW a \in Seq(Nat), NewestOf(s, a)
    PROVE  IsSuffix(s, a)
<1> DEFINE n == Len(s)
           m == Len(a)
           r == Reverse(s)
           q == Reverse(a)
<1>1. n \in Nat /\ m \in Nat /\ n <= m /\ \A i \in 1 .. n : s[i] = a[m - n + i]
  BY DEF NewestOf
<1>2. r \in Seq(Nat) /\ Len(r) = n /\ \A i \in 1 .. n : r[i] = s[(n - i) + 1]
  BY DEF Reverse
<1>3. q \in Seq(Nat) /\ Len(q) = m /\ \A i \in 1 .. m : q[i] = a[(m - i) + 1]
  BY DEF Reverse
<1> HIDE DEF n, m, r, q
<1>4. ASSUME NEW i \in 1 .. n
      PROVE  r[i] = q[i]
  <2>1. (n - i) + 1 \in 1 .. n /\ m - n + ((n - i) + 1) = (m - i) + 1 /\ i \in 1 .. m
    BY <1>1
  <2>2. QED
    BY <1>1, <1>2, <1>3, <2>1, ZenonT(40)
<1>5. SubSeq(r, 1, n) = SubSeq(q, 1, n)
  BY <1>1, <1>2, <1>3, <1>4
<1>6. QED
  BY <1>1, <1>2, <1>3, <1>5 DEF IsSuffix, IsPrefix, r, q


-----------------------------------------------------------------------------
(* Who changes a transport: its own caller and network thread, and the     *)
(* broker by what it sends.                                                *)

LEMMA CallerKeeps ==
    ASSUME TypeInv, NEW c \in Clients, NEW d \in Clients, CallerNext(d) \/ NetNext(d), c # d
    PROVE  tr'[c] = tr[c]
<1>1. tr \in [Clients -> Transports]
  BY DEF TypeInv, TransportInv
<1>2. CASE Open(d)
  BY <1>1, <1>2 DEF Open, Dials
<1>3. CASE OpenReturns(d)
  BY <1>1, <1>3 DEF OpenReturns, Become
<1>4. CASE OpenTimesOut(d)
  BY <1>1, <1>4 DEF OpenTimesOut, TearsDown
<1>5. CASE Close(d)
  BY <1>1, <1>5 DEF Close, TearsDown
<1>6. CASE TeardownEnds(d)
  BY <1>1, <1>6 DEF TeardownEnds
<1>7. ASSUME NEW f \in Filters, Subscribe(d, f)
      PROVE  tr'[c] = tr[c]
  BY <1>1, <1>7 DEF Subscribe
<1>8. CASE SubscribeReturns(d)
  BY <1>1, <1>8 DEF SubscribeReturns
<1>9. CASE SubscribeTimesOut(d)
  BY <1>1, <1>9 DEF SubscribeTimesOut
<1>10. CASE ReadMessage(d)
  BY <1>1, <1>10 DEF ReadMessage
<1>11. ASSUME NEW form \in Forms, Publish(d, form)
      PROVE  tr'[c] = tr[c]
  BY <1>1, <1>11 DEF Publish
<1>12. CASE PublishEnds(d)
  BY <1>1, <1>12 DEF PublishEnds, Become
<1>13. CASE NetLoses(d)
  BY <1>1, <1>13 DEF NetLoses
<1>14. CASE NetHangsUp(d)
  BY <1>1, <1>14 DEF NetHangsUp
<1>15. CASE NetReconnects(d)
  BY <1>1, <1>15 DEF NetReconnects, Dials
<1>16. QED
  BY <1>2, <1>3, <1>4, <1>5, <1>6, <1>7, <1>8, <1>9, <1>10, <1>11, <1>12, <1>13, <1>14, <1>15 DEF CallerNext, NetNext

(* The thread of k sends to k, and in a broadcast to another; only its     *)
(* SUBACK answers a subscribe().                                           *)
LEMMA ServeSends ==
    ASSUME TypeInv, NEW k \in Conns, ServeNext(k), NEW c \in Clients
    PROVE  \/ tr'[c] = tr[c]
           \/ \E p \in Sent :
                /\ tr'[c] = OnPacket(tr[c], p) /\ OnLine(c)
                /\ p.type = "SUBACK" => /\ SendSuback(k) /\ tr[c].conn = k
                                        /\ br[k].pc = "suback" /\ p.id = br[k].job[1].id
<1>1. TransportInv /\ BrokerInv /\ JobInv
  BY DEF TypeInv
<1>2. ASSUME NEW j \in Conns, NEW p \in Sent, Sends(j, p), p.type # "SUBACK"
      PROVE  \/ tr'[c] = tr[c]
             \/ \E q \in Sent : /\ tr'[c] = OnPacket(tr[c], q) /\ OnLine(c) /\ q.type # "SUBACK"
  BY <1>1, <1>2, SendsType
<1>3. CASE UNCHANGED tr
  BY <1>3
<1>4. CASE Connect(k)
  <2>1. Packet("CONNACK", 0, Empty) \in Sent /\ Packet("CONNACK", 0, Empty).type # "SUBACK"
    BY PacketTypes DEF Packet
  <2>2. QED
    BY <1>2, <1>4, <2>1 DEF Connect
<1>5. CASE SendSuback(k)
  <2> DEFINE p == Packet("SUBACK", br[k].job[1].id, Empty)
  <2>1. br[k].pc = "suback" /\ br[k].job[1].id \in Nat
    BY <1>1, <1>5 DEF SendSuback, Thread, JobInv, Subscriptions
  <2>2. p \in Sent /\ p.id = br[k].job[1].id
    BY <2>1, PacketTypes DEF Packet
  <2>3. tr'[c] = tr[c] \/ (tr'[c] = OnPacket(tr[c], p) /\ tr[c].conn = k /\ OnLine(c))
    BY <1>1, <1>5, <2>2, SendsType DEF SendSuback
  <2> HIDE DEF p
  <2>4. QED
    BY <1>5, <2>1, <2>2, <2>3
<1>6. CASE Replay(k)
  <2>1. \A v \in br[k].todo : Packet("PUBLISH", 0, v) \in Sent /\ Packet("PUBLISH", 0, v).type # "SUBACK"
    BY <1>1, PacketTypes DEF Packet, BrokerInv, Threads
  <2>2. QED
    BY <1>2, <1>3, <1>6, <2>1 DEF Replay
<1>7. CASE HandlePublish(k)
  <2> DEFINE p == Packet("PUBACK", Next_(k).id, Empty)
  <2>1. Next_(k) \in Packets /\ Next_(k).id \in Nat
    BY <1>1, <1>7, NextPacket DEF HandlePublish, Takes, Packets, Subscriptions, Publications
  <2>2. p \in Sent /\ p.type # "SUBACK"
    BY <2>1, PacketTypes DEF Packet
  <2>3. tr' = Received(k, p) \/ tr' = tr
    BY <1>7 DEF HandlePublish
  <2> HIDE DEF p
  <2>4. QED
    BY <1>1, <2>2, <2>3, ReceivedType
<1>8. CASE Cast(k)
  <2>1. br[k].todo \subseteq Conns /\ br[k].job[1].body \in Nat
    BY <1>1, <1>8 DEF Cast, Thread, JobInv, Publications
  <2>2. Packet("PUBLISH", 0, br[k].job[1].body) \in Sent
        /\ Packet("PUBLISH", 0, br[k].job[1].body).type # "SUBACK"
    BY <2>1, PacketTypes DEF Packet
  <2>3. QED
    BY <1>2, <1>3, <1>8, <2>1, <2>2 DEF Cast
<1>9. QED
  BY <1>3, <1>4, <1>5, <1>6, <1>7, <1>8
     DEF ServeNext, Accept, HandleSubscribe, TakeSnapshot, Store, Aim, ServeEnds, Cut

-----------------------------------------------------------------------------
(* Transports by themselves. *)

(* One step of the transport's own threads. *)
LEMMA CallerStep ==
    ASSUME TypeInv, NEW c \in Clients, CallerNext(c) \/ NetNext(c),
           NewestOf(tr[c].inbox, tr[c].arrived), CallOf(tr[c])
    PROVE  NewestOf(tr'[c].inbox, tr'[c].arrived) /\ CallOf(tr'[c])
<1>1. tr \in [Clients -> Transports] /\ tr[c] \in Transports
  BY DEF TypeInv, TransportInv
<1>2. Fresh.inbox = <<>> /\ Fresh.arrived = <<>> /\ Fresh.net = "none" /\ NewestOf(<<>>, <<>>)
  BY DEF Fresh, NewestOf
<1>3. CASE Open(c)
  BY <1>1, <1>2, <1>3 DEF Open, Dials, Fresh, CallOf, Whole, Transports, At
<1>4. CASE OpenReturns(c)
  BY <1>1, <1>2, <1>4 DEF OpenReturns, Become, CallOf, Whole, Transports, At
<1>5. CASE OpenTimesOut(c)
  BY <1>1, <1>2, <1>5 DEF OpenTimesOut, TearsDown, CallOf, Whole, Transports, At
<1>6. CASE Close(c)
  BY <1>1, <1>2, <1>6 DEF Close, TearsDown, CallOf, Whole, Transports, At
<1>7. CASE TeardownEnds(c)
  BY <1>1, <1>2, <1>7 DEF TeardownEnds, Fresh, Joined, CallOf, Whole, Transports, At
<1>8. ASSUME NEW f \in Filters, Subscribe(c, f)
      PROVE  NewestOf(tr'[c].inbox, tr'[c].arrived) /\ CallOf(tr'[c])
  BY <1>1, <1>2, <1>8 DEF Subscribe, CanSend, CallOf, Whole, Transports, At
<1>9. CASE SubscribeReturns(c)
  BY <1>1, <1>2, <1>9 DEF SubscribeReturns, CallOf, Whole, Transports, At
<1>10. CASE SubscribeTimesOut(c)
  BY <1>1, <1>2, <1>10 DEF SubscribeTimesOut, CallOf, Whole, Transports, At
<1>11. CASE ReadMessage(c)
  BY <1>1, <1>2, <1>11, TailIsNewest DEF ReadMessage, CallOf, Whole, Transports, At
<1>12. ASSUME NEW form \in Forms, Publish(c, form)
      PROVE  NewestOf(tr'[c].inbox, tr'[c].arrived) /\ CallOf(tr'[c])
  BY <1>1, <1>2, <1>12 DEF Publish, CanSend, CallOf, Whole, Transports, At
<1>13. CASE PublishEnds(c)
  BY <1>1, <1>2, <1>13 DEF PublishEnds, Become, CallOf, Whole, Transports, At
<1>14. CASE NetLoses(c)
  BY <1>1, <1>2, <1>14 DEF NetLoses, OnDisconnect, CallOf, Whole, Transports, At
<1>15. CASE NetHangsUp(c)
  BY <1>1, <1>2, <1>15 DEF NetHangsUp, OnDisconnect, CallOf, Whole, Transports, At
<1>16. CASE NetReconnects(c)
  <2>1. tr[c].net = "lost" /\ tr[c].call \notin {"new", "closed", "giving up", "closing"}
    BY <1>2, <1>16 DEF NetReconnects, CallOf
  <2>2. PICK k \in Conns : tr' = [tr EXCEPT ![c] = [tr[c] EXCEPT !.conn = k, !.net = "run"]]
    BY <1>16 DEF NetReconnects, Dials
  <2>3. tr'[c] = [tr[c] EXCEPT !.conn = k, !.net = "run"]
    BY <1>1, <2>2
  <2>4. QED
    BY <1>1, <2>1, <2>3 DEF CallOf, Whole, Transports
<1>17. QED
  BY <1>3, <1>4, <1>5, <1>6, <1>7, <1>8, <1>9, <1>10, <1>11, <1>12, <1>13, <1>14, <1>15, <1>16 DEF CallerNext, NetNext
(* One packet. *)
LEMMA PacketStep ==
    ASSUME NEW t \in Transports, NEW p \in Sent, NewestOf(t.inbox, t.arrived), CallOf(t),
           t.net \in {"run", "leaving"}
    PROVE  NewestOf(OnPacket(t, p).inbox, OnPacket(t, p).arrived) /\ CallOf(OnPacket(t, p))
<1> DEFINE u == OnPacket(t, p)
<1>1. u.call = t.call /\ u.net = t.net /\ u.closing = t.closing /\ u.granted = t.granted
      /\ u.told = t.told /\ u \in Transports
  BY OnPacketType
<1>2. t.call # "new"
  <2>1. Fresh.net = "none"
    BY DEF Fresh
  <2>2. QED
    BY <2>1 DEF CallOf
<1>3. CASE p.type = "PUBLISH"
  <2>1. t.inbox \in Seq(Nat) /\ t.arrived \in Seq(Nat) /\ p.body \in Nat
    BY <1>3 DEF Transports, Sent
  <2>2. u.inbox = Kept(t.inbox, p.body) /\ u.arrived = Append(t.arrived, p.body)
    BY <1>3, OnPacketType
  <2> HIDE DEF u
  <2>3. NewestOf(u.inbox, u.arrived)
    BY <2>1, <2>2, KeptIsNewest
  <2>4. CallOf(u)
    BY <1>1, <1>2 DEF CallOf, Whole
  <2>5. QED
    BY <2>3, <2>4 DEF u
<1>4. CASE p.type # "PUBLISH"
  <2>1. u.inbox = t.inbox /\ u.arrived = t.arrived
    BY <1>4, OnPacketType
  <2> HIDE DEF u
  <2>2. CallOf(u)
    BY <1>1, <1>2 DEF CallOf, Whole
  <2>3. QED
    BY <2>1, <2>2 DEF u
<1>5. QED
  BY <1>3, <1>4

LEMMA OwnNext ==
    ASSUME TypeInv, InboxInv, CallInv, [Next]_vars
    PROVE  InboxInv' /\ CallInv'
<1> SUFFICES ASSUME NEW c \in Clients
             PROVE  NewestOf(tr'[c].inbox, tr'[c].arrived) /\ CallOf(tr'[c])
  BY DEF InboxInv, CallInv
<1>1. tr[c] \in Transports /\ NewestOf(tr[c].inbox, tr[c].arrived) /\ CallOf(tr[c])
  BY DEF TypeInv, TransportInv, InboxInv, CallInv
<1>2. ASSUME NEW d \in Clients, CallerNext(d) \/ NetNext(d)
      PROVE  NewestOf(tr'[c].inbox, tr'[c].arrived) /\ CallOf(tr'[c])
  <2>1. CASE d = c
    BY <1>1, <1>2, <2>1, CallerStep
  <2>2. CASE d # c
    BY <1>1, <1>2, <2>2, CallerKeeps
  <2>3. QED
    BY <2>1, <2>2
<1>3. ASSUME NEW k \in Conns, ServeNext(k)
      PROVE  NewestOf(tr'[c].inbox, tr'[c].arrived) /\ CallOf(tr'[c])
  <2>1. CASE tr'[c] = tr[c]
    BY <1>1, <2>1
  <2>2. CASE \E p \in Sent : tr'[c] = OnPacket(tr[c], p) /\ OnLine(c)
    BY <1>1, <2>2, PacketStep DEF OnLine
  <2>3. QED
    BY <1>3, <2>1, <2>2, ServeSends
<1>4. ASSUME UNCHANGED tr
      PROVE  NewestOf(tr'[c].inbox, tr'[c].arrived) /\ CallOf(tr'[c])
  BY <1>1, <1>4
<1>5. QED
  BY <1>2, <1>3, <1>4 DEF Next, DevicePublishes, Sweep, StopListening, vars

-----------------------------------------------------------------------------
(* Lines. *)

(* A line in somebody's hands is nobody else's to dial. *)
LEMMA DialedIsFree ==
    ASSUME LineInv, NEW k \in Conns, Unused(k)
    PROVE  /\ k \notin Devices /\ br[k].pc \in {"none", "ended"}
           /\ \A c \in Clients : OnLine(c) => tr[c].conn # k
BY DEF Unused, OnLine

(* After a caller's step another transport's line is as it was, but for a  *)
(* thread of the broker: nobody hangs up a line that is not his.           *)
LEMMA LineCaller ==
    ASSUME TypeInv, CallInv, LineInv, NEW d \in Clients, CallerNext(d) \/ NetNext(d)
    PROVE  LineInv'
<1>1. /\ tr \in [Clients -> Transports] /\ wire \in [Conns -> Wires] /\ br \in [Conns -> Threads]
      /\ tr[d] \in Transports
  BY DEF TypeInv, TransportInv, BrokerInv
<1>2. \A c \in Clients \ {d} : tr'[c] = tr[c]
  BY CallerKeeps
<1>3. ASSUME NEW t \in Transports, Dials(d, t)
      PROVE  LineInv'
  <2>1. PICK k \in Conns :
             /\ Unused(k) /\ wire'[k].link = "backlog" /\ wire' \in [Conns -> Wires]
             /\ wire'[k].up = <<Packet("CONNECT", 0, Empty)>> \o t.unacked
             /\ \A j \in Conns \ {k} : wire'[j] = wire[j]
             /\ tr' = [tr EXCEPT ![d] = [t EXCEPT !.conn = k, !.net = "run"]]
             /\ br' = [br EXCEPT ![k] = NoThread] /\ got' = [got EXCEPT ![k] = {}]
             /\ UNCHANGED <<listening, clients, retained, ops>>
    BY <1>3, DialsType
  <2>2. tr'[d].conn = k
    BY <1>1, <2>1 DEF Transports
  <2>3. k \notin Devices /\ \A c \in Clients : OnLine(c) => tr[c].conn # k
    BY <2>1, DialedIsFree
  <2>4. \A c \in Clients \ {d} : OnLine(c)' <=> OnLine(c)
    BY <1>2 DEF OnLine
  <2>5. br'[k].pc = "none" /\ \A j \in Conns \ {k} : br'[j] = br[j]
    BY <1>1, <2>1 DEF NoThread
  <2>6. ASSUME NEW c \in Clients, OnLine(c)'
        PROVE  tr'[c].conn \in Conns \ Devices /\ wire'[tr'[c].conn].link \in {"backlog", "up", "cut"}
    BY <1>2, <2>1, <2>2, <2>3, <2>4, <2>6 DEF LineInv
  <2>7. ASSUME NEW c \in Clients, NEW e \in Clients, OnLine(c)', OnLine(e)', tr'[c].conn = tr'[e].conn
        PROVE  c = e
    BY <1>2, <2>2, <2>3, <2>4, <2>7 DEF LineInv
  <2>8. \A j \in Conns : wire'[j].link = "backlog" => br'[j].pc = "none"
    BY <2>1, <2>5 DEF LineInv
  <2>9. QED
    BY <2>6, <2>7, <2>8 DEF LineInv
<1>4. ASSUME tr'[d].net \in {"run", "leaving"} => tr'[d].conn = tr[d].conn /\ OnLine(d),
             \A j \in Conns : wire'[j].link = wire[j].link, UNCHANGED br
      PROVE  LineInv'
  <2>1. \A c \in Clients : OnLine(c)' => OnLine(c) /\ tr'[c].conn = tr[c].conn
    BY <1>2, <1>4 DEF OnLine
  <2>2. QED
    BY <1>4, <2>1 DEF LineInv
<1>5. ASSUME UNCHANGED <<wire, broker>>,
             tr'[d].net \in {"run", "leaving"} => tr'[d].conn = tr[d].conn /\ OnLine(d)
      PROVE  LineInv'
  BY <1>4, <1>5 DEF broker
<1>6. CASE Open(d)
  <2>1. [tr[d] EXCEPT !.call = "opening"] \in Transports
    BY <1>1 DEF Transports, Calls
  <2>2. QED
    BY <1>1, <1>3, <1>6, <2>1 DEF Open
<1>7. CASE OpenReturns(d)
  BY <1>1, <1>5, <1>7 DEF OpenReturns, Become, OnLine, Transports
<1>8. CASE OpenTimesOut(d)
  BY <1>1, <1>5, <1>8 DEF OpenTimesOut, TearsDown, OnLine, Transports
<1>9. CASE Close(d)
  BY <1>1, <1>5, <1>9 DEF Close, TearsDown, OnLine, Transports
<1>10. CASE TeardownEnds(d)
  BY <1>1, <1>5, <1>10 DEF TeardownEnds, Joined, Fresh, OnLine, Transports
<1>11. ASSUME NEW f \in Filters, Subscribe(d, f)
      PROVE  LineInv'
  <2>1. Packet("SUBSCRIBE", tr[d].mid + 1, f) \in Packets
    BY <1>1, PacketTypes DEF Packets, Transports
  <2>2. \A j \in Conns : wire'[j].link = wire[j].link
    BY <1>1, <1>11, <2>1, ToBrokerType DEF Subscribe
  <2>3. QED
    BY <1>1, <1>4, <1>11, <2>2 DEF Subscribe, broker, OnLine, Transports
<1>12. CASE SubscribeReturns(d)
  BY <1>1, <1>5, <1>12 DEF SubscribeReturns, OnLine, Transports
<1>13. CASE SubscribeTimesOut(d)
  BY <1>1, <1>5, <1>13 DEF SubscribeTimesOut, OnLine, Transports
<1>14. CASE ReadMessage(d)
  BY <1>1, <1>5, <1>14 DEF ReadMessage, OnLine, Transports
<1>15. ASSUME NEW form \in Forms, Publish(d, form)
      PROVE  LineInv'
  <2>1. Publication(form, tr[d].mid + 1) \in Packets
    BY <1>1, PublicationType DEF Packets, Transports, TypeInv
  <2>2. \A j \in Conns : wire'[j].link = wire[j].link
    BY <1>1, <1>15, <2>1, ToBrokerType DEF Publish
  <2>3. QED
    BY <1>1, <1>4, <1>15, <2>2 DEF Publish, broker, OnLine, Transports
<1>16. CASE PublishEnds(d)
  BY <1>1, <1>5, <1>16 DEF PublishEnds, Become, OnLine, Transports
<1>17. CASE NetLoses(d)
  BY <1>1, <1>5, <1>17 DEF NetLoses, OnDisconnect, OnLine, Transports
<1>18. CASE NetHangsUp(d)
  <2> DEFINE k == tr[d].conn
             w == ToBroker(wire, k, Packet("DISCONNECT", 0, Empty))
  <2>1. OnLine(d) /\ k \in Conns
    BY <1>18 DEF NetHangsUp, OnLine, LineInv
  <2>2. w \in [Conns -> Wires] /\ \A j \in Conns : w[j].link = wire[j].link
    BY <1>1, PacketTypes, ToBrokerType
  <2>3. wire' = [w EXCEPT ![k].link = IF w[k].link = "cut" THEN "cut" ELSE "shut"]
    BY <1>18 DEF NetHangsUp
  <2>4. tr'[d].net = "lost" /\ UNCHANGED br
    BY <1>1, <1>18 DEF NetHangsUp, OnDisconnect, Transports, broker
  <2> HIDE DEF w
  <2>5. wire'[k].link \in {"cut", "shut"} /\ \A j \in Conns \ {k} : wire'[j].link = wire[j].link
    BY <2>1, <2>2, <2>3 DEF Wires
  <2>6. \A c \in Clients : OnLine(c)' => c # d /\ OnLine(c) /\ tr'[c].conn = tr[c].conn /\ tr[c].conn # k
    BY <1>2, <2>1, <2>4 DEF OnLine, LineInv
  <2>7. QED
    BY <2>4, <2>5, <2>6 DEF LineInv
<1>19. CASE NetReconnects(d)
  <2>1. [tr[d] EXCEPT !.call = "opening"] \in Transports
    BY <1>1 DEF Transports, Calls
  <2>2. QED
    BY <1>1, <1>3, <1>19, <2>1 DEF NetReconnects
<1>20. QED
  BY <1>6, <1>7, <1>8, <1>9, <1>10, <1>11, <1>12, <1>13, <1>14, <1>15, <1>16, <1>17, <1>18, <1>19 DEF CallerNext, NetNext

(* What a serving thread leaves alone. *)
LEMMA ServeFrame ==
    ASSUME TypeInv, NEW k \in Conns, ServeNext(k)
    PROVE  /\ \A j \in Conns \ {k} : wire'[j] = wire[j] /\ br'[j] = br[j]
           /\ wire'[k].link \in {wire[k].link, "cut"}
                \/ (wire[k].link = "backlog" /\ wire'[k].link = "up")
           /\ br[k].pc = "none" => br'[k].pc = "none" \/ wire'[k].link # "backlog"
           /\ br'[k].pc = "none" => br[k].pc = "none"
<1>1. /\ wire \in [Conns -> Wires] /\ br \in [Conns -> Threads]
      /\ wire[k] \in Wires /\ br[k] \in Threads
  BY DEF TypeInv, BrokerInv
<1>2. CASE Accept(k)
  BY <1>1, <1>2 DEF Accept, Goes, Thread, Wires, Threads
<1>3. CASE Connect(k)
  BY <1>1, <1>3 DEF Connect, Takes, Taken, Thread, Wires, Threads
<1>4. CASE HandleSubscribe(k)
  BY <1>1, <1>4 DEF HandleSubscribe, Takes, Taken, Thread, Wires, Threads
<1>5. CASE SendSuback(k)
  BY <1>1, <1>5 DEF SendSuback, Thread, Goes, Wires, Threads
<1>6. CASE TakeSnapshot(k)
  BY <1>1, <1>6 DEF TakeSnapshot, Thread, Wires, Threads
<1>7. CASE Replay(k)
  <2>1. UNCHANGED wire /\ br[k].pc = "replay"
    BY <1>7 DEF Replay, Thread
  <2>2. CASE Goes(k, "idle")
    BY <1>1, <2>1, <2>2 DEF Goes, Threads
  <2>3. ASSUME NEW v \in br[k].todo, br' = [br EXCEPT ![k].todo = @ \ {v}]
        PROVE  br'[k].pc = br[k].pc /\ \A j \in Conns \ {k} : br'[j] = br[j]
    BY <1>1, <2>3 DEF Threads
  <2>4. QED
    BY <1>7, <2>1, <2>2, <2>3 DEF Replay
<1>8. CASE HandlePublish(k)
  BY <1>1, <1>8 DEF HandlePublish, Takes, Taken, Thread, PublishGoes, Wires, Threads
<1>9. CASE Store(k)
  BY <1>1, <1>9 DEF Store, Thread, Goes, PublishGoes, Wires, Threads
<1>10. CASE Aim(k)
  BY <1>1, <1>10 DEF Aim, Thread, Wires, Threads
<1>11. CASE Cast(k)
  <2>1. UNCHANGED wire /\ br[k].pc = "cast"
    BY <1>11 DEF Cast, Thread
  <2>2. CASE Goes(k, PublishGoes(br[k].job[1], "cast"))
    BY <1>1, <2>1, <2>2 DEF Goes, PublishGoes, Threads
  <2>3. ASSUME NEW v \in br[k].todo, br' = [br EXCEPT ![k].todo = @ \ {v}]
        PROVE  br'[k].pc = br[k].pc /\ \A j \in Conns \ {k} : br'[j] = br[j]
    BY <1>1, <2>3 DEF Threads
  <2>4. QED
    BY <1>11, <2>1, <2>2, <2>3 DEF Cast
<1>12. CASE ServeEnds(k)
  BY <1>1, <1>12 DEF ServeEnds, Thread, Takes, NoThread, Wires, Threads
<1>13. CASE Cut(k)
  BY <1>1, <1>13 DEF Cut, broker, Wires, Threads
<1>14. QED
  BY <1>2, <1>3, <1>4, <1>5, <1>6, <1>7, <1>8, <1>9, <1>10, <1>11, <1>12, <1>13 DEF ServeNext

(* A packet leaves the line of its transport as it is. *)
LEMMA ServeKeeps ==
    ASSUME TypeInv, NEW k \in Conns, ServeNext(k), NEW c \in Clients
    PROVE  /\ tr'[c].conn = tr[c].conn /\ tr'[c].net = tr[c].net
           /\ tr'[c].closing = tr[c].closing /\ tr'[c].told = tr[c].told
<1>1. tr[c] \in Transports
  BY DEF TypeInv, TransportInv
<1>2. QED
  BY <1>1, ServeSends, OnPacketType

LEMMA LineNext ==
    ASSUME TypeInv, CallInv, LineInv, [Next]_vars
    PROVE  LineInv'
<1>1. ASSUME NEW k \in Conns, ServeNext(k)
      PROVE  LineInv'
  <2>1. \A c \in Clients : tr'[c].conn = tr[c].conn /\ (OnLine(c)' <=> OnLine(c))
    BY <1>1, ServeKeeps DEF OnLine
  <2>2. \A j \in Conns : \/ wire'[j].link \in {wire[j].link, "cut"}
                        \/ (wire[j].link = "backlog" /\ wire'[j].link = "up")
    BY <1>1, ServeFrame
  <2>3. \A j \in Conns : wire'[j].link = "backlog" => br'[j].pc = "none"
    BY <1>1, <2>2, ServeFrame DEF LineInv
  <2>4. QED
    BY <2>1, <2>2, <2>3 DEF LineInv
<1>2. ASSUME UNCHANGED <<tr, br>>, \A k \in Conns : wire'[k].link \in {wire[k].link, "cut"}
      PROVE  LineInv'
  BY <1>2 DEF LineInv, OnLine
<1>3. CASE Sweep
  BY <1>2, <1>3 DEF Sweep, TypeInv, BrokerInv, Wires
<1>4. CASE StopListening
  BY <1>2, <1>4 DEF StopListening, TypeInv, BrokerInv, Wires
<1>5. ASSUME NEW d \in Devices, NEW form \in Forms, DevicePublishes(d, form)
      PROVE  LineInv'
  <2>1. Publication(form, 0) \in Packets
    BY PublicationType DEF Packets, TypeInv
  <2>2. \A k \in Conns : wire'[k].link = wire[k].link
    BY <1>5, <2>1, ToBrokerType DEF DevicePublishes, TypeInv, BrokerInv
  <2>3. QED
    BY <1>2, <1>5, <2>2 DEF DevicePublishes, broker
<1>6. CASE UNCHANGED vars
  BY <1>2, <1>6 DEF vars
<1>7. QED
  BY <1>1, <1>3, <1>4, <1>5, <1>6, LineCaller DEF Next

-----------------------------------------------------------------------------
(* Subscriptions. *)

(* What is on a line after a packet was written to it. *)
LEMMA AppendItems ==
    ASSUME NEW s \in Seq(Packets), NEW p \in Packets, NEW u \in {s, Append(s, p)},
           NEW i \in 1 .. Len(u)
    PROVE  u[i] = p \/ (i \in 1 .. Len(s) /\ u[i] = s[i])
<1>1. CASE u = s
  BY <1>1
<1>2. CASE u = Append(s, p)
  <2>1. Len(u) = Len(s) + 1 /\ u[Len(s) + 1] = p /\ \A j \in 1 .. Len(s) : u[j] = s[j]
    BY <1>2
  <2>2. i \in 1 .. Len(s) \/ i = Len(s) + 1
    BY <2>1
  <2>3. QED
    BY <2>1, <2>2
<1>3. QED
  BY <1>1, <1>2

(* A thread or an answer that has nothing to do with subscriptions.        *)
LEMMA AccountKept ==
    ASSUME NEW t \in Transports, NEW u \in Transports, NEW w \in Wires, NEW v \in Wires,
           NEW b \in Threads, NEW d \in Threads,
           AccountedFor(t, w, b),
           u.call = t.call /\ u.arg = t.arg /\ u.mid = t.mid /\ u.granted = t.granted,
           u.results = t.results,
           v.up = w.up \/ (w.up # <<>> /\ v.up = Tail(w.up)) \/ v.up = <<>>,
           d.subs = b.subs, d.pc = "suback" => b.pc = "suback" /\ d.job = b.job
    PROVE  AccountedFor(u, v, d)
<1>1. \A i \in 1 .. Len(v.up) : \E j \in 1 .. Len(w.up) : v.up[i] = w.up[j]
  <2>1. w.up \in Seq(Packets)
    BY DEF Wires
  <2>2. CASE w.up # <<>> /\ v.up = Tail(w.up)
    BY <2>1, <2>2
  <2>3. CASE v.up = w.up \/ v.up = <<>>
    BY <2>1, <2>3
  <2>4. QED
    BY <2>2, <2>3
<1>2. \A p : Fits(t, p) => Fits(u, p)
  BY DEF Fits
<1>3. \A i \in 1 .. Len(v.up) : v.up[i].type = "SUBSCRIBE" => Fits(u, v.up[i])
  BY <1>1, <1>2 DEF AccountedFor
<1>4. QED
  BY <1>2, <1>3 DEF AccountedFor

(* A transport's step does not touch another's line. *)
LEMMA CallerFrame ==
    ASSUME TypeInv, CallInv, LineInv, NEW d \in Clients, CallerNext(d) \/ NetNext(d),
           NEW c \in Clients \ {d}, OnLine(c)
    PROVE  wire'[tr[c].conn] = wire[tr[c].conn] /\ br'[tr[c].conn] = br[tr[c].conn]
<1> DEFINE k == tr[c].conn
<1>1. /\ wire \in [Conns -> Wires] /\ br \in [Conns -> Threads] /\ tr[d] \in Transports /\ k \in Conns
  BY DEF TypeInv, TransportInv, BrokerInv, LineInv
<1>2. OnLine(d) => tr[d].conn # k
  BY DEF LineInv
<1>3. ASSUME NEW t \in Transports, Dials(d, t)
      PROVE  wire'[k] = wire[k] /\ br'[k] = br[k]
  <2>1. PICK j \in Conns :
             /\ Unused(j) /\ wire'[j].link = "backlog" /\ wire' \in [Conns -> Wires]
             /\ wire'[j].up = <<Packet("CONNECT", 0, Empty)>> \o t.unacked
             /\ \A i \in Conns \ {j} : wire'[i] = wire[i]
             /\ tr' = [tr EXCEPT ![d] = [t EXCEPT !.conn = j, !.net = "run"]]
             /\ br' = [br EXCEPT ![j] = NoThread] /\ got' = [got EXCEPT ![j] = {}]
             /\ UNCHANGED <<listening, clients, retained, ops>>
    BY <1>3, DialsType
  <2>2. j # k
    BY <2>1, DialedIsFree
  <2>3. QED
    BY <1>1, <2>1, <2>2
<1>4. ASSUME NEW p \in Packets, wire' = ToBroker(wire, tr[d].conn, p), OnLine(d)
      PROVE  wire'[k] = wire[k]
  BY <1>1, <1>2, <1>4, ToBrokerType
<1>5. CASE UNCHANGED <<wire, br>>
  BY <1>5
<1>6. CASE Open(d)
  <2>1. [tr[d] EXCEPT !.call = "opening"] \in Transports
    BY <1>1 DEF Transports, Calls
  <2>2. QED
    BY <1>3, <1>6, <2>1 DEF Open
<1>7. CASE NetReconnects(d)
  BY <1>1, <1>3, <1>7 DEF NetReconnects
<1>8. ASSUME NEW f \in Filters, Subscribe(d, f)
      PROVE  wire'[k] = wire[k] /\ br'[k] = br[k]
  <2>1. Packet("SUBSCRIBE", tr[d].mid + 1, f) \in Packets
    BY <1>1, PacketTypes DEF Packets, Transports
  <2>2. QED
    BY <1>4, <1>8, <2>1 DEF Subscribe, CanSend, OnLine, broker
<1>9. ASSUME NEW form \in Forms, Publish(d, form)
      PROVE  wire'[k] = wire[k] /\ br'[k] = br[k]
  <2>1. Publication(form, tr[d].mid + 1) \in Packets
    BY <1>1, PublicationType DEF Packets, Transports, TypeInv
  <2>2. QED
    BY <1>4, <1>9, <2>1 DEF Publish, CanSend, OnLine, broker
<1>10. CASE NetHangsUp(d)
  <2> DEFINE w == ToBroker(wire, tr[d].conn, Packet("DISCONNECT", 0, Empty))
  <2>1. tr[d].conn # k
    BY <1>2, <1>10 DEF NetHangsUp, OnLine
  <2>2. w \in [Conns -> Wires] /\ w[k] = wire[k]
    BY <1>1, <2>1, PacketTypes, ToBrokerType
  <2>3. wire' = [w EXCEPT ![tr[d].conn].link = IF w[tr[d].conn].link = "cut" THEN "cut" ELSE "shut"]
    BY <1>10 DEF NetHangsUp
  <2> HIDE DEF w
  <2>4. wire'[k] = w[k]
    BY <1>1, <2>1, <2>2, <2>3
  <2>5. QED
    BY <1>10, <2>2, <2>4 DEF NetHangsUp, broker
<1>11. QED
  BY <1>5, <1>6, <1>7, <1>8, <1>9, <1>10
     DEF CallerNext, NetNext, OpenReturns, OpenTimesOut, Close, TearsDown, TeardownEnds,
         SubscribeReturns, SubscribeTimesOut, ReadMessage, PublishEnds, NetLoses, broker

(* The calls of a transport, one by one, on its own line. *)
LEMMA SubCaller ==
    ASSUME TypeInv, CallInv, LineInv, SubInv, NEW c \in Clients, CallerNext(c) \/ NetNext(c),
           Whole(tr'[c]), tr'[c].net = "run", wire'[tr'[c].conn].link # "cut"
    PROVE  AccountedFor(tr'[c], wire'[tr'[c].conn], br'[tr'[c].conn])
<1> DEFINE k == tr[c].conn
<1>1. /\ tr \in [Clients -> Transports] /\ wire \in [Conns -> Wires] /\ br \in [Conns -> Threads]
      /\ tr[c] \in Transports /\ CallOf(tr[c])
  BY DEF TypeInv, TransportInv, BrokerInv, CallInv
<1>2. ASSUME tr[c].net = "run", Whole(tr[c]), wire[k].link # "cut"
      PROVE  AccountedFor(tr[c], wire[k], br[k]) /\ k \in Conns
  BY <1>2 DEF SubInv, LineInv, OnLine
<1>3. ASSUME UNCHANGED <<wire, br>>, tr[c].net = "run", Whole(tr[c]), tr'[c].conn = k,
             tr'[c].mid = tr[c].mid, tr'[c].call # "subscribing", tr'[c].results \subseteq tr[c].results,
             tr'[c].granted \subseteq tr[c].granted \/
               (tr[c].call = "subscribing" /\ tr[c].mid \in tr[c].results
                 /\ tr'[c].granted = tr[c].granted \cup {tr[c].arg})
      PROVE  AccountedFor(tr'[c], wire'[tr'[c].conn], br'[tr'[c].conn])
  BY <1>2, <1>3 DEF AccountedFor, Fits
<1>4. CASE Open(c)
  <2>1. tr[c] = Fresh
    BY <1>1, <1>4 DEF Open, At, CallOf
  <2> DEFINE t == [Fresh EXCEPT !.call = "opening"]
  <2>2. t \in Transports /\ t.unacked = <<>> /\ t.call = "opening" /\ t.results = {} /\ t.granted = {}
    <3>1. tr[c].unacked = <<>> /\ tr[c].results = {} /\ tr[c].granted = {}
      BY <2>1 DEF Fresh
    <3>2. t = [tr[c] EXCEPT !.call = "opening"]
      BY <2>1
    <3> HIDE DEF t
    <3>3. QED
      BY <1>1, <3>1, <3>2 DEF Transports, Calls
  <2>3. Dials(c, t)
    BY <1>4, <2>1 DEF Open
  <2> HIDE DEF t
  <2>4. PICK j \in Conns :
             /\ Unused(j) /\ wire'[j].link = "backlog" /\ wire' \in [Conns -> Wires]
             /\ wire'[j].up = <<Packet("CONNECT", 0, Empty)>> \o t.unacked
             /\ \A i \in Conns \ {j} : wire'[i] = wire[i]
             /\ tr' = [tr EXCEPT ![c] = [t EXCEPT !.conn = j, !.net = "run"]]
             /\ br' = [br EXCEPT ![j] = NoThread] /\ got' = [got EXCEPT ![j] = {}]
             /\ UNCHANGED <<listening, clients, retained, ops>>
    BY <2>2, <2>3, DialsType
  <2>5. /\ tr'[c].conn = j /\ tr'[c].call = "opening" /\ tr'[c].results = {} /\ tr'[c].granted = {}
        /\ br'[j].pc = "none"
    BY <1>1, <2>2, <2>4 DEF Transports, NoThread
  <2>6. wire'[j].up = <<Packet("CONNECT", 0, Empty)>>
    <3>1. Packet("CONNECT", 0, Empty) \in Packets
      BY PacketTypes
    <3>2. <<Packet("CONNECT", 0, Empty)>> \in Seq(Packets)
      BY <3>1
    <3>3. QED
      BY <2>2, <2>4, <3>2
  <2>7. \A i \in 1 .. Len(wire'[j].up) : wire'[j].up[i].type # "SUBSCRIBE"
    <3>1. Packet("CONNECT", 0, Empty).type = "CONNECT"
      BY DEF Packet
    <3>2. QED
      BY <2>6, <3>1
  <2>8. QED
    BY <2>5, <2>7 DEF AccountedFor
<1>5. CASE NetReconnects(c)
  <2>1. ~Whole(tr[c])
    <3>1. Fresh.net = "none"
      BY DEF Fresh
    <3>2. QED
      BY <1>1, <1>5, <3>1 DEF NetReconnects, CallOf
  <2>2. PICK j \in Conns : tr' = [tr EXCEPT ![c] = [tr[c] EXCEPT !.conn = j, !.net = "run"]]
    BY <1>5 DEF NetReconnects, Dials
  <2>3. QED
    BY <1>1, <2>1, <2>2 DEF Whole, Transports
<1>6. ASSUME NEW f \in Filters, Subscribe(c, f)
      PROVE  AccountedFor(tr'[c], wire'[tr'[c].conn], br'[tr'[c].conn])
  <2> DEFINE p == Packet("SUBSCRIBE", tr[c].mid + 1, f)
  <2>1. p \in Packets /\ p.id = tr[c].mid + 1 /\ p.body = f
    <3>1. tr[c].mid + 1 \in Nat
      BY <1>1 DEF Transports
    <3>2. p \in Subscriptions
      BY <3>1, PacketTypes
    <3>3. p.id = tr[c].mid + 1 /\ p.body = f
      BY DEF Packet
    <3>4. QED
      BY <3>2, <3>3 DEF Packets
  <2>2. /\ tr'[c] = [tr[c] EXCEPT !.call = "subscribing", !.arg = f, !.mid = tr[c].mid + 1]
        /\ wire' = ToBroker(wire, k, p) /\ UNCHANGED br /\ tr[c].net = "run"
    BY <1>1, <1>6 DEF Subscribe, CanSend, broker
  <2> HIDE DEF p
  <2>3. /\ tr'[c].call = "subscribing" /\ tr'[c].arg = f /\ tr'[c].mid = tr[c].mid + 1
        /\ tr'[c].conn = k /\ tr'[c].results = tr[c].results /\ tr'[c].granted = tr[c].granted
        /\ Whole(tr[c]) /\ tr[c].mid \in Nat /\ tr[c].results \subseteq Nat
    BY <1>1, <2>2 DEF Transports, Whole
  <2>4. k \in Conns /\ wire[k] \in Wires
    BY <1>1, <2>2 DEF LineInv, OnLine
  <2>5. wire'[k].link = wire[k].link /\ wire'[k].up \in {wire[k].up, Append(wire[k].up, p)}
    BY <1>1, <2>1, <2>2, <2>4, ToBrokerType
  <2>6. AccountedFor(tr[c], wire[k], br[k])
    BY <1>2, <2>2, <2>3, <2>5
  <2>7. \A q : q.id \in Nat /\ Fits(tr[c], q) => Fits(tr'[c], q)
    BY <2>3 DEF Fits
  <2>8. \A i \in 1 .. Len(wire'[k].up) : wire'[k].up[i].type = "SUBSCRIBE" => Fits(tr'[c], wire'[k].up[i])
    <3>1. wire[k].up \in Seq(Packets) /\ \A q \in Packets : q.id \in Nat
      BY <2>4 DEF Wires, Packets, Subscriptions, Publications
    <3>2. \A i \in 1 .. Len(wire[k].up) : wire[k].up[i].type = "SUBSCRIBE" => Fits(tr'[c], wire[k].up[i])
      BY <2>6, <2>7, <3>1 DEF AccountedFor
    <3>3. Fits(tr'[c], p)
      BY <2>1, <2>3 DEF Fits
    <3>4. \A i \in 1 .. Len(wire'[k].up) : wire'[k].up[i] = p \/
             (i \in 1 .. Len(wire[k].up) /\ wire'[k].up[i] = wire[k].up[i])
      BY <2>1, <2>5, <3>1, AppendItems
    <3>5. QED
      BY <3>2, <3>3, <3>4
  <2>9. br[k].pc = "suback" => Fits(tr'[c], br[k].job[1]) /\ br[k].job[1].body \in br[k].subs
    <3>1. br[k].pc = "suback" => br[k].job[1].id \in Nat
      BY <2>4 DEF TypeInv, JobInv, Subscriptions
    <3>2. QED
      BY <2>6, <2>7, <3>1 DEF AccountedFor
  <2>10. \A m \in tr[c].results : m <= tr[c].mid /\ m <= tr[c].mid + 1 /\ m # tr[c].mid + 1
    BY <2>3, <2>6 DEF AccountedFor
  <2>11. QED
    BY <2>2, <2>3, <2>6, <2>8, <2>9, <2>10 DEF AccountedFor
<1>7. ASSUME NEW form \in Forms, Publish(c, form)
      PROVE  AccountedFor(tr'[c], wire'[tr'[c].conn], br'[tr'[c].conn])
  <2> DEFINE p == Publication(form, tr[c].mid + 1)
  <2>1. p \in Packets /\ p.type = "PUBLISH"
    <3>1. tr[c].mid + 1 \in Nat
      BY <1>1 DEF Transports
    <3>2. p \in Publications
      BY <3>1, PublicationType DEF TypeInv
    <3> HIDE DEF p
    <3>3. QED
      BY <3>2 DEF Packets, Publications
  <2>2. /\ tr' = [tr EXCEPT
            ![c].mid = @ + 1,
            ![c].call = IF p.qos = 0 THEN "idle" ELSE "publishing",
            ![c].unacked = IF p.qos = 0 THEN @ ELSE Append(@, p)]
        /\ wire' = ToBroker(wire, k, p) /\ UNCHANGED br /\ tr[c].net = "run"
    BY <1>7 DEF Publish, CanSend, broker
  <2> HIDE DEF p
  <2>3. /\ tr'[c].call # "subscribing" /\ tr'[c].mid = tr[c].mid + 1
        /\ tr'[c].conn = k /\ tr'[c].results = tr[c].results /\ tr'[c].granted = tr[c].granted
        /\ Whole(tr[c]) /\ tr[c].mid \in Nat /\ tr[c].results \subseteq Nat
    BY <1>1, <2>2 DEF Transports, Whole
  <2>4. k \in Conns /\ wire[k] \in Wires
    BY <1>1, <2>2 DEF LineInv, OnLine
  <2>5. wire'[k].link = wire[k].link /\ wire'[k].up \in {wire[k].up, Append(wire[k].up, p)}
    BY <1>1, <2>1, <2>2, <2>4, ToBrokerType
  <2>6. AccountedFor(tr[c], wire[k], br[k])
    BY <1>2, <2>2, <2>3, <2>5
  <2>7. \A q : q.id \in Nat /\ Fits(tr[c], q) => Fits(tr'[c], q)
    BY <2>3 DEF Fits
  <2>8. \A i \in 1 .. Len(wire'[k].up) : wire'[k].up[i].type = "SUBSCRIBE" => Fits(tr'[c], wire'[k].up[i])
    <3>1. wire[k].up \in Seq(Packets) /\ \A q \in Packets : q.id \in Nat
      BY <2>4 DEF Wires, Packets, Subscriptions, Publications
    <3>2. \A i \in 1 .. Len(wire[k].up) : wire[k].up[i].type = "SUBSCRIBE" => Fits(tr'[c], wire[k].up[i])
      BY <2>6, <2>7, <3>1 DEF AccountedFor
    <3>3. \A i \in 1 .. Len(wire'[k].up) : wire'[k].up[i] = p \/
             (i \in 1 .. Len(wire[k].up) /\ wire'[k].up[i] = wire[k].up[i])
      BY <2>1, <2>5, <3>1, AppendItems
    <3>4. QED
      BY <2>1, <3>2, <3>3
  <2>9. br[k].pc = "suback" => Fits(tr'[c], br[k].job[1]) /\ br[k].job[1].body \in br[k].subs
    <3>1. br[k].pc = "suback" => br[k].job[1].id \in Nat
      BY <2>4 DEF TypeInv, JobInv, Subscriptions
    <3>2. QED
      BY <2>6, <2>7, <3>1 DEF AccountedFor
  <2>10. \A m \in tr[c].results : m <= tr[c].mid + 1
    BY <2>3, <2>6 DEF AccountedFor
  <2>11. QED
    BY <2>2, <2>3, <2>6, <2>8, <2>9, <2>10 DEF AccountedFor
<1>8. CASE OpenReturns(c)
  BY <1>1, <1>3, <1>8 DEF OpenReturns, Become, Transports, Whole, broker
<1>9. CASE OpenTimesOut(c) \/ Close(c)
  <2>1. ASSUME NEW from, NEW call, TearsDown(c, from, call)
        PROVE  tr'[c].closing
    BY <1>1, <2>1 DEF TearsDown, Transports
  <2>2. QED
    BY <1>9, <2>1 DEF OpenTimesOut, Close, Whole
<1>10. CASE TeardownEnds(c)
  BY <1>1, <1>10 DEF TeardownEnds, Joined, Fresh
<1>11. CASE SubscribeReturns(c)
  BY <1>1, <1>3, <1>11 DEF SubscribeReturns, Answers, At, Transports, Whole, broker
<1>12. CASE SubscribeTimesOut(c)
  BY <1>1, <1>3, <1>12 DEF SubscribeTimesOut, Transports, Whole, broker
<1>13. CASE ReadMessage(c)
  BY <1>1, <1>3, <1>13 DEF ReadMessage, At, Transports, Whole, broker
<1>14. CASE PublishEnds(c)
  BY <1>1, <1>3, <1>14 DEF PublishEnds, Become, Transports, Whole, broker
<1>15. CASE NetLoses(c) \/ NetHangsUp(c)
  <2>1. tr'[c] = OnDisconnect(tr[c])
    BY <1>1, <1>15 DEF NetLoses, NetHangsUp
  <2>2. QED
    BY <1>1, <2>1 DEF OnDisconnect, Transports
<1>16. QED
  BY <1>4, <1>5, <1>6, <1>7, <1>8, <1>9, <1>10, <1>11, <1>12, <1>13, <1>14, <1>15 DEF CallerNext, NetNext

(* Most of what a serving thread does on a living line leaves the account  *)
(* of its transport's subscriptions alone.                                 *)
LEMMA ServeQuiet ==
    ASSUME TypeInv, LineInv, NEW k \in Conns, ServeNext(k), ~HandleSubscribe(k), ~SendSuback(k),
           wire[k].link \in {"backlog", "up"}, wire'[k].link # "cut"
    PROVE  /\ wire'[k].up = wire[k].up \/ (wire[k].up # <<>> /\ wire'[k].up = Tail(wire[k].up))
           /\ br'[k].subs = br[k].subs
           /\ br'[k].pc = "suback" => br[k].pc = "suback" /\ br'[k].job = br[k].job
<1>1. /\ wire \in [Conns -> Wires] /\ br \in [Conns -> Threads]
      /\ wire[k] \in Wires /\ br[k] \in Threads
  BY DEF TypeInv, BrokerInv
<1>2. ASSUME NEW pc, Goes(k, pc), pc # "suback"
      PROVE  br'[k].subs = br[k].subs /\ br'[k].pc # "suback"
  BY <1>1, <1>2 DEF Goes, Threads
<1>3. ASSUME NEW v, br' = [br EXCEPT ![k].todo = @ \ {v}]
      PROVE  br'[k].subs = br[k].subs /\ br'[k].pc = br[k].pc
  BY <1>1, <1>3 DEF Threads
<1>4. ASSUME NEW type, Takes(k, type), wire' = Taken(k)
      PROVE  wire[k].up # <<>> /\ wire'[k].up = Tail(wire[k].up) /\ br[k].pc = "idle"
  BY <1>1, <1>4 DEF Takes, Taken, Thread, Wires
<1>5. CASE Accept(k)
  BY <1>1, <1>2, <1>5 DEF Accept, Wires
<1>6. CASE Connect(k)
  BY <1>4, <1>6 DEF Connect
<1>7. CASE TakeSnapshot(k)
  BY <1>1, <1>7 DEF TakeSnapshot, Threads
<1>8. CASE Replay(k)
  BY <1>2, <1>3, <1>8 DEF Replay, Thread
<1>9. CASE HandlePublish(k)
  <2>1. br'[k].subs = br[k].subs /\ br'[k].pc # "suback"
    BY <1>1, <1>9 DEF HandlePublish, PublishGoes, Threads
  <2>2. QED
    BY <1>4, <1>9, <2>1 DEF HandlePublish
<1>10. CASE Store(k)
  BY <1>2, <1>10 DEF Store, PublishGoes
<1>11. CASE Aim(k)
  BY <1>1, <1>11 DEF Aim, Threads
<1>12. CASE Cast(k)
  <2>1. PublishGoes(br[k].job[1], "cast") # "suback"
    BY DEF PublishGoes
  <2>2. QED
    BY <1>2, <1>3, <1>12, <2>1 DEF Cast, Thread
<1>13. CASE ServeEnds(k)
  <2>1. wire[k].link = "up"
    BY <1>13 DEF ServeEnds, Takes, Thread, LineInv
  <2>2. wire'[k].link = "cut"
    BY <1>1, <1>13, <2>1 DEF ServeEnds
  <2>3. QED
    BY <2>2
<1>14. CASE Cut(k)
  BY <1>1, <1>14 DEF Cut, broker, Wires
<1>15. QED
  BY <1>5, <1>6, <1>7, <1>8, <1>9, <1>10, <1>11, <1>12, <1>13, <1>14 DEF ServeNext

(* A serving thread, on a line of its own and on another's. *)
LEMMA SubServe ==
    ASSUME TypeInv, LineInv, SubInv, NEW k \in Conns, ServeNext(k), NEW c \in Clients,
           Whole(tr'[c]), tr'[c].net = "run", wire'[tr'[c].conn].link # "cut"
    PROVE  AccountedFor(tr'[c], wire'[tr'[c].conn], br'[tr'[c].conn])
<1> DEFINE j == tr[c].conn
<1>1. /\ tr[c] \in Transports /\ TypeInv' /\ wire \in [Conns -> Wires] /\ br \in [Conns -> Threads]
  BY ServeType DEF TypeInv, TransportInv, BrokerInv
<1>2. tr'[c].conn = j /\ Whole(tr[c]) /\ tr[c].net = "run"
  BY ServeKeeps DEF Whole
<1>3. j \in Conns /\ OnLine(c) /\ wire[j].link \in {"backlog", "up", "cut"}
  BY <1>2 DEF LineInv, OnLine
<1>4. wire[j].link \in {"backlog", "up"}
  BY <1>2, <1>3, ServeFrame
<1>5. AccountedFor(tr[c], wire[j], br[j])
  BY <1>2, <1>4 DEF SubInv
<1>6. /\ tr'[c] \in Transports /\ wire'[j] \in Wires /\ br'[j] \in Threads
      /\ wire[j] \in Wires /\ br[j] \in Threads
  BY <1>1, <1>3 DEF TypeInv, TransportInv, BrokerInv
<1>7. /\ tr'[c].call = tr[c].call /\ tr'[c].arg = tr[c].arg /\ tr'[c].mid = tr[c].mid
      /\ tr'[c].granted = tr[c].granted
  BY <1>1, ServeSends, OnPacketType
<1>8. CASE j # k
  <2>1. wire'[j] = wire[j] /\ br'[j] = br[j]
    BY <1>3, <1>8, ServeFrame
  <2>2. tr'[c].results = tr[c].results
    BY <1>1, <1>8, ServeSends, OnPacketType
  <2>3. AccountedFor(tr'[c], wire[j], br[j])
    BY <1>5, <1>7, <2>2 DEF AccountedFor, Fits
  <2>4. QED
    BY <1>2, <2>1, <2>3
<1>9. CASE j = k /\ HandleSubscribe(k)
  <2> DEFINE p == Next_(k)
             b == [br[k] EXCEPT !.subs = br[k].subs \cup {p.body}, !.pc = "suback", !.job = <<p>>]
  <2>1. wire[k].up # <<>> /\ p.type = "SUBSCRIBE" /\ wire[k].up \in Seq(Packets)
    BY <1>6, <1>9 DEF HandleSubscribe, Takes, Wires
  <2>2. p = wire[k].up[1] /\ 1 \in 1 .. Len(wire[k].up)
    BY <2>1 DEF Next_
  <2>3. Fits(tr[c], p)
    BY <1>5, <1>9, <2>1, <2>2 DEF AccountedFor
  <2>4. br'[k].subs = br[k].subs \cup {p.body} /\ br'[k].pc = "suback" /\ br'[k].job = <<p>>
    BY <1>1, <1>9 DEF HandleSubscribe, Threads
  <2>5. wire'[k].up = Tail(wire[k].up)
    BY <1>1, <1>9 DEF HandleSubscribe, Taken, Wires
  <2> HIDE DEF p
  <2>6. br'[k].job[1] = p
    BY <2>4
  <2>7. tr'[c] = tr[c]
    BY <1>9 DEF HandleSubscribe
  <2>8. \A i \in 1 .. Len(wire'[k].up) : \E n \in 1 .. Len(wire[k].up) : wire'[k].up[i] = wire[k].up[n]
    BY <2>1, <2>5
  <2>9. \A i \in 1 .. Len(wire'[k].up) : wire'[k].up[i].type = "SUBSCRIBE" => Fits(tr[c], wire'[k].up[i])
    BY <1>5, <1>9, <2>8, SMTT(40) DEF AccountedFor
  <2>10. br'[k].job[1].body \in br'[k].subs
    BY <2>4, <2>6
  <2>11. AccountedFor(tr[c], wire'[k], br'[k])
    BY <1>5, <1>9, <2>3, <2>4, <2>6, <2>9, <2>10 DEF AccountedFor
  <2>12. QED
    BY <1>2, <1>9, <2>7, <2>11
<1>10. CASE j = k /\ SendSuback(k)
  <2>1. br[k].pc = "suback" /\ wire'[k] = wire[k]
    BY <1>10 DEF SendSuback, Thread
  <2>2. br'[k].subs = br[k].subs /\ br'[k].pc = "snapshot"
    BY <1>1, <1>10 DEF SendSuback, Goes, Threads
  <2>3. Fits(tr[c], br[k].job[1]) /\ br[k].job[1].body \in br[k].subs
    BY <1>5, <1>10, <2>1 DEF AccountedFor
  <2>4. tr'[c].results \in {tr[c].results, tr[c].results \cup {br[k].job[1].id}}
    <3>1. CASE tr'[c] = tr[c]
      BY <3>1
    <3>2. ASSUME NEW p \in Sent, tr'[c] = OnPacket(tr[c], p), p.type = "SUBACK" => p.id = br[k].job[1].id
          PROVE  tr'[c].results \in {tr[c].results, tr[c].results \cup {br[k].job[1].id}}
      BY <1>1, <3>2, OnPacketType
    <3>3. QED
      BY <3>1, <3>2, ServeSends
  <2>5. \A m \in tr'[c].results : m <= tr[c].mid
    BY <1>5, <2>3, <2>4 DEF AccountedFor, Fits
  <2>6. tr[c].call = "subscribing" /\ tr[c].mid \in tr'[c].results => tr[c].arg \in br[k].subs
    BY <1>5, <1>10, <2>3, <2>4 DEF AccountedFor, Fits
  <2>7. \A i \in 1 .. Len(wire[k].up) : wire[k].up[i].type = "SUBSCRIBE" => Fits(tr'[c], wire[k].up[i])
    BY <1>5, <1>7, <1>10 DEF AccountedFor, Fits
  <2>8. QED
    BY <1>2, <1>5, <1>7, <1>10, <2>1, <2>2, <2>5, <2>6, <2>7 DEF AccountedFor
<1>11. CASE j = k /\ ~HandleSubscribe(k) /\ ~SendSuback(k)
  <2>1. tr'[c].results = tr[c].results
    BY <1>1, <1>11, ServeSends, OnPacketType
  <2>2. /\ wire'[k].up = wire[k].up \/ (wire[k].up # <<>> /\ wire'[k].up = Tail(wire[k].up))
        /\ br'[k].subs = br[k].subs
        /\ br'[k].pc = "suback" => br[k].pc = "suback" /\ br'[k].job = br[k].job
    BY <1>2, <1>4, <1>11, ServeQuiet
  <2>3. /\ AccountedFor(tr[c], wire[k], br[k]) /\ wire[k] \in Wires /\ br[k] \in Threads
        /\ wire'[k] \in Wires /\ br'[k] \in Threads
    BY <1>5, <1>6, <1>11
  <2>4. /\ wire'[k].up = wire[k].up \/ (wire[k].up # <<>> /\ wire'[k].up = Tail(wire[k].up))
                                     \/ wire'[k].up = <<>>
        /\ br'[k].pc = "suback" => br[k].pc = "suback" /\ br'[k].job = br[k].job
    BY <2>2
  <2>5. AccountedFor(tr'[c], wire'[k], br'[k])
    BY <1>1, <1>6, <1>7, <2>1, <2>2, <2>3, <2>4, AccountKept
  <2>6. QED
    BY <1>2, <1>11, <2>5
<1>12. QED
  BY <1>8, <1>9, <1>10, <1>11

LEMMA SubNext ==
    ASSUME TypeInv, CallInv, LineInv, SubInv, [Next]_vars
    PROVE  SubInv'
<1> SUFFICES ASSUME NEW c \in Clients, Whole(tr'[c]), tr'[c].net = "run",
                    wire'[tr'[c].conn].link # "cut"
             PROVE  AccountedFor(tr'[c], wire'[tr'[c].conn], br'[tr'[c].conn])
  BY DEF SubInv
<1> DEFINE j == tr[c].conn
<1>1. tr[c] \in Transports /\ wire \in [Conns -> Wires] /\ br \in [Conns -> Threads]
  BY DEF TypeInv, TransportInv, BrokerInv
<1>2. ASSUME NEW d \in Clients, CallerNext(d) \/ NetNext(d), d # c
      PROVE  AccountedFor(tr'[c], wire'[tr'[c].conn], br'[tr'[c].conn])
  <2>1. tr'[c] = tr[c]
    BY <1>2, CallerKeeps
  <2>2. OnLine(c)
    BY <2>1 DEF OnLine
  <2>3. wire'[j] = wire[j] /\ br'[j] = br[j]
    BY <1>2, <2>2, CallerFrame
  <2>4. QED
    BY <2>1, <2>3 DEF SubInv
<1>3. ASSUME UNCHANGED <<tr, br>>, j \in Conns => wire'[j].up = wire[j].up,
             j \in Conns => wire'[j].link \in {wire[j].link, "cut"}
      PROVE  AccountedFor(tr'[c], wire'[tr'[c].conn], br'[tr'[c].conn])
  <2>1. j \in Conns
    BY <1>3 DEF LineInv, OnLine
  <2>2. AccountedFor(tr[c], wire[j], br[j])
    BY <1>3, <2>1 DEF SubInv
  <2>3. QED
    BY <1>3, <2>1, <2>2 DEF AccountedFor
<1>4. CASE Sweep
  BY <1>1, <1>3, <1>4 DEF Sweep, Wires
<1>5. CASE StopListening
  BY <1>1, <1>3, <1>5 DEF StopListening, Wires
<1>6. ASSUME NEW d \in Devices, NEW form \in Forms, DevicePublishes(d, form)
      PROVE  AccountedFor(tr'[c], wire'[tr'[c].conn], br'[tr'[c].conn])
  <2>1. Publication(form, 0) \in Packets
    BY PublicationType DEF Packets, TypeInv
  <2>2. UNCHANGED <<tr, br>> /\ wire' = ToBroker(wire, d, Publication(form, 0))
    BY <1>6 DEF DevicePublishes, broker
  <2>3. j \in Conns \ Devices
    BY <2>2 DEF LineInv, OnLine
  <2>4. wire'[j] = wire[j]
    BY <1>1, <2>1, <2>2, <2>3, ToBrokerType
  <2>5. QED
    BY <1>3, <2>2, <2>4
<1>7. CASE UNCHANGED vars
  BY <1>3, <1>7 DEF vars
<1>8. QED
  BY <1>2, <1>4, <1>5, <1>6, <1>7, SubCaller, SubServe DEF Next

-----------------------------------------------------------------------------
(* Values. *)

(* Only a new connection forgets what it was sent. *)
LEMMA GotGrows ==
    ASSUME TypeInv, NEW k \in Conns, ServeNext(k)
    PROVE  \A i \in Conns : got[i] \subseteq got'[i]
<1>1. TransportInv /\ BrokerInv /\ JobInv /\ got \in [Conns -> SUBSET Nat]
  BY DEF TypeInv, BrokerInv
<1>2. CASE Connect(k)
  BY <1>1, <1>2, PacketTypes, SendsType DEF Connect
<1>3. CASE SendSuback(k)
  BY <1>1, <1>3, PacketTypes, SendsType DEF SendSuback, Thread, JobInv, Subscriptions
<1>4. CASE Replay(k)
  <2>1. br[k].todo \subseteq Nat
    BY <1>1 DEF BrokerInv, Threads
  <2>2. QED
    BY <1>1, <1>4, <2>1, PacketTypes, SendsType DEF Replay
<1>5. CASE HandlePublish(k)
  BY <1>1, <1>5 DEF HandlePublish
<1>6. CASE Cast(k)
  <2>1. br[k].todo \subseteq Conns /\ br[k].job[1].body \in Nat
    BY <1>1, <1>6 DEF Cast, Thread, JobInv, Publications
  <2>2. QED
    BY <1>1, <1>6, <2>1, PacketTypes, SendsType DEF Cast
<1>7. CASE UNCHANGED got
  BY <1>7
<1>8. QED
  BY <1>2, <1>3, <1>4, <1>5, <1>6, <1>7
     DEF ServeNext, Accept, HandleSubscribe, TakeSnapshot, Store, Aim, ServeEnds, Cut, broker

(* A transport's step leaves every thread and every payload where it was,  *)
(* but for the connection it dials, which nobody was serving.              *)
LEMMA CallerLeaves ==
    ASSUME TypeInv, LineInv, NEW d \in Clients, CallerNext(d) \/ NetNext(d)
    PROVE  /\ UNCHANGED <<clients, retained>>
           /\ \A i \in Conns : wire'[i].link = "up" => wire[i].link = "up"
           /\ \A i \in Conns :
                \/ br'[i] = br[i] /\ got'[i] = got[i]
                \/ /\ br[i].pc \in {"none", "ended"} /\ br'[i] = NoThread
                   /\ wire'[i].link = "backlog"
<1>1. /\ wire \in [Conns -> Wires] /\ br \in [Conns -> Threads] /\ tr[d] \in Transports
      /\ got \in [Conns -> SUBSET Nat]
  BY DEF TypeInv, TransportInv, BrokerInv
<1> DEFINE Goal == /\ UNCHANGED <<clients, retained>>
                   /\ \A i \in Conns : wire'[i].link = "up" => wire[i].link = "up"
                   /\ \A i \in Conns :
                        \/ br'[i] = br[i] /\ got'[i] = got[i]
                        \/ /\ br[i].pc \in {"none", "ended"} /\ br'[i] = NoThread
                           /\ wire'[i].link = "backlog"
<1>2. ASSUME NEW t \in Transports, Dials(d, t)
      PROVE  Goal
  <2>1. PICK j \in Conns :
             /\ Unused(j) /\ wire'[j].link = "backlog" /\ wire' \in [Conns -> Wires]
             /\ wire'[j].up = <<Packet("CONNECT", 0, Empty)>> \o t.unacked
             /\ \A i \in Conns \ {j} : wire'[i] = wire[i]
             /\ tr' = [tr EXCEPT ![d] = [t EXCEPT !.conn = j, !.net = "run"]]
             /\ br' = [br EXCEPT ![j] = NoThread] /\ got' = [got EXCEPT ![j] = {}]
             /\ UNCHANGED <<listening, clients, retained, ops>>
    BY <1>2, DialsType
  <2>2. br[j].pc \in {"none", "ended"}
    BY <2>1, DialedIsFree
  <2>3. br'[j] = NoThread /\ \A i \in Conns \ {j} : br'[i] = br[i] /\ got'[i] = got[i]
    BY <1>1, <2>1
  <2>4. QED
    BY <2>1, <2>2, <2>3
<1>3. ASSUME UNCHANGED broker, \A i \in Conns : wire'[i].link = "up" => wire[i].link = "up"
      PROVE  Goal
  BY <1>3 DEF broker
<1>4. ASSUME NEW p \in Packets, wire' = ToBroker(wire, tr[d].conn, p), UNCHANGED broker
      PROVE  Goal
  BY <1>1, <1>3, <1>4, ToBrokerType
<1>5. CASE UNCHANGED <<wire, broker>>
  BY <1>3, <1>5
<1>6. CASE Open(d)
  <2>1. [tr[d] EXCEPT !.call = "opening"] \in Transports
    BY <1>1 DEF Transports, Calls
  <2>2. QED
    BY <1>2, <1>6, <2>1 DEF Open
<1>7. CASE NetReconnects(d)
  BY <1>1, <1>2, <1>7 DEF NetReconnects
<1>8. ASSUME NEW f \in Filters, Subscribe(d, f)
      PROVE  Goal
  <2>1. Packet("SUBSCRIBE", tr[d].mid + 1, f) \in Packets
    BY <1>1, PacketTypes DEF Packets, Transports
  <2>2. QED
    BY <1>4, <1>8, <2>1 DEF Subscribe
<1>9. ASSUME NEW form \in Forms, Publish(d, form)
      PROVE  Goal
  <2>1. Publication(form, tr[d].mid + 1) \in Packets
    BY <1>1, PublicationType DEF Packets, Transports, TypeInv
  <2>2. QED
    BY <1>4, <1>9, <2>1 DEF Publish
<1>10. CASE NetHangsUp(d)
  <2> DEFINE k == tr[d].conn
             w == ToBroker(wire, k, Packet("DISCONNECT", 0, Empty))
  <2>1. k \in Conns
    BY <1>10 DEF NetHangsUp, OnLine, LineInv
  <2>2. w \in [Conns -> Wires] /\ \A j \in Conns : w[j].link = wire[j].link
    BY <1>1, PacketTypes, ToBrokerType
  <2>3. wire' = [w EXCEPT ![k].link = IF w[k].link = "cut" THEN "cut" ELSE "shut"]
    BY <1>10 DEF NetHangsUp
  <2> HIDE DEF w
  <2>4. wire'[k].link \in {"cut", "shut"} /\ \A j \in Conns \ {k} : wire'[j].link = wire[j].link
    BY <2>1, <2>2, <2>3 DEF Wires
  <2>5. QED
    BY <1>3, <1>10, <2>4 DEF NetHangsUp
<1>11. QED
  BY <1>5, <1>6, <1>7, <1>8, <1>9, <1>10
     DEF CallerNext, NetNext, OpenReturns, OpenTimesOut, Close, TearsDown, TeardownEnds,
         SubscribeReturns, SubscribeTimesOut, ReadMessage, PublishEnds, NetLoses

(* What a thread of the broker has in hand. *)
LEMMA ThreadServe ==
    ASSUME TypeInv, ThreadInv, NEW k \in Conns, ServeNext(k)
    PROVE  ThreadInv'
<1>1. /\ wire \in [Conns -> Wires] /\ br \in [Conns -> Threads] /\ br[k] \in Threads
      /\ got \in [Conns -> SUBSET Nat]
  BY DEF TypeInv, BrokerInv
<1>2. ASSUME br'[k].pc \in {"none", "ended"} => br'[k].subs = {},
             br'[k].pc = "store" => br'[k].job[1].body \in got'[k]
      PROVE  ThreadInv'
  BY <1>2, ServeFrame, GotGrows DEF ThreadInv
<1>3. CASE UNCHANGED br
  BY <1>2, <1>3, GotGrows DEF ThreadInv
<1>4. ASSUME NEW pc, Goes(k, pc), pc \notin {"none", "ended", "store"}
      PROVE  ThreadInv'
  BY <1>1, <1>2, <1>4 DEF Goes, Threads
<1>5. ASSUME NEW v, br' = [br EXCEPT ![k].todo = @ \ {v}], br[k].pc \in {"replay", "cast"}
      PROVE  ThreadInv'
  BY <1>1, <1>2, <1>5 DEF Threads
<1>6. CASE Accept(k)
  BY <1>4, <1>6 DEF Accept
<1>7. CASE HandleSubscribe(k)
  BY <1>1, <1>2, <1>7 DEF HandleSubscribe, Threads
<1>8. CASE SendSuback(k)
  BY <1>4, <1>8 DEF SendSuback
<1>9. CASE TakeSnapshot(k)
  BY <1>1, <1>2, <1>9 DEF TakeSnapshot, Threads
<1>10. CASE Replay(k)
  BY <1>4, <1>5, <1>10 DEF Replay, Thread
<1>11. CASE HandlePublish(k)
  <2> DEFINE p == Next_(k)
  <2>1. br'[k].job = <<p>> /\ br'[k].pc \in {"idle", "store", "aim"} /\ got'[k] = got[k] \cup {p.body}
    BY <1>1, <1>11 DEF HandlePublish, PublishGoes, Threads
  <2> HIDE DEF p
  <2>2. br'[k].job[1] = p
    BY <2>1
  <2>3. QED
    BY <1>2, <2>1, <2>2
<1>12. CASE Store(k)
  BY <1>4, <1>12 DEF Store, PublishGoes
<1>13. CASE Aim(k)
  BY <1>1, <1>2, <1>13 DEF Aim, Threads
<1>14. CASE Cast(k)
  <2>1. PublishGoes(br[k].job[1], "cast") = "idle"
    BY DEF PublishGoes
  <2>2. QED
    BY <1>4, <1>5, <1>14, <2>1 DEF Cast, Thread
<1>15. CASE ServeEnds(k)
  BY <1>1, <1>2, <1>15 DEF ServeEnds, NoThread
<1>16. QED
  BY <1>3, <1>6, <1>7, <1>8, <1>9, <1>10, <1>11, <1>12, <1>13, <1>14, <1>15
     DEF ServeNext, Connect, Cut, broker

LEMMA ThreadNext ==
    ASSUME TypeInv, LineInv, ThreadInv, [Next]_vars
    PROVE  ThreadInv'
<1>1. ASSUME NEW d \in Clients, CallerNext(d) \/ NetNext(d)
      PROVE  ThreadInv'
  <2>1. NoThread.pc = "none" /\ NoThread.subs = {}
    BY DEF NoThread
  <2>2. QED
    BY <1>1, <2>1, CallerLeaves DEF ThreadInv
<1>2. CASE UNCHANGED <<br, got>>
  BY <1>2 DEF ThreadInv
<1>3. QED
  BY <1>1, <1>2, ThreadServe DEF Next, DevicePublishes, Sweep, StopListening, vars, broker

(* A live connection that wants the retained payload, and whether it has   *)
(* it or will be sent it.                                                  *)
Live(k) == Wants(k) /\ wire[k].link = "up" /\ k \in clients
Served(k) == retained \in got[k] \/ OnTheWay(k)

(* A step of no thread that a payload passes through. *)
LEMMA ValueFrame ==
    ASSUME ValueInv, retained' = retained, clients' \subseteq clients,
           \A i \in Conns : wire'[i].link = "up" => wire[i].link = "up",
           \A i \in Conns : \/ br'[i] = br[i] /\ got[i] \subseteq got'[i]
                            \/ /\ br[i].pc \in {"none", "ended"} /\ wire'[i].link # "up"
    PROVE  ValueInv'
<1> SUFFICES ASSUME NEW k \in Conns, retained' # Empty, Live(k)'
             PROVE  Served(k)'
  BY DEF ValueInv, Live, Served
<1>1. br'[k] = br[k] /\ got[k] \subseteq got'[k]
  BY DEF Live
<1>2. Live(k)
  BY <1>1 DEF Live, Wants
<1>3. Served(k)
  BY <1>2 DEF ValueInv, Live, Served
<1>4. \A j \in Conns : br[j].pc \in {"aim", "cast"} => br'[j] = br[j]
  OBVIOUS
<1>5. OnTheWay(k) => OnTheWay(k)'
  BY <1>1, <1>4 DEF OnTheWay
<1>6. QED
  BY <1>1, <1>3, <1>5 DEF Served

(* A step of thread k that broadcasts nothing: the others are served as    *)
(* before, and k has only itself to look after.                            *)
LEMMA ValueOwn ==
    ASSUME TypeInv, ValueInv, NEW k \in Conns, ServeNext(k), retained' = retained,
           br[k].pc \notin {"aim", "cast"},
           clients' \subseteq clients \cup {k}, wire[k].link = "backlog" => br[k].pc = "none",
           retained # Empty /\ Live(k)' =>
             \/ Live(k) /\ br[k].pc \notin {"suback", "snapshot", "replay"}
             \/ Served(k)'
    PROVE  ValueInv'
<1>1. \A i \in Conns \ {k} : wire'[i] = wire[i] /\ br'[i] = br[i]
  BY ServeFrame
<1>2. \A i \in Conns : got[i] \subseteq got'[i]
  BY GotGrows
<1> SUFFICES ASSUME NEW i \in Conns, retained' # Empty, Live(i)'
             PROVE  Served(i)'
  BY DEF ValueInv, Live, Served
<1>3. CASE i # k
  <2>1. Live(i)
    BY <1>1, <1>3 DEF Live, Wants
  <2>2. Served(i)
    BY <2>1 DEF ValueInv, Live, Served
  <2>3. OnTheWay(i) => OnTheWay(i)'
    BY <1>1, <1>3 DEF OnTheWay
  <2>4. QED
    BY <1>2, <2>2, <2>3 DEF Served
<1>4. CASE i = k /\ Live(k) /\ br[k].pc \notin {"suback", "snapshot", "replay"}
  <2>1. Served(k)
    BY <1>4 DEF ValueInv, Live, Served
  <2>2. OnTheWay(k) => OnTheWay(k)'
    BY <1>1, <1>4 DEF OnTheWay
  <2>3. QED
    BY <1>2, <1>4, <2>1, <2>2 DEF Served
<1>5. QED
  BY <1>3, <1>4

(* The broker's steps towards the next value: the store puts it on its way *)
(* to all, the aim and the broadcast to those registered, a subscription   *)
(* and its replay to the subscriber.                                       *)
LEMMA ValueServe ==
    ASSUME TypeInv, LineInv, ThreadInv, ValueInv, NEW k \in Conns, ServeNext(k)
    PROVE  ValueInv'
<1>1. /\ wire \in [Conns -> Wires] /\ br \in [Conns -> Threads] /\ br[k] \in Threads
      /\ got \in [Conns -> SUBSET Nat] /\ wire[k] \in Wires
  BY DEF TypeInv, BrokerInv
<1>2. \A i \in Conns \ {k} : wire'[i] = wire[i] /\ br'[i] = br[i]
  BY ServeFrame
<1>3. \A i \in Conns : got[i] \subseteq got'[i]
  BY GotGrows
<1>4. wire[k].link = "backlog" => br[k].pc = "none"
  BY DEF LineInv
<1>5. CASE Accept(k)
  <2>1. br[k].pc = "none" /\ br'[k].subs = {}
    BY <1>1, <1>5 DEF Accept, Thread, Goes, Threads, ThreadInv
  <2>2. ~Live(k)'
    BY <2>1 DEF Live, Wants
  <2>3. QED
    BY <1>4, <1>5, <2>1, <2>2, ValueOwn DEF Accept
<1>6. CASE Connect(k) \/ Cut(k)
  <2>1. \A i \in Conns : wire'[i].link = "up" => wire[i].link = "up"
    BY <1>1, <1>6 DEF Connect, Taken, Cut, Wires
  <2>2. UNCHANGED <<br, clients, retained>>
    BY <1>6 DEF Connect, Cut, broker
  <2>3. QED
    BY <1>3, <2>1, <2>2, ValueFrame
<1>7. CASE HandleSubscribe(k)
  <2>1. /\ br[k].pc = "idle" /\ br'[k].pc = "suback" /\ br'[k].subs = br[k].subs \cup {Next_(k).body}
        /\ br'[k].job = <<Next_(k)>> /\ wire'[k].link = wire[k].link /\ UNCHANGED <<clients, retained>>
    BY <1>1, <1>7 DEF HandleSubscribe, Takes, Taken, Thread, Wires, Threads
  <2>2. br'[k].job[1] = Next_(k)
    BY <2>1
  <2>3. ASSUME Live(k)'
        PROVE  Live(k) \/ Served(k)'
    BY <2>1, <2>2, <2>3 DEF Live, Served, Wants, OnTheWay
  <2>4. QED
    BY <1>4, <2>1, <2>3, ValueOwn
<1>8. CASE SendSuback(k)
  <2>1. /\ br[k].pc = "suback" /\ br'[k].pc = "snapshot" /\ br'[k].subs = br[k].subs
        /\ br'[k].job = br[k].job /\ UNCHANGED <<wire, clients, retained>>
    BY <1>1, <1>8 DEF SendSuback, Thread, Goes, Threads
  <2>2. ASSUME retained # Empty, Live(k)'
        PROVE  Served(k)'
    <3>1. Live(k)
      BY <2>1, <2>2 DEF Live, Wants
    <3>2. Served(k)
      BY <2>2, <3>1 DEF ValueInv, Live, Served
    <3>3. OnTheWay(k) => OnTheWay(k)'
      BY <1>2, <2>1 DEF OnTheWay
    <3>4. QED
      BY <1>3, <2>1, <3>2, <3>3 DEF Served
  <2>3. QED
    BY <1>4, <2>1, <2>2, ValueOwn
<1>9. CASE TakeSnapshot(k)
  <2>1. /\ br[k].pc = "snapshot" /\ br'[k].pc = "replay" /\ br'[k].subs = br[k].subs
        /\ br'[k].todo = RetainedFor(k) /\ UNCHANGED <<wire, clients, retained>>
    BY <1>1, <1>9 DEF TakeSnapshot, Thread, Threads
  <2>2. ASSUME retained # Empty, Live(k)'
        PROVE  Served(k)'
    <3>1. Live(k)
      BY <2>1, <2>2 DEF Live, Wants
    <3>2. Served(k)
      BY <2>2, <3>1 DEF ValueInv, Live, Served
    <3>3. TopicMatches(br[k].job[1].body, Topic) => retained \in br'[k].todo
      BY <2>1, <2>2 DEF RetainedFor
    <3>4. OnTheWay(k) => OnTheWay(k)'
      BY <1>2, <2>1, <3>3 DEF OnTheWay
    <3>5. QED
      BY <1>3, <2>1, <3>2, <3>4 DEF Served
  <2>3. QED
    BY <1>4, <2>1, <2>2, ValueOwn
<1>10. CASE Replay(k)
  <2>1. br[k].pc = "replay" /\ UNCHANGED <<wire, clients, retained>>
    BY <1>10 DEF Replay, Thread
  <2>2. br'[k].subs = br[k].subs
    BY <1>1, <1>10 DEF Replay, Goes, Threads
  <2>3. ASSUME retained # Empty, Live(k)'
        PROVE  Served(k)'
    <3>1. Live(k)
      BY <2>1, <2>2, <2>3 DEF Live, Wants
    <3>2. Served(k)
      BY <2>3, <3>1 DEF ValueInv, Live, Served
    <3>3. ASSUME NEW j \in Conns \ {k}, \/ br[j].pc = "aim"
                                        \/ br[j].pc = "cast" /\ k \in br[j].todo,
                 br[j].job[1].body = retained
          PROVE  OnTheWay(k)'
      BY <1>2, <2>1, <3>3 DEF OnTheWay
    <3>4. ASSUME retained \in br[k].todo
          PROVE  Served(k)'
      <4>1. PICK v \in br[k].todo :
              Sends(k, Packet("PUBLISH", 0, v)) /\ br' = [br EXCEPT ![k].todo = @ \ {v}]
        BY <1>10, <3>4 DEF Replay
      <4>2. br'[k].pc = "replay" /\ br'[k].todo = br[k].todo \ {v}
        BY <1>1, <2>1, <4>1 DEF Threads
      <4>3. CASE v = retained
        <5>1. Packet("PUBLISH", 0, v).type = "PUBLISH" /\ Packet("PUBLISH", 0, v).body = v
          BY DEF Packet
        <5>2. got' = [got EXCEPT ![k] = got[k] \cup {v}]
          BY <3>1, <4>1, <5>1 DEF Sends, Live
        <5>3. QED
          BY <1>1, <2>1, <4>3, <5>2 DEF Served
      <4>4. CASE v # retained
        BY <2>1, <3>4, <4>2, <4>4 DEF Served, OnTheWay
      <4>5. QED
        BY <4>3, <4>4
    <3>5. QED
      BY <1>3, <2>1, <3>2, <3>3, <3>4 DEF Served, OnTheWay
  <2>4. QED
    BY <1>4, <2>1, <2>3, ValueOwn
<1>11. CASE HandlePublish(k)
  <2>1. /\ br[k].pc = "idle" /\ br'[k].subs = br[k].subs
        /\ wire'[k].link = wire[k].link /\ UNCHANGED <<clients, retained>>
    BY <1>1, <1>11 DEF HandlePublish, Takes, Taken, Thread, Wires, Threads
  <2>2. Live(k)' => Live(k)
    BY <2>1 DEF Live, Wants
  <2>3. QED
    BY <1>4, <2>1, <2>2, ValueOwn
<1>12. CASE Store(k)
  <2>1. /\ br[k].pc = "store" /\ br'[k].pc = "aim" /\ br'[k].job = br[k].job
        /\ retained' = br[k].job[1].body
    BY <1>1, <1>12 DEF Store, Thread, Goes, PublishGoes, Threads
  <2>2. retained' \in got'[k]
    BY <1>3, <2>1 DEF ThreadInv
  <2>3. \A i \in Conns \ {k} : OnTheWay(i)'
    BY <2>1 DEF OnTheWay
  <2>4. QED
    BY <2>2, <2>3 DEF ValueInv
<1>13. CASE Aim(k)
  <2>1. /\ br[k].pc = "aim" /\ br'[k].pc = "cast" /\ br'[k].job = br[k].job /\ br'[k].subs = br[k].subs
        /\ br'[k].todo = clients \ {k} /\ UNCHANGED <<wire, clients, retained, got>>
    BY <1>1, <1>13 DEF Aim, Thread, Threads
  <2>2. ASSUME NEW i \in Conns, retained' # Empty, Live(i)'
        PROVE  Served(i)'
    <3>1. br'[i].subs = br[i].subs /\ i \in clients
      BY <1>2, <2>1, <2>2 DEF Live
    <3>2. Live(i)
      BY <2>1, <2>2, <3>1 DEF Live, Wants
    <3>3. Served(i)
      BY <2>1, <2>2, <3>2 DEF ValueInv, Live, Served
    <3>4. OnTheWay(i) => OnTheWay(i)'
      BY <1>2, <2>1, <3>1 DEF OnTheWay
    <3>5. QED
      BY <2>1, <3>3, <3>4 DEF Served
  <2>3. QED
    BY <2>2 DEF ValueInv, Live, Served
<1>14. CASE Cast(k)
  <2> DEFINE v == br[k].job[1].body
  <2>1. br[k].pc = "cast" /\ UNCHANGED <<wire, clients, retained>> /\ br'[k].subs = br[k].subs
    BY <1>1, <1>14 DEF Cast, Thread, Goes, Threads
  <2>2. ASSUME NEW i \in Conns \ {k}, Live(i), retained = v, i \in br[k].todo
        PROVE  v \in got'[i] \/ (br'[k].pc = "cast" /\ br'[k].job = br[k].job /\ i \in br'[k].todo)
    <3>1. PICK t \in br[k].todo :
            /\ br' = [br EXCEPT ![k].todo = @ \ {t}]
            /\ IF Wants(t) THEN Sends(t, Packet("PUBLISH", 0, v)) ELSE UNCHANGED <<tr, got>>
      BY <1>14, <2>2 DEF Cast
    <3>2. CASE t = i
      <4>1. Packet("PUBLISH", 0, v).type = "PUBLISH" /\ Packet("PUBLISH", 0, v).body = v
        BY DEF Packet
      <4>2. Sends(i, Packet("PUBLISH", 0, v)) /\ wire[i].link = "up"
        BY <2>2, <3>1, <3>2 DEF Live
      <4>3. got' = [got EXCEPT ![i] = got[i] \cup {v}]
        BY <4>1, <4>2 DEF Sends
      <4>4. QED
        BY <1>1, <4>3
    <3>3. CASE t # i
      BY <1>1, <2>1, <2>2, <3>1, <3>3 DEF Threads
    <3>4. QED
      BY <3>2, <3>3
  <2>3. ASSUME NEW i \in Conns, retained' # Empty, Live(i)'
        PROVE  Served(i)'
    <3>1. br'[i].subs = br[i].subs
      BY <1>2, <2>1
    <3>2. Live(i)
      BY <2>1, <2>3, <3>1 DEF Live, Wants
    <3>3. Served(i)
      BY <2>1, <2>3, <3>2 DEF ValueInv, Live, Served
    <3>4. CASE i # k /\ retained = v /\ i \in br[k].todo
      BY <2>1, <2>2, <3>2, <3>4 DEF Served, OnTheWay
    <3>5. CASE ~(i # k /\ retained = v /\ i \in br[k].todo)
      <4>1. OnTheWay(i) => OnTheWay(i)'
        BY <1>2, <2>1, <3>5 DEF OnTheWay
      <4>2. QED
        BY <1>3, <2>1, <3>3, <4>1 DEF Served
    <3>6. QED
      BY <3>4, <3>5
  <2>4. QED
    BY <2>3 DEF ValueInv, Live, Served
<1>15. CASE ServeEnds(k)
  <2>1. br[k].pc \in {"idle", "suback", "replay"} /\ clients' = clients \ {k} /\ retained' = retained
    BY <1>15 DEF ServeEnds, Takes, Thread
  <2>2. ~Live(k)'
    BY <2>1 DEF Live
  <2>3. QED
    BY <1>4, <2>1, <2>2, ValueOwn
<1>16. QED
  BY <1>5, <1>6, <1>7, <1>8, <1>9, <1>10, <1>11, <1>12, <1>13, <1>14, <1>15 DEF ServeNext

LEMMA ValueNext ==
    ASSUME TypeInv, LineInv, ThreadInv, ValueInv, [Next]_vars
    PROVE  ValueInv'
<1>1. /\ wire \in [Conns -> Wires]
  BY DEF TypeInv, BrokerInv
<1>2. ASSUME NEW d \in Clients, CallerNext(d) \/ NetNext(d)
      PROVE  ValueInv'
  <2>1. /\ UNCHANGED <<clients, retained>>
        /\ \A i \in Conns : wire'[i].link = "up" => wire[i].link = "up"
        /\ \A i \in Conns : \/ br'[i] = br[i] /\ got[i] \subseteq got'[i]
                            \/ /\ br[i].pc \in {"none", "ended"} /\ wire'[i].link # "up"
    BY <1>2, CallerLeaves
  <2>2. QED
    BY <2>1, ValueFrame
<1>3. ASSUME UNCHANGED <<br, retained, got>>, clients' \subseteq clients,
             \A i \in Conns : wire'[i].link = "up" => wire[i].link = "up"
      PROVE  ValueInv'
  BY <1>3, ValueFrame
<1>4. CASE Sweep
  BY <1>1, <1>3, <1>4 DEF Sweep
<1>5. CASE StopListening
  BY <1>1, <1>3, <1>5 DEF StopListening, Wires
<1>6. ASSUME NEW d \in Devices, NEW form \in Forms, DevicePublishes(d, form)
      PROVE  ValueInv'
  <2>1. Publication(form, 0) \in Packets
    BY PublicationType DEF Packets, TypeInv
  <2>2. wire' = ToBroker(wire, d, Publication(form, 0)) /\ UNCHANGED broker
    BY <1>6 DEF DevicePublishes
  <2>3. \A i \in Conns : wire'[i].link = wire[i].link
    BY <1>1, <2>1, <2>2, ToBrokerType
  <2>4. QED
    BY <1>3, <2>2, <2>3 DEF broker
<1>7. CASE UNCHANGED vars
  BY <1>3, <1>7 DEF vars
<1>8. QED
  BY <1>2, <1>4, <1>5, <1>6, <1>7, ValueServe DEF Next

-----------------------------------------------------------------------------
(* The invariants of the specification. *)

MqttInv == TypeInv /\ InboxInv /\ CallInv /\ LineInv /\ SubInv /\ ThreadInv /\ ValueInv

LEMMA MqttInit ==
    ASSUME Init
    PROVE  MqttInv
<1>1. TypeInv
  BY MqttTypeInit
<1>2. \A c \in Clients : tr[c] = Fresh
  BY DEF Init
<1>3. /\ Fresh.net = "none" /\ Fresh.call = "new" /\ Fresh.closing = FALSE
      /\ Fresh.inbox = <<>> /\ Fresh.arrived = <<>>
  BY DEF Fresh
<1>4. InboxInv
  BY <1>2, <1>3 DEF InboxInv, NewestOf
<1>5. CallInv
  BY <1>2, <1>3 DEF CallInv, CallOf
<1>6. \A k \in Conns : wire[k].link # "backlog"
  BY DEF Init
<1>7. LineInv
  BY <1>2, <1>3, <1>6 DEF LineInv, OnLine
<1>8. SubInv
  BY <1>2, <1>3 DEF SubInv
<1>9. \A k \in Conns : br[k].subs = {} /\ br[k].pc # "store"
  BY DEF Init, NoThread
<1>10. ThreadInv
  BY <1>9 DEF ThreadInv
<1>11. ValueInv
  BY DEF Init, ValueInv
<1>12. QED
  BY <1>1, <1>4, <1>5, <1>7, <1>8, <1>10, <1>11 DEF MqttInv

(* Types, who has which line, what is accounted for and what is on its     *)
(* way: the inductive invariant of the transports and the broker.          *)
THEOREM MqttInvariant == Spec => []MqttInv
<1>1. Init => MqttInv
  BY MqttInit
<1>2. MqttInv /\ [Next]_vars => MqttInv'
  BY MqttTypeNext, OwnNext, LineNext, SubNext, ThreadNext, ValueNext DEF MqttInv
<1>3. QED
  BY <1>1, <1>2, PTL DEF Spec

(* deque(maxlen=queue_size): whatever on_message appended and read_message *)
(* took, the inbox is the newest part of what arrived, in order.           *)
THEOREM InboxKeepsNewest == Spec => []InboxIsNewest
<1>1. ASSUME MqttInv
      PROVE  InboxIsNewest
  <2> SUFFICES ASSUME NEW c \in Clients
               PROVE  IsSuffix(tr[c].inbox, tr[c].arrived)
    BY DEF InboxIsNewest
  <2>1. tr[c].inbox \in Seq(Nat) /\ tr[c].arrived \in Seq(Nat)
    BY <1>1 DEF MqttInv, TypeInv, TransportInv, Transports
  <2>2. NewestOf(tr[c].inbox, tr[c].arrived)
    BY <1>1 DEF MqttInv, InboxInv
  <2>3. QED
    BY <2>1, <2>2, NewestIsSuffix
<1>2. QED
  BY <1>1, MqttInvariant, PTL

(* subscribe(): while a transport's connection lives, and unless           *)
(* mqtt_disconnect is in the journal, the broker has every filter that was *)
(* granted, whichever SUBACKs came late.                                   *)
THEOREM GrantedIsSubscribed == Spec => []SubscribeOkMeansSubscribed
<1>1. ASSUME MqttInv
      PROVE  SubscribeOkMeansSubscribed
  <2> SUFFICES ASSUME NEW c \in Clients, NEW f \in tr[c].granted, Whole(tr[c]),
                      wire[tr[c].conn].link # "cut"
               PROVE  f \in br[tr[c].conn].subs
    BY DEF SubscribeOkMeansSubscribed, Whole
  <2>1. CallOf(tr[c])
    BY <1>1 DEF MqttInv, CallInv
  <2>2. Fresh.granted = {}
    BY DEF Fresh
  <2>3. tr[c].net = "run"
    BY <2>1, <2>2 DEF CallOf
  <2>4. AccountedFor(tr[c], wire[tr[c].conn], br[tr[c].conn])
    BY <1>1, <2>3 DEF MqttInv, SubInv
  <2>5. QED
    BY <2>4 DEF AccountedFor
<1>2. QED
  BY <1>1, MqttInvariant, PTL

(* _handle_subscribe and _handle_publish: however a subscription, a store  *)
(* and a broadcast interleave, no live subscriber is left without the      *)
(* retained payload once the broker rests.                                 *)
THEOREM ValueReaches == Spec => []NoValueMissed
<1>1. ASSUME MqttInv
      PROVE  NoValueMissed
  <2> SUFFICES ASSUME NEW k \in Conns, Resting, retained # Empty, Live(k)
               PROVE  retained \in got[k]
    BY DEF NoValueMissed, Live
  <2>1. Served(k)
    BY <1>1 DEF MqttInv, ValueInv, Live, Served
  <2>2. ~OnTheWay(k)
    BY DEF Resting, OnTheWay
  <2>3. QED
    BY <2>1, <2>2 DEF Served
<1>2. QED
  BY <1>1, MqttInvariant, PTL
=============================================================================
