-------------------------------- MODULE Mqtt --------------------------------
(***************************************************************************)
(* The MQTT transport (mqtt_transport.py) and the simulated broker it is   *)
(* tested against (mqtt_sim.py).                                           *)
(*                                                                         *)
(* Every transport has one caller and, while it is open, the network       *)
(* thread of paho.  The broker has an accept thread, one serving thread    *)
(* per connection and the caller of stop().  They meet in the transport's  *)
(* inbox, Event and SUBACK table, in the two byte streams of a connection, *)
(* and in the broker's _clients, retained and subscriptions.               *)
(*                                                                         *)
(* There is one topic.  A payload is a number of its own; 0 is the empty   *)
(* payload, which clears the topic.                                        *)
(***************************************************************************)
EXTENDS Naturals, Sequences, FiniteSets, SequencesExt

CONSTANTS
    Clients,     \* the transports
    NDevices,    \* other clients of the broker, the firmware under test among them
    Topic,       \* the topic published to, a sequence of levels
    Filters,     \* the subscription filters, sequences of levels
    MaxConns,    \* connections at a time
    Forms,       \* the publish calls: [qos, retain, empty]
    MaxOps,      \* subscribe and publish calls, and cuts of the network, taken together
    QueueSize    \* queue_size of the inbox

ASSUME MqttAssumption ==
    /\ MaxConns \in Nat \ {0} /\ NDevices \in 0 .. MaxConns /\ MaxOps \in Nat /\ QueueSize \in Nat \ {0}
    /\ Forms \subseteq [qos : 0 .. 2, retain : BOOLEAN, empty : BOOLEAN]

VARIABLES
    tr,          \* a transport: its caller, paho's thread and what they share
    wire,        \* a connection: its state and the packets on their way
    br,          \* a connection's serving thread in the broker
    listening,   \* the listener: "on", "swept" (stop() in progress), "off"
    clients,     \* _clients
    retained,    \* the retained payload of Topic; 0 when there is none
    ops,         \* calls and cuts so far
    got          \* history: the payloads written to or read from a connection

vars == <<tr, wire, br, listening, clients, retained, ops, got>>
broker == <<br, listening, clients, retained, got>>

Conns == 1 .. MaxConns
Devices == 1 .. NDevices   \* their connections, up from the start
Empty == 0

Fresh == [call |-> "new", arg |-> <<>>, mid |-> 0, conn |-> 0, net |-> "none",
          connected |-> FALSE, closing |-> FALSE, results |-> {}, unacked |-> <<>>,
          inbox |-> <<>>, arrived |-> <<>>, granted |-> {}, told |-> FALSE]

NoThread == [pc |-> "none", subs |-> {}, job |-> <<>>, todo |-> {}]

Init ==
    /\ tr = [c \in Clients |-> Fresh]
    /\ wire = [k \in Conns |-> [link |-> IF k \in Devices THEN "up" ELSE "free", up |-> <<>>]]
    /\ br = [k \in Conns |-> [NoThread EXCEPT !.pc = IF k \in Devices THEN "idle" ELSE "none"]]
    /\ listening = "on" /\ clients = Devices /\ retained = Empty
    /\ ops = 0 /\ got = [k \in Conns |-> {}]

-----------------------------------------------------------------------------
(* Packets and wires.  A packet written to a connection that is not up is  *)
(* lost; what a device receives is not modelled further.                   *)

Packet(type, id, body) == [type |-> type, id |-> id, body |-> body]

\* topic_matches: the loop returns at the first level that decides.
TopicMatches(pattern, topic) ==
    LET decides(i) == \/ pattern[i] = "#"
                      \/ i > Len(topic)
                      \/ pattern[i] # "+" /\ pattern[i] # topic[i]
        first == SelectInSeq([i \in DOMAIN pattern |-> decides(i)], LAMBDA b : b)
    IN IF first = 0 THEN Len(pattern) = Len(topic)
       ELSE pattern[first] = "#" /\ first = Len(pattern)

Wants(k) == \E f \in br[k].subs : TopicMatches(f, Topic)

ToBroker(w, k, p) ==
    [w EXCEPT ![k].up = IF w[k].link \in {"backlog", "up"} THEN Append(@, p) ELSE @]

-----------------------------------------------------------------------------
(* The caller of a transport.                                              *)

At(c, call) == tr[c].call = call
Become(c, call) == tr' = [tr EXCEPT ![c].call = call]

\* A connection nobody uses: neither a network thread nor a serving thread, nor
\* the listener's backlog.
Unused(k) ==
    /\ k \notin Devices
    /\ \/ br[k].pc = "ended"
       \/ br[k].pc = "none" /\ wire[k].link \in {"free", "cut"}
    /\ \A c \in Clients : tr[c].conn = k => tr[c].net \notin {"run", "leaving"}

\* open(): connect() gets into the listener's backlog and loop_start starts the
\* network thread ...
Dials(c, t) ==
    /\ listening # "off"
    /\ \E k \in Conns :
         /\ Unused(k) /\ \A j \in 1 .. k - 1 : ~Unused(j)
         /\ wire' = [wire EXCEPT ![k] = [link |-> "backlog",
                        up |-> <<Packet("CONNECT", 0, Empty)>> \o t.unacked]]
         /\ tr' = [tr EXCEPT ![c] = [t EXCEPT !.conn = k, !.net = "run"]]
         /\ br' = [br EXCEPT ![k] = NoThread]
         /\ got' = [got EXCEPT ![k] = {}]
    /\ UNCHANGED <<listening, clients, retained, ops>>

Open(c) ==
    /\ At(c, "new") /\ Dials(c, [tr[c] EXCEPT !.call = "opening"])

\* ... then it waits for the CONNACK, and tears down when it does not come.
OpenReturns(c) ==
    /\ At(c, "opening") /\ tr[c].connected
    /\ Become(c, "idle")
    /\ UNCHANGED <<wire, broker, ops>>

TearsDown(c, from, call) ==
    /\ At(c, from)
    /\ tr' = [tr EXCEPT ![c] = [tr[c] EXCEPT !.call = call, !.closing = TRUE,
                  !.net = IF tr[c].net = "run" THEN "leaving" ELSE tr[c].net]]
    /\ UNCHANGED <<wire, broker, ops>>

OpenTimesOut(c) == ~tr[c].connected /\ TearsDown(c, "opening", "giving up")
Close(c) == TearsDown(c, "idle", "closing")

\* loop_stop() joins the network thread: it has seen the end of the connection.
Joined(c) == tr[c].net = "lost"

TeardownEnds(c) ==
    /\ tr[c].call \in {"giving up", "closing"} /\ Joined(c)
    /\ tr' = [tr EXCEPT ![c] =
         [Fresh EXCEPT !.call = "closed", !.conn = tr[c].conn, !.told = tr[c].told,
                       !.net = IF tr[c].net = "lost" THEN "none" ELSE tr[c].net]]
    /\ UNCHANGED <<wire, broker, ops>>

\* paho refuses with rc # 0 when it has no connection; a packet gets the next id.
CanSend(c) == At(c, "idle") /\ tr[c].net = "run" /\ ops < MaxOps

Subscribe(c, f) ==
    /\ CanSend(c)
    /\ tr' = [tr EXCEPT ![c] =
         [tr[c] EXCEPT !.call = "subscribing", !.arg = f, !.mid = tr[c].mid + 1]]
    /\ wire' = ToBroker(wire, tr[c].conn, Packet("SUBSCRIBE", tr[c].mid + 1, f))
    /\ ops' = ops + 1
    /\ UNCHANGED broker

\* A slip: any SUBACK ends the wait.
AnyAnswer(c) == tr[c].results

\* The SUBACKs that answer the running call.
Answers(c) == tr[c].results \cap {tr[c].mid}

SubscribeReturns(c) ==
    /\ At(c, "subscribing")
    /\ \E m \in Answers(c) :
         tr' = [tr EXCEPT ![c] =
           [tr[c] EXCEPT !.call = "idle", !.arg = <<>>, !.results = tr[c].results \ {m},
                         !.granted = tr[c].granted \cup {tr[c].arg}]]
    /\ UNCHANGED <<wire, broker, ops>>

SubscribeTimesOut(c) ==
    /\ At(c, "subscribing") /\ Answers(c) = {}
    /\ tr' = [tr EXCEPT ![c].call = "idle", ![c].arg = <<>>]
    /\ UNCHANGED <<wire, broker, ops>>

Publication(form, id) ==
    [type |-> "PUBLISH", id |-> id, body |-> IF form.empty THEN Empty ELSE ops + 1,
     qos |-> form.qos, retain |-> form.retain]

\* publish(): a QoS 0 packet is published when it is written; one with a QoS 1
\* is kept by paho until its PUBACK, and sent again after a reconnect.
Publish(c, form) ==
    /\ CanSend(c)
    /\ LET p == Publication(form, tr[c].mid + 1) IN
       /\ tr' = [tr EXCEPT
            ![c].mid = @ + 1,
            ![c].call = IF p.qos = 0 THEN "idle" ELSE "publishing",
            ![c].unacked = IF p.qos = 0 THEN @ ELSE Append(@, p)]
       /\ wire' = ToBroker(wire, tr[c].conn, p)
    /\ ops' = ops + 1
    /\ UNCHANGED broker

\* It returns at the PUBACK or fails without it.
PublishEnds(c) ==
    /\ At(c, "publishing") /\ Become(c, "idle")
    /\ UNCHANGED <<wire, broker, ops>>

\* read_message(): an empty inbox ends in a timeout, which changes nothing.
ReadMessage(c) ==
    /\ At(c, "idle") /\ tr[c].inbox # <<>>
    /\ tr' = [tr EXCEPT ![c].inbox = Tail(@)]
    /\ UNCHANGED <<wire, broker, ops>>

-----------------------------------------------------------------------------
(* The network thread of paho and its callbacks.                           *)

\* A slip: the full inbox refuses the message.
KeptOldest(inbox, v) == IF Len(inbox) = QueueSize THEN inbox ELSE Append(inbox, v)

\* deque(maxlen=queue_size).append
Kept(inbox, v) ==
    IF Len(inbox) = QueueSize THEN Append(Tail(inbox), v) ELSE Append(inbox, v)

\* paho forgets a publication at its PUBACK.
Unpublished(s, id) ==
    IF \E i \in DOMAIN s : s[i].id = id
    THEN RemoveAt(s, CHOOSE i \in DOMAIN s : s[i].id = id) ELSE s

OnPacket(t, p) ==
    CASE p.type = "CONNACK" -> [t EXCEPT !.connected = TRUE]
      [] p.type = "SUBACK"  -> [t EXCEPT !.results = @ \cup {p.id}]
      [] p.type = "PUBACK"  -> [t EXCEPT !.unacked = Unpublished(@, p.id)]
      [] p.type = "PUBLISH" -> [t EXCEPT !.inbox = Kept(@, p.body),
                                         !.arrived = Append(@, p.body)]

\* A packet the broker writes to connection k, received by its transport; the
\* payloads written are remembered per connection.
Received(k, p) ==
    [c \in Clients |->
        IF tr[c].conn = k /\ tr[c].net \in {"run", "leaving"} /\ wire[k].link = "up"
        THEN OnPacket(tr[c], p) ELSE tr[c]]

Sends(k, p) ==
    /\ tr' = Received(k, p)
    /\ got' = IF p.type = "PUBLISH" /\ wire[k].link = "up"
              THEN [got EXCEPT ![k] = @ \cup {p.body}] ELSE got

\* _on_disconnect
OnDisconnect(t) ==
    [t EXCEPT !.connected = FALSE, !.net = "lost", !.told = @ \/ ~t.closing]

\* The connection is gone ...
NetLoses(c) ==
    LET k == tr[c].conn IN
    /\ tr[c].net \in {"run", "leaving"} /\ wire[k].link = "cut"
    /\ tr' = [tr EXCEPT ![c] = OnDisconnect(@)]
    /\ UNCHANGED <<wire, broker, ops>>

\* ... or _teardown asked for its end: the thread writes DISCONNECT and hangs up.
NetHangsUp(c) ==
    LET k == tr[c].conn IN
    /\ tr[c].net = "leaving"
    /\ tr' = [tr EXCEPT ![c] = OnDisconnect(@)]
    /\ wire' = [ToBroker(wire, k, Packet("DISCONNECT", 0, Empty)) EXCEPT
                  ![k].link = IF @ = "cut" THEN "cut" ELSE "shut"]
    /\ UNCHANGED <<broker, ops>>

\* paho connects again by itself, as a clean session.
NetReconnects(c) ==
    /\ tr[c].net = "lost" /\ tr[c].call \notin {"giving up", "closing"}
    /\ Dials(c, tr[c])

-----------------------------------------------------------------------------
(* A device publishes without waiting for anything.                        *)

DevicePublishes(d, form) ==
    /\ wire[d].link = "up" /\ ops < MaxOps
    /\ wire' = ToBroker(wire, d, Publication(form, 0))
    /\ ops' = ops + 1
    /\ UNCHANGED <<tr, broker>>

\* The network cuts a connection.
Cut(k) ==
    /\ wire[k].link = "up" /\ ops < MaxOps
    /\ wire' = [wire EXCEPT ![k].link = "cut"]
    /\ ops' = ops + 1
    /\ UNCHANGED <<tr, broker>>

-----------------------------------------------------------------------------
(* The broker.                                                             *)

Thread(k, pc) == br[k].pc = pc
Goes(k, pc) ==
    br' = [br EXCEPT ![k].pc = pc, ![k].job = IF pc = "idle" THEN <<>> ELSE @]

\* The accept thread takes a connection from the backlog, registers it and starts
\* its thread; until the listener is closed it also does so behind stop()'s sweep.
Accept(k) ==
    /\ listening # "off" /\ wire[k].link \in {"backlog", "shut"} /\ Thread(k, "none")
    /\ Goes(k, "idle")
    /\ clients' = clients \cup {k}
    /\ wire' = [wire EXCEPT ![k].link = IF @ = "backlog" THEN "up" ELSE @]
    /\ UNCHANGED <<tr, listening, retained, got, ops>>

\* serve(): the next packet of the connection.
Next_(k) == Head(wire[k].up)
Takes(k, type) ==
    Thread(k, "idle") /\ wire[k].up # <<>> /\ Next_(k).type = type
Taken(k) == [wire EXCEPT ![k].up = Tail(@)]

Connect(k) ==
    /\ Takes(k, "CONNECT")
    /\ wire' = Taken(k)
    /\ Sends(k, Packet("CONNACK", 0, Empty))
    /\ UNCHANGED <<br, listening, clients, retained, ops>>

\* _handle_subscribe: the filters first, then the SUBACK, then what is retained.
HandleSubscribe(k) ==
    /\ Takes(k, "SUBSCRIBE")
    /\ br' = [br EXCEPT ![k] = [br[k] EXCEPT !.subs = br[k].subs \cup {Next_(k).body},
                                             !.pc = "suback", !.job = <<Next_(k)>>]]
    /\ wire' = Taken(k)
    /\ UNCHANGED <<tr, listening, clients, retained, got, ops>>

SendSuback(k) ==
    /\ Thread(k, "suback") /\ Goes(k, "snapshot")
    /\ Sends(k, Packet("SUBACK", br[k].job[1].id, Empty))
    /\ UNCHANGED <<wire, listening, clients, retained, ops>>

RetainedFor(k) ==
    IF TopicMatches(br[k].job[1].body, Topic) THEN {retained} \ {Empty} ELSE {}

TakeSnapshot(k) ==
    /\ Thread(k, "snapshot")
    /\ br' = [br EXCEPT ![k] = [br[k] EXCEPT !.pc = "replay", !.todo = RetainedFor(k)]]
    /\ UNCHANGED <<tr, wire, listening, clients, retained, got, ops>>

Replay(k) ==
    /\ Thread(k, "replay")
    /\ \/ /\ br[k].todo = {} /\ Goes(k, "idle") /\ UNCHANGED <<tr, got>>
       \/ \E v \in br[k].todo :
            /\ Sends(k, Packet("PUBLISH", 0, v))
            /\ br' = [br EXCEPT ![k].todo = @ \ {v}]
    /\ UNCHANGED <<wire, listening, clients, retained, ops>>

\* A slip: the broadcast first, the retained payload after it.
PublishGoesLate(p, at) ==
    CASE at = "read"  -> IF p.qos = 2 THEN "idle" ELSE "aim"
      [] at = "cast"  -> IF p.retain THEN "store" ELSE "idle"
      [] at = "store" -> "idle"

\* _handle_publish: the PUBACK with the read, then the retained payload, then the
\* broadcast; QoS 2 is ignored.
PublishGoes(p, at) ==
    CASE at = "read"  -> IF p.qos = 2 THEN "idle" ELSE IF p.retain THEN "store" ELSE "aim"
      [] at = "store" -> "aim"
      [] at = "cast"  -> "idle"

HandlePublish(k) ==
    /\ Takes(k, "PUBLISH")
    /\ br' = [br EXCEPT ![k] = [br[k] EXCEPT !.job = <<Next_(k)>>,
                                             !.pc = PublishGoes(Next_(k), "read")]]
    /\ wire' = Taken(k)
    /\ tr' = IF Next_(k).qos = 1 THEN Received(k, Packet("PUBACK", Next_(k).id, Empty)) ELSE tr
    /\ got' = [got EXCEPT ![k] = @ \cup {Next_(k).body}]
    /\ UNCHANGED <<listening, clients, retained, ops>>

Store(k) ==
    /\ Thread(k, "store") /\ Goes(k, PublishGoes(br[k].job[1], "store"))
    /\ retained' = br[k].job[1].body
    /\ UNCHANGED <<tr, wire, listening, clients, got, ops>>

\* _broadcast: the targets under the lock, the sends outside it.
Aim(k) ==
    /\ Thread(k, "aim")
    /\ br' = [br EXCEPT ![k] = [br[k] EXCEPT !.pc = "cast", !.todo = clients \ {k}]]
    /\ UNCHANGED <<tr, wire, listening, clients, retained, got, ops>>

\* A target whose socket raises is passed over.
Cast(k) ==
    /\ Thread(k, "cast")
    /\ \/ /\ br[k].todo = {} /\ Goes(k, PublishGoes(br[k].job[1], "cast")) /\ UNCHANGED <<tr, got>>
       \/ \E t \in br[k].todo :
            /\ br' = [br EXCEPT ![k].todo = @ \ {t}]
            /\ IF Wants(t) THEN Sends(t, Packet("PUBLISH", 0, br[k].job[1].body))
               ELSE UNCHANGED <<tr, got>>
    /\ UNCHANGED <<wire, listening, clients, retained, ops>>

\* The thread ends: at DISCONNECT or the end of the stream, or when a send to
\* its own client raises.
ServeEnds(k) ==
    /\ \/ Takes(k, "DISCONNECT")
       \/ Thread(k, "idle") /\ wire[k].up = <<>> /\ wire[k].link \in {"cut", "shut"}
       \/ br[k].pc \in {"suback", "replay"} /\ wire[k].link \in {"cut", "shut"}
    /\ clients' = clients \ {k}
    /\ br' = [br EXCEPT ![k] = [NoThread EXCEPT !.pc = "ended"]]
    /\ wire' = [wire EXCEPT ![k] = [up |-> <<>>,
                     link |-> IF wire[k].link = "up" THEN "cut" ELSE wire[k].link]]
    /\ UNCHANGED <<tr, listening, retained, got, ops>>

\* stop(): the registered sockets under the lock, then the listener.
Sweep ==
    /\ listening = "on" /\ listening' = "swept"
    /\ wire' = [k \in Conns |-> IF k \in clients /\ wire[k].link = "up"
                                THEN [wire[k] EXCEPT !.link = "cut"] ELSE wire[k]]
    /\ clients' = {}
    /\ UNCHANGED <<tr, br, retained, got, ops>>

StopListening ==
    /\ listening = "swept" /\ listening' = "off"
    /\ wire' = [k \in Conns |-> IF wire[k].link = "backlog"
                                THEN [wire[k] EXCEPT !.link = "cut"] ELSE wire[k]]
    /\ UNCHANGED <<tr, br, clients, retained, got, ops>>

-----------------------------------------------------------------------------
CallerNext(c) ==
    \/ Open(c) \/ OpenReturns(c) \/ OpenTimesOut(c) \/ Close(c) \/ TeardownEnds(c)
    \/ \E f \in Filters : Subscribe(c, f)
    \/ SubscribeReturns(c) \/ SubscribeTimesOut(c) \/ ReadMessage(c)
    \/ \E form \in Forms : Publish(c, form)
    \/ PublishEnds(c)

NetNext(c) == NetLoses(c) \/ NetHangsUp(c) \/ NetReconnects(c)

ServeNext(k) ==
    \/ Accept(k) \/ Connect(k) \/ HandleSubscribe(k) \/ SendSuback(k)
    \/ TakeSnapshot(k) \/ Replay(k) \/ HandlePublish(k) \/ Store(k) \/ Aim(k) \/ Cast(k)
    \/ ServeEnds(k) \/ Cut(k)

Next ==
    \/ \E c \in Clients : CallerNext(c) \/ NetNext(c)
    \/ \E d \in Devices, form \in Forms : DevicePublishes(d, form)
    \/ \E k \in Conns : ServeNext(k)
    \/ Sweep \/ StopListening

Spec == Init /\ [][Next]_vars

-----------------------------------------------------------------------------
\* Resting: no serving thread is inside a handler.
Resting == \A k \in Conns : br[k].pc \in {"none", "idle", "ended"}

\* When the broker rests, every live connection whose filters match has been
\* sent the payload that is retained, however its subscription, the store and
\* the broadcast interleaved and whoever else died meanwhile (mqtt_sim.py: the
\* order of _handle_subscribe and of _handle_publish).
NoValueMissed ==
    \A k \in Conns :
      (Resting /\ retained # Empty /\ Wants(k) /\ wire[k].link = "up" /\ k \in clients)
        => retained \in got[k]

\* A subscribe() that returned has a subscription in the broker: a SUBACK that
\* came too late for its own call answers no other, and a subscription that went
\* with its connection is announced by mqtt_disconnect in the journal.
SubscribeOkMeansSubscribed ==
    \A c \in Clients : \A f \in tr[c].granted :
      \/ tr[c].told
      \/ wire[tr[c].conn].link = "cut" \/ tr[c].closing
      \/ f \in br[tr[c].conn].subs

\* The inbox is the newest part of what arrived, in the order of arrival.
InboxIsNewest == \A c \in Clients : IsSuffix(tr[c].inbox, tr[c].arrived)
=============================================================================
