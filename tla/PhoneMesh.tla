----------------------------- MODULE PhoneMesh -----------------------------
(***************************************************************************)
(* Phones that each run the embedded server (peatlink-mobile): how a chat  *)
(* message of the room "general" spreads between their rooms, the Go       *)
(* server and the phones in Bluetooth range.  On a phone                   *)
(*                                                                         *)
(*   ws_server.rs       keeps the room, its WebView writes into it;        *)
(*   upstream_relay.rs  is a client of the Go server;                      *)
(*   bridge.rs          exchanges the room's broadcasts over BLE;          *)
(*                                                                         *)
(* and all of them share one set seen_ids of what has been handled.  Every *)
(* queue is a FIFO; the broadcast channels of the relay exist only while   *)
(* it is connected.  Every phone has a callsign, different from the others'.*)
(***************************************************************************)
EXTENDS Integers, Sequences, FiniteSets, FiniteSetsExt

CONSTANTS
  Phones,
  Msgs,        \* message ids
  Web,         \* the browsers of the Go server
  Author,      \* who writes a message: Web or a phone's WebView
  Links,       \* pairs <<p, q>> of phones that may come into BLE range
  Dual,        \* those that both GATT roles carry
  MaxEvents    \* bound on messages written and connections broken

ASSUME PhoneMeshAssumption ==
  /\ Web \notin Phones /\ Author \in [Msgs -> Phones \cup {Web}]
  /\ Dual \subseteq Links /\ Links \subseteq Phones \X Phones
  /\ \A l \in Links : l[1] # l[2] /\ <<l[2], l[1]>> \in Links
  /\ MaxEvents \in Nat

VARIABLES
  sent,      \* messages their author has written
  log,       \* Room.messages of each phone
  serverLog, \* Room.Messages of the Go server
  seen,      \* seen_ids of each phone
  roomRx,    \* room_rx, the room's broadcasts the bridge has not handled
  relayRx,   \* relay_rx: what the WebView wrote
  passRx,    \* passthrough_rx: what came over BLE
  online,    \* the relay is connected
  conns,     \* its connections so far, each another identity at the server
  joined,    \* the server has it in the room
  up, down,  \* its websocket
  history,   \* what its task has still to handle of a history
  linked,    \* BLE links that are up
  greeted,   \* <<p, q>>: p's bridge has handled PeerConnected of q
  ble,       \* packets under way to a phone from another
  uploads,   \* how often a phone has sent a message up
  owed       \* <<p, m>>: p took m while online and has been online since

phoneVars == <<log, seen, roomRx>>
relayVars == <<relayRx, passRx, up, down, history, uploads>>
connVars == <<online, conns, joined, owed>>
bleVars == <<linked, greeted, ble>>
vars == <<sent, serverLog, phoneVars, relayVars, connVars, bleVars>>

(***************************************************************************)
(* A ChatMessage is its id and who gave it sender and timestamp: its       *)
(* author, or the server when a phone sent it up (by which path, on which  *)
(* connection).  Two are the same bytes exactly when they are equal.       *)
(***************************************************************************)
Stamps == (Phones \cup {Web}) \X {"author", "relay", "pass"} \X Nat
ChatMessage == [id : Msgs, by : Stamps]
Written(m) == [id |-> m, by |-> <<Author[m], "author", 0>>]
Ids(s) == {s[i].id : i \in DOMAIN s}

\* The keys relay-in-, relay-out-, ble-in-, ble-sent- and ble-echo-.
Key(kind, m) == <<kind, m>>

Join == [type |-> "join_room"]
SendMessage(m, path) == [type |-> "send_message", id |-> m, path |-> path]
Message(c) == [type |-> "message", message |-> c]
RoomHistory(cs) == [type |-> "room_history", messages |-> cs]

Init ==
  /\ sent = {} /\ serverLog = <<>>
  /\ log = [p \in Phones |-> <<>>] /\ seen = [p \in Phones |-> {}]
  /\ roomRx = [p \in Phones |-> <<>>]
  /\ relayRx = [p \in Phones |-> <<>>] /\ passRx = [p \in Phones |-> <<>>]
  /\ up = [p \in Phones |-> <<>>] /\ down = [p \in Phones |-> <<>>]
  /\ history = [p \in Phones |-> <<>>]
  /\ online = [p \in Phones |-> FALSE] /\ conns = [p \in Phones |-> 0]
  /\ joined = {} /\ linked = {} /\ greeted = {}
  /\ ble = [l \in Links |-> <<>>]
  /\ uploads = [p \in Phones |-> [m \in Msgs |-> 0]] /\ owed = {}

\* The bound on what the world does.
Broken(p) == conns[p] - (IF online[p] THEN 1 ELSE 0)
WithinBound == Cardinality(sent) + MapThenSumSet(Broken, Phones) < MaxEvents

-----------------------------------------------------------------------------
(* The phone's room. *)

\* Mutant: the room takes what it has again.
InjectUnchecked(p, c) ==
  /\ log' = [log EXCEPT ![p] = Append(@, c)]
  /\ roomRx' = [roomRx EXCEPT ![p] = Append(@, c)]

\* inject_external_message: what the room has is dropped, the rest is appended
\* and broadcast.
InjectExternalMessage(p, c) ==
  IF c.id \in Ids(log[p])
    THEN UNCHANGED <<log, roomRx>>
    ELSE /\ log' = [log EXCEPT ![p] = Append(@, c)]
         /\ roomRx' = [roomRx EXCEPT ![p] = Append(@, c)]

\* Mutant: the channel keeps what nobody receives.
SendQueued(p, m) ==
  /\ Author[m] = p /\ m \notin sent /\ WithinBound
  /\ sent' = sent \cup {m}
  /\ log' = [log EXCEPT ![p] = Append(@, Written(m))]
  /\ roomRx' = [roomRx EXCEPT ![p] = Append(@, Written(m))]
  /\ relayRx' = [relayRx EXCEPT ![p] = Append(@, Written(m))]
  /\ owed' = owed \cup {<<p, m>>}
  /\ UNCHANGED <<serverLog, seen, passRx, up, down, history, uploads, online, conns, joined, bleVars>>

\* The WebView's send_message: into the room, to the bridge and to the relay,
\* whose channel has a receiver only while it is connected.
SendLocal(p, m) ==
  /\ Author[m] = p /\ m \notin sent /\ WithinBound
  /\ sent' = sent \cup {m}
  /\ log' = [log EXCEPT ![p] = Append(@, Written(m))]
  /\ roomRx' = [roomRx EXCEPT ![p] = Append(@, Written(m))]
  /\ IF online[p]
       THEN /\ relayRx' = [relayRx EXCEPT ![p] = Append(@, Written(m))]
            /\ owed' = owed \cup {<<p, m>>}
       ELSE UNCHANGED <<relayRx, owed>>
  /\ UNCHANGED <<serverLog, seen, passRx, up, down, history, uploads, online, conns, joined, bleVars>>

-----------------------------------------------------------------------------
(* The upstream relay. *)

\* run_relay joins the room and subscribes.
Connect(p) ==
  /\ ~online[p]
  /\ online' = [online EXCEPT ![p] = TRUE]
  /\ conns' = [conns EXCEPT ![p] = @ + 1]
  /\ up' = [up EXCEPT ![p] = <<Join>>]
  /\ UNCHANGED <<sent, serverLog, phoneVars, relayRx, passRx, down, history, uploads, joined, owed, bleVars>>

\* The task handles one event at a time, a history to its end.
Idle(p) == history[p] = <<>>

\* The connection breaks, at either end; both directions are lost, and the
\* subscriptions with what they hold.
Disconnect(p) ==
  /\ online[p] /\ Idle(p) /\ WithinBound
  /\ online' = [online EXCEPT ![p] = FALSE]
  /\ joined' = joined \ {p}
  /\ relayRx' = [relayRx EXCEPT ![p] = <<>>] /\ passRx' = [passRx EXCEPT ![p] = <<>>]
  /\ up' = [up EXCEPT ![p] = <<>>] /\ down' = [down EXCEPT ![p] = <<>>]
  /\ owed' = {o \in owed : o[1] # p}
  /\ UNCHANGED <<sent, serverLog, phoneVars, history, uploads, conns, bleVars>>

Upload(p, m, path) ==
  /\ up' = [up EXCEPT ![p] = Append(@, SendMessage(m, path))]
  /\ uploads' = [uploads EXCEPT ![p][m] = @ + 1]

\* Mutant: what went over BLE does not go up.
ForwardUnlessOnBle(p) ==
  /\ Idle(p) /\ relayRx[p] # <<>>
  /\ relayRx' = [relayRx EXCEPT ![p] = Tail(@)]
  /\ LET m == Head(relayRx[p]).id
     IN IF {Key("relay-out", m), Key("ble-sent", m)} \cap seen[p] # {}
          THEN UNCHANGED <<seen, up, uploads>>
          ELSE /\ seen' = [seen EXCEPT ![p] = @ \cup {Key("relay-out", m)}]
               /\ Upload(p, m, "relay")
  /\ UNCHANGED <<sent, serverLog, log, roomRx, passRx, down, history, connVars, bleVars>>

\* A message of the WebView goes up unless it went up, or came down, before.
ForwardUpstream(p) ==
  /\ Idle(p) /\ relayRx[p] # <<>>
  /\ relayRx' = [relayRx EXCEPT ![p] = Tail(@)]
  /\ LET m == Head(relayRx[p]).id
     IN IF Key("relay-out", m) \in seen[p]
          THEN UNCHANGED <<seen, up, uploads>>
          ELSE /\ seen' = [seen EXCEPT ![p] = @ \cup {Key("relay-out", m)}]
               /\ Upload(p, m, "relay")
  /\ UNCHANGED <<sent, serverLog, log, roomRx, passRx, down, history, connVars, bleVars>>

\* What the bridge received goes up as it is.
PassThrough(p) ==
  /\ Idle(p) /\ passRx[p] # <<>>
  /\ passRx' = [passRx EXCEPT ![p] = Tail(@)]
  /\ Upload(p, Head(passRx[p]).id, "pass")
  /\ UNCHANGED <<sent, serverLog, phoneVars, relayRx, down, history, connVars, bleVars>>

\* The server shows the relay as the sender: only for what it sent itself, on
\* this connection.
Own(p, c) == c.by = <<p, "relay", conns[p]>>

\* A message from the server is marked, in both directions, and injected unless
\* it is an echo of what this phone wrote.
TakeUpstream(p, c) ==
  IF Key("relay-in", c.id) \in seen[p]
    THEN UNCHANGED phoneVars
    ELSE /\ seen' = [seen EXCEPT ![p] = @ \cup {Key("relay-in", c.id), Key("relay-out", c.id)}]
         /\ IF Own(p, c) THEN UNCHANGED <<log, roomRx>> ELSE InjectExternalMessage(p, c)

HandleUpstreamMessage(p) ==
  /\ Idle(p) /\ down[p] # <<>>
  /\ down' = [down EXCEPT ![p] = Tail(@)]
  /\ LET e == Head(down[p])
     IN \/ e.type = "message" /\ TakeUpstream(p, e.message) /\ UNCHANGED history
        \/ /\ e.type = "room_history"
           /\ history' = [history EXCEPT ![p] = e.messages]
           /\ UNCHANGED phoneVars
  /\ UNCHANGED <<sent, serverLog, relayRx, passRx, up, uploads, connVars, bleVars>>

\* The next one of a history: its own are skipped.  The room and the bridge go
\* on between two of them, at the task's awaits.
HandleHistory(p) ==
  /\ history[p] # <<>>
  /\ history' = [history EXCEPT ![p] = Tail(@)]
  /\ LET c == Head(history[p])
     IN IF Own(p, c) THEN UNCHANGED phoneVars ELSE TakeUpstream(p, c)
  /\ UNCHANGED <<sent, serverLog, relayRx, passRx, up, down, uploads, connVars, bleVars>>

-----------------------------------------------------------------------------
(* The Go server, as far as it shows in one room. *)

\* AddMessage keeps the first message of an id, the broadcast follows anyway.
Publish(c) ==
  /\ serverLog' = IF c.id \in Ids(serverLog) THEN serverLog ELSE Append(serverLog, c)
  /\ down' = [p \in Phones |-> IF p \in joined THEN Append(down[p], Message(c)) ELSE down[p]]

\* Mutant: the newcomer is told nothing.
JoinWithoutHistory(p) ==
  /\ joined' = joined \cup {p}
  /\ UNCHANGED <<serverLog, down>>

ServerJoin(p) ==
  /\ joined' = joined \cup {p}
  /\ down' = [down EXCEPT ![p] = Append(@, RoomHistory(serverLog))]
  /\ UNCHANGED serverLog

ServerReceive(p) ==
  /\ up[p] # <<>>
  /\ up' = [up EXCEPT ![p] = Tail(@)]
  /\ LET e == Head(up[p])
     IN \/ e.type = "join_room" /\ ServerJoin(p)
        \/ /\ e.type = "send_message"
           /\ IF p \in joined
                THEN Publish([id |-> e.id, by |-> <<p, e.path, conns[p]>>])
                ELSE UNCHANGED <<serverLog, down>>
           /\ UNCHANGED joined
  /\ UNCHANGED <<sent, phoneVars, relayRx, passRx, history, uploads, online, conns, owed, bleVars>>

\* Somebody at the server writes.
SendWeb(m) ==
  /\ Author[m] = Web /\ m \notin sent /\ WithinBound
  /\ sent' = sent \cup {m}
  /\ Publish(Written(m))
  /\ UNCHANGED <<phoneVars, relayRx, passRx, up, history, uploads, connVars, bleVars>>

-----------------------------------------------------------------------------
(* The bridge. *)

Peers(p) == {q \in Phones : <<p, q>> \in linked}

\* ble_send_tx: to everybody in range.
BleSend(p, cs) ==
  ble' = [l \in Links |->
           IF l[1] = p /\ l[2] \in Peers(p)
             THEN ble[l] \o cs ELSE ble[l]]

LinkUp(p, q) ==
  /\ <<p, q>> \in Links \ linked
  /\ linked' = linked \cup {<<p, q>>, <<q, p>>}
  /\ UNCHANGED <<sent, serverLog, phoneVars, relayVars, connVars, greeted, ble>>

\* Mutant: the newcomer is told nothing.
GreetWithoutHistory(p, q) ==
  /\ q \in Peers(p) /\ <<p, q>> \notin greeted
  /\ greeted' = greeted \cup {<<p, q>>}
  /\ UNCHANGED <<sent, serverLog, phoneVars, relayVars, connVars, linked, ble>>

\* sync_room_history_to_ble
SyncRoomHistory(p) == BleSend(p, log[p])

\* The bridge hears of a peer: by the connection it made, or by the peer's
\* first write.
PeerConnected(p, q) ==
  /\ q \in Peers(p) /\ <<p, q>> \notin greeted
  /\ greeted' = greeted \cup {<<p, q>>}
  /\ SyncRoomHistory(p)
  /\ UNCHANGED <<sent, serverLog, phoneVars, relayVars, connVars, linked>>

\* forward_ws_to_ble: a broadcast is marked, and sent unless the same bytes
\* have come in over BLE.
ForwardToBle(p) ==
  /\ roomRx[p] # <<>>
  /\ roomRx' = [roomRx EXCEPT ![p] = Tail(@)]
  /\ LET c == Head(roomRx[p])
     IN /\ seen' = [seen EXCEPT ![p] = @ \cup {Key("ble-sent", c.id)}]
        /\ IF Key("ble-echo", c) \in seen[p] THEN UNCHANGED ble ELSE BleSend(p, <<c>>)
  /\ UNCHANGED <<sent, serverLog, log, relayVars, connVars, linked, greeted>>

\* A packet of q arrives; it comes again when both GATT roles carry the link.
Arrives(p, q) ==
  /\ <<q, p>> \in Links /\ ble[<<q, p>>] # <<>>
  /\ \/ ble' = [ble EXCEPT ![<<q, p>>] = Tail(@)]
     \/ <<q, p>> \in Dual /\ UNCHANGED ble

\* p has sent the message itself, or had the same bytes from a peer.
Echo(p, c) == {Key("ble-sent", c.id), Key("ble-echo", c)} \cap seen[p] # {}

\* passthrough_tx.send: like the relay's channel.
PassUp(p, c) ==
  IF online[p]
    THEN /\ passRx' = [passRx EXCEPT ![p] = Append(@, c)]
         /\ owed' = owed \cup {<<p, c.id>>}
    ELSE UNCHANGED <<passRx, owed>>

\* Mutant: only the room keeps a packet from being taken twice.
BleReceiveUnmarked(p, q) ==
  /\ Arrives(p, q)
  /\ LET c == Head(ble[<<q, p>>])
     IN IF Key("ble-sent", c.id) \in seen[p]
          THEN UNCHANGED <<phoneVars, passRx, owed>>
          ELSE /\ InjectExternalMessage(p, c)
               /\ PassUp(p, c)
               /\ UNCHANGED seen
  /\ UNCHANGED <<sent, serverLog, relayRx, up, down, history, uploads, online, conns, joined, linked, greeted>>

\* What is neither an echo nor known by its id goes into the room and, when the
\* relay listens, to the server.
BleReceive(p, q) ==
  /\ Arrives(p, q)
  /\ LET c == Head(ble[<<q, p>>])
     IN IF Echo(p, c)
          THEN UNCHANGED <<phoneVars, passRx, owed>>
          ELSE /\ seen' = [seen EXCEPT ![p] = @ \cup {Key("ble-echo", c), Key("ble-in", c.id)}]
               /\ IF Key("ble-in", c.id) \in seen[p]
                    THEN UNCHANGED <<log, roomRx, passRx, owed>>
                    ELSE /\ InjectExternalMessage(p, c)
                         /\ PassUp(p, c)
  /\ UNCHANGED <<sent, serverLog, relayRx, up, down, history, uploads, online, conns, joined, linked, greeted>>

-----------------------------------------------------------------------------
RelayStep(p) ==
  \/ ForwardUpstream(p) \/ PassThrough(p) \/ ServerReceive(p)
  \/ HandleUpstreamMessage(p) \/ HandleHistory(p)

BridgeStep(p) ==
  \/ ForwardToBle(p)
  \/ \E q \in Phones : PeerConnected(p, q) \/ BleReceive(p, q)

Next ==
  \/ \E m \in Msgs : SendWeb(m)
  \/ \E p \in Phones :
       \/ \E m \in Msgs : SendLocal(p, m)
       \/ Connect(p) \/ Disconnect(p)
       \/ \E q \in Phones : LinkUp(p, q)
       \/ RelayStep(p) \/ BridgeStep(p)

Spec == Init /\ [][Next]_vars

-----------------------------------------------------------------------------
\* Messages, requests and keys of what has been written.
Known == {c \in ChatMessage : c.id \in sent}
Requests == {Join} \cup [type : {"send_message"}, id : sent, path : {"relay", "pass"}]
Envelopes ==
  [type : {"message"}, message : Known] \cup [type : {"room_history"}, messages : Seq(Known)]
KnownKeys ==
  ({"relay-in", "relay-out", "ble-in", "ble-sent"} \X sent) \cup ({"ble-echo"} \X Known)

RoomTypes ==
  /\ sent \subseteq Msgs /\ serverLog \in Seq(Known)
  /\ log \in [Phones -> Seq(Known)] /\ roomRx \in [Phones -> Seq(Known)]
  /\ seen \in [Phones -> SUBSET KnownKeys]

QueueTypes ==
  /\ relayRx \in [Phones -> Seq(Known)] /\ passRx \in [Phones -> Seq(Known)]
  /\ up \in [Phones -> Seq(Requests)] /\ down \in [Phones -> Seq(Envelopes)]
  /\ history \in [Phones -> Seq(Known)]

RelayTypes ==
  /\ uploads \in [Phones -> [Msgs -> Nat]] /\ owed \subseteq Phones \X sent
  /\ online \in [Phones -> BOOLEAN] /\ conns \in [Phones -> Nat] /\ joined \subseteq Phones

BleTypes ==
  linked \subseteq Links /\ greeted \subseteq linked /\ ble \in [Links -> Seq(Known)]

Offline(p) ==
  /\ p \notin joined
  /\ relayRx[p] = <<>> /\ passRx[p] = <<>>
  /\ up[p] = <<>> /\ down[p] = <<>> /\ history[p] = <<>>

(* Each variable has its type, nobody has a message before its author wrote   *)
(* it, and while the relay is down it holds nothing: its channels have no     *)
(* receiver and the server does not list it.  This is the life of the         *)
(* broadcast channels of ws_server.rs:137-153 and of run_relay's              *)
(* subscriptions, upstream_relay.rs:204-208.                                  *)
TypeOK ==
  /\ RoomTypes /\ QueueTypes /\ RelayTypes /\ BleTypes
  /\ \A p \in Phones : ~online[p] => Offline(p)

\* Nothing is under way.
Quiet ==
  /\ \A p \in Phones : roomRx[p] = <<>> /\ relayRx[p] = <<>> /\ passRx[p] = <<>>
                         /\ up[p] = <<>> /\ down[p] = <<>> /\ history[p] = <<>>
  /\ \A l \in Links : ble[l] = <<>>
  /\ greeted = linked

(* No room shows a message twice, whichever of the WebView, the server's      *)
(* broadcast, its history after a reconnect and the Bluetooth peers brings it *)
(* first (inject_external_message, ws_server.rs:192-216, Room.AddMessage).    *)
NoDuplicates ==
  /\ \A p \in Phones : Cardinality(Ids(log[p])) = Len(log[p])
  /\ Cardinality(Ids(serverLog)) = Len(serverLog)

(* The shared seen_ids keep a message from circling between the transports:   *)
(* a phone sends one it did not write up at most once, over all reconnects,   *)
(* and one it wrote at most once more, when it comes back over BLE before the *)
(* bridge has marked it (upstream_relay.rs:501-509, bridge.rs:495-500).       *)
UploadedOnce ==
  \A p \in Phones, m \in Msgs : uploads[p][m] <= IF Author[m] = p THEN 2 ELSE 1

(* A phone that is connected has everything the server has, also what was     *)
(* said while it was away and what another phone gave the server first        *)
(* (handle_upstream_message, upstream_relay.rs:309-427).                      *)
UpstreamCaughtUp ==
  Quiet => \A p \in Phones : online[p] => Ids(serverLog) \subseteq Ids(log[p])

(* What a phone takes from its WebView or from a BLE peer while it is         *)
(* connected reaches the server, unless that connection breaks: no key that   *)
(* another transport puts into seen_ids suppresses it for good                *)
(* (filter_for_upstream, upstream_relay.rs:485-536, and bridge.rs:520-535).   *)
OnlineReachesServer ==
  Quiet => \A o \in owed : o[2] \in Ids(serverLog)

(* Two phones in Bluetooth range, with no third one, have the same messages,  *)
(* whatever came before they met, over which path and in which order          *)
(* (sync_room_history_to_ble, bridge.rs:919-962, and forward_ws_to_ble).      *)
LinkedPhonesAgree ==
  Quiet => \A l \in linked : Ids(log[l[1]]) = Ids(log[l[2]])

(* README.md:445: "All handlers also forward to `passthrough_tx` so           *)
(* operations sync upstream when connectivity returns": a message a phone has *)
(* is at the server once the phone is connected.                              *)
OfflineMessagesSync ==
  Quiet => \A p \in joined : Ids(log[p]) \subseteq Ids(serverLog)
=============================================================================
