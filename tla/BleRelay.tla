------------------------------ MODULE BleRelay ------------------------------
(***************************************************************************)
(* Voice channels and BLE peers of the Go server (server/hub.go,           *)
(* server/room.go).  A phone that is a relay registers the BLE peers it    *)
(* can hear and speaks for them: it joins voice channels and reports       *)
(* positions on their behalf.  A registration belongs to one relay; what a *)
(* peer has left in the rooms is keyed by the peer alone.                  *)
(*                                                                         *)
(* One step is one critical section of h.mu, room.mu or vc.mu.  A room has *)
(* one voice channel here, the "General" of NewRoom.  Who has joined which *)
(* room is fixed until the connection is retired: Hub models the rest.     *)
(***************************************************************************)
EXTENDS Naturals

CONSTANTS
  Clients,      \* connections
  Peers,        \* peer ids: provisional MAC addresses and BLE node ids
  Rooms,
  Joined,       \* the rooms a connection has joined
  Hears         \* the peers a relay registers and speaks for

ASSUME BleRelayAssumption ==
  /\ Joined \in [Clients -> SUBSET Rooms]
  /\ Hears \in [Clients -> SUBSET Peers]
  /\ "none" \notin Clients

None == "none"

VARIABLES
  conn,         \* life of a connection: live, closing, gone, closed
  members,      \* room.Members
  relayOf,      \* h.blePeers: the relay a peer is registered through
  voice,        \* vc.Members
  speaking,     \* vc.Speaking
  bleVoice,     \* vc.BleMembers
  bleSpeaking,  \* vc.BleSpeaking
  bleCot,       \* room.BleCotPositions
  pc,           \* where a readPump goroutine is inside its handler
  arg,          \* the peer, or the target connection, of that handler
  stale,        \* RegisterBlePeer: the peers it took out of the registry
  rest,         \* rooms the handler has not reached yet
  hub,          \* where the hub goroutine is
  leaving,      \* the connection it is retiring
  hstale,       \* the peers it took out of the registry
  hrest,        \* rooms it has not reached yet
  panic         \* a send met a closed channel

voiceVars == <<voice, speaking>>
bleVars == <<bleVoice, bleSpeaking, bleCot>>
taskVars == <<pc, arg, stale, rest>>
hubVars == <<hub, leaving, hstale, hrest>>
vars == <<conn, members, relayOf, voiceVars, bleVars, taskVars, hubVars, panic>>

PCs == {"idle", "promote", "drop", "ble_join", "ble_speak", "ble_hush", "signal"}

HubPCs == {"idle", "drop", "voice"}

Empty == [r \in Rooms |-> {}]

Init ==
  /\ conn = [c \in Clients |-> "live"]
  /\ members = [r \in Rooms |-> {c \in Clients : r \in Joined[c]}]
  /\ relayOf = [p \in Peers |-> None]
  /\ voice = Empty /\ speaking = Empty
  /\ bleVoice = Empty /\ bleSpeaking = Empty /\ bleCot = Empty
  /\ pc = [c \in Clients |-> "idle"]
  /\ arg = [c \in Clients |-> None]
  /\ stale = [c \in Clients |-> {}]
  /\ rest = [c \in Clients |-> {}]
  /\ hub = "idle" /\ leaving = None /\ hstale = {} /\ hrest = {}
  /\ panic = FALSE

Ready(c) == conn[c] = "live" /\ pc[c] = "idle"

\* Begin the second part of a handler, and end a handler.
Goto(c, at, x, old, ahead) ==
  /\ pc' = [pc EXCEPT ![c] = at]
  /\ arg' = [arg EXCEPT ![c] = x]
  /\ stale' = [stale EXCEPT ![c] = old]
  /\ rest' = [rest EXCEPT ![c] = ahead]

Done(c) == Goto(c, "idle", None, {}, {})

-----------------------------------------------------------------------------
(* Registration *)

\* RegisterBlePeer, under h.mu: every other peer of the relay goes.
RegisterBlePeer(c, p) ==
  /\ Ready(c)
  /\ p \in Hears[c]
  /\ LET old == {q \in Peers \ {p} : relayOf[q] = c}
     IN  /\ relayOf' = [q \in Peers |-> IF q = p THEN c
                                        ELSE IF q \in old THEN None
                                        ELSE relayOf[q]]
         /\ Goto(c, "promote", p, old, Joined[c])
  /\ UNCHANGED <<conn, members, voiceVars, bleVars, hubVars, panic>>

\* What stood under an old id stands under the new one.
Renamed(S, old, p) == IF S \cap old = {} THEN S ELSE (S \ old) \cup {p}

\* Mutants: the relay's id in place of the peer's; the channel left alone.
PromoteToRelay(c, r) ==
  /\ pc[c] = "promote"
  /\ r \in rest[c]
  /\ bleVoice' = [bleVoice EXCEPT ![r] = Renamed(@, stale[c], c)]
  /\ rest' = [rest EXCEPT ![c] = @ \ {r}]
  /\ UNCHANGED <<conn, members, relayOf, voiceVars, bleSpeaking, bleCot, pc, arg,
                 stale, hubVars, panic>>

PromoteCotOnly(c, r) ==
  /\ pc[c] = "promote"
  /\ r \in rest[c]
  /\ bleCot' = [bleCot EXCEPT ![r] = Renamed(@, stale[c], arg[c])]
  /\ rest' = [rest EXCEPT ![c] = @ \ {r}]
  /\ UNCHANGED <<conn, members, relayOf, voiceVars, bleVoice, bleSpeaking, pc, arg,
                 stale, hubVars, panic>>

\* PromoteBlePeer for one room of the relay.
PromoteBlePeer(c, r) ==
  /\ pc[c] = "promote"
  /\ r \in rest[c]
  /\ bleVoice' = [bleVoice EXCEPT ![r] = Renamed(@, stale[c], arg[c])]
  /\ bleSpeaking' = [bleSpeaking EXCEPT ![r] = Renamed(@, stale[c], arg[c])]
  /\ bleCot' = [bleCot EXCEPT ![r] = Renamed(@, stale[c], arg[c])]
  /\ rest' = [rest EXCEPT ![c] = @ \ {r}]
  /\ UNCHANGED <<conn, members, relayOf, voiceVars, pc, arg, stale, hubVars,
                 panic>>

\* UnregisterBlePeer, under h.mu: only the relay of the registration may.
UnregisterBlePeer(c, p) ==
  /\ Ready(c)
  /\ relayOf[p] = c
  /\ relayOf' = [relayOf EXCEPT ![p] = None]
  /\ Goto(c, "drop", p, {}, Joined[c])
  /\ UNCHANGED <<conn, members, voiceVars, bleVars, hubVars, panic>>

\* Mutant: delete(vc.BleSpeaking, ...) is missing.
DropSpeakerStays(c, r) ==
  /\ pc[c] = "drop"
  /\ r \in rest[c]
  /\ bleVoice' = [bleVoice EXCEPT ![r] = @ \ {arg[c]}]
  /\ bleCot' = [bleCot EXCEPT ![r] = @ \ {arg[c]}]
  /\ rest' = [rest EXCEPT ![c] = @ \ {r}]
  /\ UNCHANGED <<conn, members, relayOf, voiceVars, bleSpeaking, pc, arg, stale,
                 hubVars, panic>>

\* LeaveBleVoiceChannel and ClearBleCotPosition for one room of the relay.
DropBlePeer(c, r) ==
  /\ pc[c] = "drop"
  /\ r \in rest[c]
  /\ bleVoice' = [bleVoice EXCEPT ![r] = @ \ {arg[c]}]
  /\ bleSpeaking' = [bleSpeaking EXCEPT ![r] = @ \ {arg[c]}]
  /\ bleCot' = [bleCot EXCEPT ![r] = @ \ {arg[c]}]
  /\ rest' = [rest EXCEPT ![c] = @ \ {r}]
  /\ UNCHANGED <<conn, members, relayOf, voiceVars, pc, arg, stale, hubVars,
                 panic>>

RoomsDone(c) ==
  /\ pc[c] \in {"promote", "drop"}
  /\ rest[c] = {}
  /\ Done(c)
  /\ UNCHANGED <<conn, members, relayOf, voiceVars, bleVars, hubVars, panic>>

-----------------------------------------------------------------------------
(* Voice of the connection itself *)

JoinVoice(c, r) ==
  /\ Ready(c)
  /\ c \in members[r]
  /\ voice' = [voice EXCEPT ![r] = @ \cup {c}]
  /\ UNCHANGED <<conn, members, relayOf, speaking, bleVars, taskVars, hubVars,
                 panic>>

LeaveVoice(c, r) ==
  /\ Ready(c)
  /\ c \in voice[r]
  /\ voice' = [voice EXCEPT ![r] = @ \ {c}]
  /\ speaking' = [speaking EXCEPT ![r] = @ \ {c}]
  /\ UNCHANGED <<conn, members, relayOf, bleVars, taskVars, hubVars, panic>>

\* BroadcastVoiceSpeaking: SetSpeaking with either value.
VoiceSpeaking(c, r) ==
  /\ Ready(c)
  /\ c \in members[r] \cap voice[r]
  /\ speaking' \in {[speaking EXCEPT ![r] = @ \cup {c}],
                    [speaking EXCEPT ![r] = @ \ {c}]}
  /\ UNCHANGED <<conn, members, relayOf, voice, bleVars, taskVars, hubVars,
                 panic>>

\* RelayVoiceOffer, RelayVoiceAnswer, RelayVoiceIce: the target is found in
\* clientsByID and in the channel ...
RelayVoice(c, t, r) ==
  /\ Ready(c)
  /\ c \in members[r] \cap voice[r]
  /\ t \in voice[r]
  /\ Goto(c, "signal", t, {}, {})
  /\ UNCHANGED <<conn, members, relayOf, voiceVars, bleVars, hubVars, panic>>

\* ... and sent to with no lock held.
SendSignal(c) ==
  /\ pc[c] = "signal"
  /\ panic' = (conn[arg[c]] = "closed")
  /\ Done(c)
  /\ UNCHANGED <<conn, members, relayOf, voiceVars, bleVars, hubVars>>

-----------------------------------------------------------------------------
(* What a relay does for its peers *)

\* JoinVoiceFromRelay: resolveBlePeer under h.mu ...
JoinVoiceFromRelay(c, r, p) ==
  /\ Ready(c)
  /\ c \in members[r]
  /\ relayOf[p] = c
  /\ Goto(c, "ble_join", p, {}, {r})
  /\ UNCHANGED <<conn, members, relayOf, voiceVars, bleVars, hubVars, panic>>

\* ... then JoinBleVoiceChannel under vc.mu.
JoinBleVoiceChannel(c) ==
  /\ pc[c] = "ble_join"
  /\ bleVoice' = [r \in Rooms |-> IF r \in rest[c] THEN bleVoice[r] \cup {arg[c]}
                                  ELSE bleVoice[r]]
  /\ Done(c)
  /\ UNCHANGED <<conn, members, relayOf, voiceVars, bleSpeaking, bleCot, hubVars,
                 panic>>

\* LeaveVoiceFromRelay asks neither for the registration nor for membership.
LeaveVoiceFromRelay(c, r, p) ==
  /\ Ready(c)
  /\ p \in Hears[c]
  /\ p \in bleVoice[r]
  /\ bleVoice' = [bleVoice EXCEPT ![r] = @ \ {p}]
  /\ bleSpeaking' = [bleSpeaking EXCEPT ![r] = @ \ {p}]
  /\ UNCHANGED <<conn, members, relayOf, voiceVars, bleCot, taskVars, hubVars,
                 panic>>

\* BroadcastVoiceSpeakingFromRelay: VoiceChannelHasBleMember ...
SpeakingFromRelay(c, r, p) ==
  /\ Ready(c)
  /\ p \in Hears[c]
  /\ c \in members[r]
  /\ p \in bleVoice[r]
  /\ \E at \in {"ble_speak", "ble_hush"} : Goto(c, at, p, {}, {r})
  /\ UNCHANGED <<conn, members, relayOf, voiceVars, bleVars, hubVars, panic>>

\* ... then SetBleSpeaking in another section of vc.mu.
SetBleSpeaking(c) ==
  /\ pc[c] \in {"ble_speak", "ble_hush"}
  /\ bleSpeaking' = [r \in Rooms |->
                       IF r \notin rest[c] THEN bleSpeaking[r]
                       ELSE IF pc[c] = "ble_speak" THEN bleSpeaking[r] \cup {arg[c]}
                       ELSE bleSpeaking[r] \ {arg[c]}]
  /\ Done(c)
  /\ UNCHANGED <<conn, members, relayOf, voiceVars, bleVoice, bleCot, hubVars,
                 panic>>

\* case "cot_position" with a sender_id: "no resolveBlePeer needed".
CotFromRelay(c, r, p) ==
  /\ Ready(c)
  /\ p \in Hears[c]
  /\ c \in members[r]
  /\ bleCot' = [bleCot EXCEPT ![r] = @ \cup {p}]
  /\ UNCHANGED <<conn, members, relayOf, voiceVars, bleVoice, bleSpeaking,
                 taskVars, hubVars, panic>>

-----------------------------------------------------------------------------
(* Retirement, by the hub goroutine *)

\* The reader has failed and waits on h.unregister.
Disconnect(c) ==
  /\ Ready(c)
  /\ conn' = [conn EXCEPT ![c] = "closing"]
  /\ UNCHANGED <<members, relayOf, voiceVars, bleVars, taskVars, hubVars, panic>>

\* Mutant: the registrations go, the voice channels are not visited.
UnregisterOnly(c) ==
  /\ hub = "idle"
  /\ conn[c] = "closing"
  /\ conn' = [conn EXCEPT ![c] = "gone"]
  /\ relayOf' = [p \in Peers |-> IF relayOf[p] = c THEN None ELSE relayOf[p]]
  /\ hub' = "drop"
  /\ leaving' = c
  /\ UNCHANGED <<members, voiceVars, bleVars, taskVars, hstale, hrest, panic>>

\* The registrations of the relay go first; every room is visited if it had
\* any.
Unregister(c) ==
  /\ hub = "idle"
  /\ conn[c] = "closing"
  /\ conn' = [conn EXCEPT ![c] = "gone"]
  /\ LET old == {p \in Peers : relayOf[p] = c}
     IN  /\ relayOf' = [p \in Peers |-> IF p \in old THEN None ELSE relayOf[p]]
         /\ hstale' = old
         /\ hrest' = IF old = {} THEN {} ELSE Rooms
  /\ hub' = "drop"
  /\ leaving' = c
  /\ UNCHANGED <<members, voiceVars, bleVars, taskVars, panic>>

\* LeaveAllBleVoiceChannels(staleBleIDs) for one room; positions stay.
HubDropBlePeers(r) ==
  /\ hub = "drop"
  /\ r \in hrest
  /\ bleSpeaking' = [bleSpeaking EXCEPT ![r] = @ \ (hstale \cap bleVoice[r])]
  /\ bleVoice' = [bleVoice EXCEPT ![r] = @ \ hstale]
  /\ hrest' = hrest \ {r}
  /\ UNCHANGED <<conn, members, relayOf, voiceVars, bleCot, taskVars, hub,
                 leaving, hstale, panic>>

HubBlePeersDropped ==
  /\ hub = "drop"
  /\ hrest = {}
  /\ hub' = "voice"
  /\ hrest' = Joined[leaving]
  /\ hstale' = {}
  /\ UNCHANGED <<conn, members, relayOf, voiceVars, bleVars, taskVars, leaving,
                 panic>>

\* Mutant: RemoveMember without LeaveAllVoiceChannels.
LeaveRoomStayInVoice(r) ==
  /\ hub = "voice"
  /\ r \in hrest
  /\ members' = [members EXCEPT ![r] = @ \ {leaving}]
  /\ hrest' = hrest \ {r}
  /\ UNCHANGED <<conn, relayOf, voiceVars, bleVars, taskVars, hub, leaving, hstale,
                 panic>>

\* removeFromAllRooms for one room: LeaveAllVoiceChannels, then RemoveMember.
\* Nobody else looks at the membership of a connection that has ended, so the
\* two sections are one step.
LeaveRoom(r) ==
  /\ hub = "voice"
  /\ r \in hrest
  /\ voice' = [voice EXCEPT ![r] = @ \ {leaving}]
  /\ speaking' = [speaking EXCEPT ![r] = @ \ {leaving}]
  /\ members' = [members EXCEPT ![r] = @ \ {leaving}]
  /\ hrest' = hrest \ {r}
  /\ UNCHANGED <<conn, relayOf, bleVars, taskVars, hub, leaving, hstale, panic>>

\* delete(h.clients) and close(client.send).
CloseSend ==
  /\ hub = "voice"
  /\ hrest = {}
  /\ conn' = [conn EXCEPT ![leaving] = "closed"]
  /\ hub' = "idle"
  /\ leaving' = None
  /\ UNCHANGED <<members, relayOf, voiceVars, bleVars, taskVars, hstale, hrest,
                 panic>>

-----------------------------------------------------------------------------

HubStep ==
  \/ \E r \in Rooms : HubDropBlePeers(r) \/ LeaveRoom(r)
  \/ HubBlePeersDropped
  \/ CloseSend

Continue(c) ==
  \/ \E r \in Rooms : PromoteBlePeer(c, r) \/ DropBlePeer(c, r)
  \/ RoomsDone(c)
  \/ SendSignal(c)
  \/ JoinBleVoiceChannel(c)
  \/ SetBleSpeaking(c)

Request(c) ==
  \/ Disconnect(c)
  \/ \E p \in Peers : RegisterBlePeer(c, p) \/ UnregisterBlePeer(c, p)
  \/ \E r \in Rooms :
       \/ JoinVoice(c, r) \/ LeaveVoice(c, r) \/ VoiceSpeaking(c, r)
       \/ \E t \in Clients \ {c} : RelayVoice(c, t, r)
       \/ \E p \in Peers :
            \/ JoinVoiceFromRelay(c, r, p) \/ LeaveVoiceFromRelay(c, r, p)
            \/ SpeakingFromRelay(c, r, p) \/ CotFromRelay(c, r, p)

Next ==
  /\ ~panic
  /\ \/ HubStep
     \/ \E c \in Clients : Unregister(c) \/ Continue(c) \/ Request(c)

Spec == Init /\ [][Next]_vars

\* Every goroutine that has begun a handler is scheduled until it ends, and
\* the hub takes a waiting unregister.
Fairness ==
  /\ WF_vars(~panic /\ HubStep)
  /\ \A c \in Clients :
       WF_vars(~panic /\ Unregister(c)) /\ WF_vars(~panic /\ Continue(c))

FairSpec == Spec /\ Fairness

-----------------------------------------------------------------------------
(* Properties *)

TypeOK ==
  /\ conn \in [Clients -> {"live", "closing", "gone", "closed"}]
  /\ members \in [Rooms -> SUBSET Clients]
  /\ relayOf \in [Peers -> Clients \cup {None}]
  /\ voice \in [Rooms -> SUBSET Clients]
  /\ speaking \in [Rooms -> SUBSET Clients]
  /\ bleVoice \in [Rooms -> SUBSET Peers]
  /\ bleSpeaking \in [Rooms -> SUBSET Peers]
  /\ bleCot \in [Rooms -> SUBSET Peers]
  /\ pc \in [Clients -> PCs]
  /\ arg \in [Clients -> Peers \cup Clients \cup {None}]
  /\ stale \in [Clients -> SUBSET Peers]
  /\ rest \in [Clients -> SUBSET Rooms]
  /\ hub \in HubPCs
  /\ leaving \in Clients \cup {None}
  /\ hstale \subseteq Peers
  /\ hrest \subseteq Rooms
  /\ panic \in BOOLEAN

\* Whoever is shown speaking is in the channel, whoever is in the channel is
\* in the room, and none of them has a closed channel: the handlers check and
\* set in different sections, and only the order of the retirement keeps this
\* (hub.go:532-563, 585-601, 772-780, room.go:340-361, 423-440).
VoiceConsistent ==
  \A r \in Rooms :
    /\ speaking[r] \subseteq voice[r]
    /\ voice[r] \subseteq members[r]
    /\ \A c \in members[r] : conn[c] # "closed"

\* No peer is heard by two relays at a time.
NoRoaming == \A c, d \in Clients : c # d => Hears[c] \cap Hears[d] = {}

\* A BLE peer shown speaking is in the channel, although the test and
\* SetBleSpeaking are two sections, as long as one relay speaks for it
\* (hub.go:795-799, room.go:379-421, 596-622).
BleSpeakersJoined ==
  NoRoaming => \A r \in Rooms : bleSpeaking[r] \subseteq bleVoice[r]

\* Somebody is about to take peer p out of room r.
BeingDropped(p, r) ==
  \/ \E c \in Clients :
       /\ r \in rest[c]
       /\ \/ pc[c] = "drop" /\ arg[c] = p
          \/ pc[c] = "promote" /\ p \in stale[c]
  \/ hub = "drop" /\ r \in hrest /\ p \in hstale

\* A peer in a voice channel is registered, or whoever ended the registration
\* is still on the way to the room (hub.go:56-84, 439-458, 495-530, 623-637).
BleVoiceRegistered ==
  NoRoaming => \A r \in Rooms : \A p \in bleVoice[r] :
                 relayOf[p] # None \/ BeingDropped(p, r)

\* A peer that is in a voice channel without a registration does not stay
\* there: it leaves or is registered again.
BleGhostsCleared ==
  \A p \in Peers, r \in Rooms :
    p \in bleVoice[r] /\ relayOf[p] = None
      ~> p \notin bleVoice[r] \/ relayOf[p] # None \/ panic
=============================================================================
