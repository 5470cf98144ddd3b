--------------------------- MODULE BleRelayProofs ---------------------------
(***************************************************************************)
(* Theorems about BleRelay for any connections, peers and rooms.           *)
(***************************************************************************)
EXTENDS BleRelay, TLAPS

\* The steps by which a handler ends what it has begun with a peer.
PeerPCs == {"promote", "drop", "ble_join", "ble_speak", "ble_hush"}

\* A handler runs while its connection is live, with peers that the relay hears
\* and rooms it has joined; registrations are made by who hears the peer.
HandlerArgs ==
  /\ \A c \in Clients :
       /\ conn[c] # "live" => pc[c] = "idle"
       /\ pc[c] \in PeerPCs => arg[c] \in Hears[c]
       /\ stale[c] \subseteq Hears[c] /\ rest[c] \subseteq Joined[c]
  /\ \A p \in Peers, c \in Clients : relayOf[p] = c => p \in Hears[c]

\* The hub goroutine retires a connection that has ended, and before it closes
\* the channel it has visited every room the connection is in.
Lifecycle ==
  /\ hub # "idle" =>
       leaving \in Clients /\ conn[leaving] = "gone" /\ hstale \subseteq Hears[leaving]
  /\ \A r \in Rooms, c \in Clients :
       c \in members[r] => r \in Joined[c] /\ conn[c] # "closed"
  /\ hub = "voice" => \A r \in Rooms : leaving \in members[r] => r \in hrest

\* While one relay speaks for a peer: in voice channels it is only where its relay
\* has joined; the registration lasts as long as the handler that relies on it,
\* and so does the peer's place in the channel while it is made to speak.
SpokenFor ==
  NoRoaming =>
    /\ \A r \in Rooms, p \in Peers, c \in Clients :
         p \in bleVoice[r] /\ p \in Hears[c] => r \in Joined[c]
    /\ \A c \in Clients :
         /\ pc[c] \in {"promote", "ble_join"} => relayOf[arg[c]] = c
         /\ pc[c] = "promote" => arg[c] \notin stale[c]
         /\ pc[c] = "ble_speak" => \A r \in rest[c] : arg[c] \in bleVoice[r]

BleInv ==
  /\ TypeOK /\ HandlerArgs /\ Lifecycle /\ VoiceConsistent
  /\ SpokenFor /\ BleSpeakersJoined /\ BleVoiceRegistered

\* The steps of the server, one by one.
LEMMA NextSteps ==
  Next =>
    \/ \E c \in Clients, p \in Peers : RegisterBlePeer(c, p)
    \/ \E c \in Clients, p \in Peers : UnregisterBlePeer(c, p)
    \/ \E c \in Clients, r \in Rooms : PromoteBlePeer(c, r)
    \/ \E c \in Clients, r \in Rooms : DropBlePeer(c, r)
    \/ \E c \in Clients : RoomsDone(c)
    \/ \E c \in Clients, r \in Rooms : JoinVoice(c, r)
    \/ \E c \in Clients, r \in Rooms : LeaveVoice(c, r)
    \/ \E c \in Clients, r \in Rooms : VoiceSpeaking(c, r)
    \/ \E c \in Clients, t \in Clients, r \in Rooms : RelayVoice(c, t, r)
    \/ \E c \in Clients : SendSignal(c)
    \/ \E c \in Clients, r \in Rooms, p \in Peers : JoinVoiceFromRelay(c, r, p)
    \/ \E c \in Clients : JoinBleVoiceChannel(c)
    \/ \E c \in Clients, r \in Rooms, p \in Peers : LeaveVoiceFromRelay(c, r, p)
    \/ \E c \in Clients, r \in Rooms, p \in Peers : SpeakingFromRelay(c, r, p)
    \/ \E c \in Clients : SetBleSpeaking(c)
    \/ \E c \in Clients, r \in Rooms, p \in Peers : CotFromRelay(c, r, p)
    \/ \E c \in Clients : Disconnect(c)
    \/ \E c \in Clients : Unregister(c)
    \/ \E r \in Rooms : HubDropBlePeers(r)
    \/ HubBlePeersDropped
    \/ \E r \in Rooms : LeaveRoom(r)
    \/ CloseSend
BY DEF Next, HubStep, Continue, Request

LEMMA InitBleInv == Init => BleInv
<1> SUFFICES ASSUME Init PROVE BleInv
  OBVIOUS
<1> USE BleRelayAssumption DEF Init, Empty, None
<1>1. TypeOK
  BY DEF TypeOK, PCs, HubPCs
<1>2. HandlerArgs /\ Lifecycle
  BY DEF HandlerArgs, Lifecycle, PeerPCs
<1>3. VoiceConsistent /\ SpokenFor /\ BleSpeakersJoined /\ BleVoiceRegistered
  BY DEF VoiceConsistent, SpokenFor, BleSpeakersJoined, BleVoiceRegistered
<1> QED
  BY <1>1, <1>2, <1>3 DEF BleInv

\* Types, and who may be where, do not depend on roaming.
LEMMA StepLifecycle ==
  ASSUME TypeOK, HandlerArgs, Lifecycle, [Next]_vars
  PROVE  TypeOK' /\ HandlerArgs' /\ Lifecycle'
<1> USE BleRelayAssumption
<1>1. ASSUME NEW c \in Clients, NEW p \in Peers, RegisterBlePeer(c, p)
      PROVE  TypeOK' /\ HandlerArgs' /\ Lifecycle'
  <2>1. TypeOK'
    BY <1>1 DEF RegisterBlePeer, Goto, TypeOK, PCs, voiceVars, bleVars, hubVars
  <2>2. HandlerArgs'
    BY <1>1 DEF RegisterBlePeer, Goto, Ready, None, TypeOK, HandlerArgs
  <2>3. Lifecycle'
    BY <1>1 DEF RegisterBlePeer, Lifecycle, hubVars
  <2> QED
    BY <2>1, <2>2, <2>3
<1>2. ASSUME NEW c \in Clients, NEW p \in Peers, UnregisterBlePeer(c, p)
      PROVE  TypeOK' /\ HandlerArgs' /\ Lifecycle'
  <2>1. TypeOK'
    BY <1>2 DEF UnregisterBlePeer, Goto, TypeOK, PCs, voiceVars, bleVars, hubVars
  <2>2. HandlerArgs'
    BY <1>2 DEF UnregisterBlePeer, Goto, Ready, None, TypeOK, HandlerArgs
  <2>3. Lifecycle'
    BY <1>2 DEF UnregisterBlePeer, Lifecycle, hubVars
  <2> QED
    BY <2>1, <2>2, <2>3
<1>3. ASSUME NEW c \in Clients, NEW r \in Rooms, PromoteBlePeer(c, r)
      PROVE  TypeOK' /\ HandlerArgs' /\ Lifecycle'
  <2>1. TypeOK'
    BY <1>3 DEF PromoteBlePeer, Renamed, TypeOK, HandlerArgs, PeerPCs, voiceVars,
       hubVars
  <2>2. HandlerArgs'
    BY <1>3 DEF PromoteBlePeer, HandlerArgs
  <2>3. Lifecycle'
    BY <1>3 DEF PromoteBlePeer, Lifecycle, hubVars
  <2> QED
    BY <2>1, <2>2, <2>3
<1>4. ASSUME NEW c \in Clients, NEW r \in Rooms, DropBlePeer(c, r)
      PROVE  TypeOK' /\ HandlerArgs' /\ Lifecycle'
  <2>1. TypeOK'
    BY <1>4 DEF DropBlePeer, TypeOK, voiceVars, hubVars
  <2>2. HandlerArgs'
    BY <1>4 DEF DropBlePeer, HandlerArgs
  <2>3. Lifecycle'
    BY <1>4 DEF DropBlePeer, Lifecycle, hubVars
  <2> QED
    BY <2>1, <2>2, <2>3
<1>5. ASSUME NEW c \in Clients, RoomsDone(c)
      PROVE  TypeOK' /\ HandlerArgs' /\ Lifecycle'
  <2>1. TypeOK'
    BY <1>5 DEF RoomsDone, Done, Goto, TypeOK, PCs, voiceVars, bleVars, hubVars
  <2>2. HandlerArgs'
    BY <1>5 DEF RoomsDone, Done, Goto, TypeOK, HandlerArgs, PeerPCs
  <2>3. Lifecycle'
    BY <1>5 DEF RoomsDone, Lifecycle, hubVars
  <2> QED
    BY <2>1, <2>2, <2>3
<1>6. ASSUME NEW c \in Clients, NEW r \in Rooms, JoinVoice(c, r)
      PROVE  TypeOK' /\ HandlerArgs' /\ Lifecycle'
  <2>1. TypeOK'
    BY <1>6 DEF JoinVoice, TypeOK, bleVars, taskVars, hubVars
  <2>2. HandlerArgs'
    BY <1>6 DEF JoinVoice, HandlerArgs, taskVars
  <2>3. Lifecycle'
    BY <1>6 DEF JoinVoice, Lifecycle, hubVars
  <2> QED
    BY <2>1, <2>2, <2>3
<1>7. ASSUME NEW c \in Clients, NEW r \in Rooms, LeaveVoice(c, r)
      PROVE  TypeOK' /\ HandlerArgs' /\ Lifecycle'
  <2>1. TypeOK'
    BY <1>7 DEF LeaveVoice, TypeOK, bleVars, taskVars, hubVars
  <2>2. HandlerArgs'
    BY <1>7 DEF LeaveVoice, HandlerArgs, taskVars
  <2>3. Lifecycle'
    BY <1>7 DEF LeaveVoice, Lifecycle, hubVars
  <2> QED
    BY <2>1, <2>2, <2>3
<1>8. ASSUME NEW c \in Clients, NEW r \in Rooms, VoiceSpeaking(c, r)
      PROVE  TypeOK' /\ HandlerArgs' /\ Lifecycle'
  <2>1. TypeOK'
    BY <1>8 DEF VoiceSpeaking, Ready, TypeOK, HubPCs, Lifecycle, vars, bleVars,
       taskVars, hubVars
  <2>2. HandlerArgs'
    BY <1>8 DEF VoiceSpeaking, HandlerArgs, taskVars
  <2>3. Lifecycle'
    BY <1>8 DEF VoiceSpeaking, Lifecycle, hubVars
  <2> QED
    BY <2>1, <2>2, <2>3
<1>9. ASSUME NEW c \in Clients, NEW t \in Clients, NEW r \in Rooms,
             RelayVoice(c, t, r)
      PROVE  TypeOK' /\ HandlerArgs' /\ Lifecycle'
  <2>1. TypeOK'
    BY <1>9 DEF RelayVoice, Goto, TypeOK, PCs, voiceVars, bleVars, hubVars
  <2>2. HandlerArgs'
    BY <1>9 DEF RelayVoice, Goto, Ready, HandlerArgs, PeerPCs
  <2>3. Lifecycle'
    BY <1>9 DEF RelayVoice, Lifecycle, hubVars
  <2> QED
    BY <2>1, <2>2, <2>3
<1>10. ASSUME NEW c \in Clients, SendSignal(c)
      PROVE  TypeOK' /\ HandlerArgs' /\ Lifecycle'
  <2>1. TypeOK'
    BY <1>10 DEF SendSignal, Done, Goto, TypeOK, PCs, voiceVars, bleVars, hubVars
  <2>2. HandlerArgs'
    BY <1>10 DEF SendSignal, Done, Goto, HandlerArgs, PeerPCs
  <2>3. Lifecycle'
    BY <1>10 DEF SendSignal, Lifecycle, hubVars
  <2> QED
    BY <2>1, <2>2, <2>3
<1>11. ASSUME NEW c \in Clients, NEW r \in Rooms, NEW p \in Peers,
              JoinVoiceFromRelay(c, r, p)
      PROVE  TypeOK' /\ HandlerArgs' /\ Lifecycle'
  <2>1. TypeOK'
    BY <1>11 DEF JoinVoiceFromRelay, Goto, TypeOK, PCs, voiceVars, bleVars, hubVars
  <2>2. HandlerArgs'
    BY <1>11 DEF JoinVoiceFromRelay, Goto, Ready, TypeOK, HandlerArgs, Lifecycle
  <2>3. Lifecycle'
    BY <1>11 DEF JoinVoiceFromRelay, Lifecycle, hubVars
  <2> QED
    BY <2>1, <2>2, <2>3
<1>12. ASSUME NEW c \in Clients, JoinBleVoiceChannel(c)
      PROVE  TypeOK' /\ HandlerArgs' /\ Lifecycle'
  <2>1. TypeOK'
    BY <1>12 DEF JoinBleVoiceChannel, Done, Goto, TypeOK, PCs, HandlerArgs, PeerPCs,
       voiceVars, hubVars
  <2>2. HandlerArgs'
    BY <1>12 DEF JoinBleVoiceChannel, Done, Goto, TypeOK, HandlerArgs, PeerPCs
  <2>3. Lifecycle'
    BY <1>12 DEF JoinBleVoiceChannel, Lifecycle, hubVars
  <2> QED
    BY <2>1, <2>2, <2>3
<1>13. ASSUME NEW c \in Clients, NEW r \in Rooms, NEW p \in Peers,
              LeaveVoiceFromRelay(c, r, p)
      PROVE  TypeOK' /\ HandlerArgs' /\ Lifecycle'
  <2>1. TypeOK'
    BY <1>13 DEF LeaveVoiceFromRelay, TypeOK, voiceVars, taskVars, hubVars
  <2>2. HandlerArgs'
    BY <1>13 DEF LeaveVoiceFromRelay, HandlerArgs, taskVars
  <2>3. Lifecycle'
    BY <1>13 DEF LeaveVoiceFromRelay, Lifecycle, hubVars
  <2> QED
    BY <2>1, <2>2, <2>3
<1>14. ASSUME NEW c \in Clients, NEW r \in Rooms, NEW p \in Peers,
              SpeakingFromRelay(c, r, p)
      PROVE  TypeOK' /\ HandlerArgs' /\ Lifecycle'
  <2>1. TypeOK'
    BY <1>14 DEF SpeakingFromRelay, Goto, TypeOK, PCs, voiceVars, bleVars, hubVars
  <2>2. HandlerArgs'
    BY <1>14 DEF SpeakingFromRelay, Goto, Ready, TypeOK, HandlerArgs, Lifecycle
  <2>3. Lifecycle'
    BY <1>14 DEF SpeakingFromRelay, Lifecycle, hubVars
  <2> QED
    BY <2>1, <2>2, <2>3
<1>15. ASSUME NEW c \in Clients, SetBleSpeaking(c)
      PROVE  TypeOK' /\ HandlerArgs' /\ Lifecycle'
  <2>1. TypeOK'
    BY <1>15 DEF SetBleSpeaking, Done, Goto, TypeOK, PCs, HandlerArgs, PeerPCs,
       voiceVars, hubVars
  <2>2. HandlerArgs'
    BY <1>15 DEF SetBleSpeaking, Done, Goto, TypeOK, HandlerArgs, PeerPCs
  <2>3. Lifecycle'
    BY <1>15 DEF SetBleSpeaking, Lifecycle, hubVars
  <2> QED
    BY <2>1, <2>2, <2>3
<1>16. ASSUME NEW c \in Clients, NEW r \in Rooms, NEW p \in Peers,
              CotFromRelay(c, r, p)
      PROVE  TypeOK' /\ HandlerArgs' /\ Lifecycle'
  <2>1. TypeOK'
    BY <1>16 DEF CotFromRelay, TypeOK, voiceVars, taskVars, hubVars
  <2>2. HandlerArgs'
    BY <1>16 DEF CotFromRelay, HandlerArgs, taskVars
  <2>3. Lifecycle'
    BY <1>16 DEF CotFromRelay, Lifecycle, hubVars
  <2> QED
    BY <2>1, <2>2, <2>3
<1>17. ASSUME NEW c \in Clients, Disconnect(c)
      PROVE  TypeOK' /\ HandlerArgs' /\ Lifecycle'
  <2>1. TypeOK'
    BY <1>17 DEF Disconnect, TypeOK, voiceVars, bleVars, taskVars, hubVars
  <2>2. HandlerArgs'
    BY <1>17 DEF Disconnect, Ready, HandlerArgs, taskVars
  <2>3. Lifecycle'
    BY <1>17 DEF Disconnect, Ready, Lifecycle, hubVars
  <2> QED
    BY <2>1, <2>2, <2>3
<1>18. ASSUME NEW c \in Clients, Unregister(c)
      PROVE  TypeOK' /\ HandlerArgs' /\ Lifecycle'
  <2>1. TypeOK'
    BY <1>18 DEF Unregister, TypeOK, HubPCs, voiceVars, bleVars, taskVars
  <2>2. HandlerArgs'
    BY <1>18 DEF Unregister, None, HandlerArgs, taskVars
  <2>3. Lifecycle'
    BY <1>18 DEF Unregister, TypeOK, HandlerArgs, Lifecycle
  <2> QED
    BY <2>1, <2>2, <2>3
<1>19. ASSUME NEW r \in Rooms, HubDropBlePeers(r)
      PROVE  TypeOK' /\ HandlerArgs' /\ Lifecycle'
  <2>1. TypeOK'
    BY <1>19 DEF HubDropBlePeers, TypeOK, voiceVars, taskVars
  <2>2. HandlerArgs'
    BY <1>19 DEF HubDropBlePeers, HandlerArgs, taskVars
  <2>3. Lifecycle'
    BY <1>19 DEF HubDropBlePeers, Lifecycle
  <2> QED
    BY <2>1, <2>2, <2>3
<1>20. ASSUME HubBlePeersDropped
      PROVE  TypeOK' /\ HandlerArgs' /\ Lifecycle'
  <2>1. TypeOK'
    BY <1>20 DEF HubBlePeersDropped, TypeOK, HubPCs, Lifecycle, voiceVars, bleVars,
       taskVars
  <2>2. HandlerArgs'
    BY <1>20 DEF HubBlePeersDropped, HandlerArgs, taskVars
  <2>3. Lifecycle'
    BY <1>20 DEF HubBlePeersDropped, Lifecycle
  <2> QED
    BY <2>1, <2>2, <2>3
<1>21. ASSUME NEW r \in Rooms, LeaveRoom(r)
      PROVE  TypeOK' /\ HandlerArgs' /\ Lifecycle'
  <2>1. TypeOK'
    BY <1>21 DEF LeaveRoom, TypeOK, bleVars, taskVars
  <2>2. HandlerArgs'
    BY <1>21 DEF LeaveRoom, HandlerArgs, taskVars
  <2>3. Lifecycle'
    BY <1>21 DEF LeaveRoom, TypeOK, Lifecycle
  <2> QED
    BY <2>1, <2>2, <2>3
<1>22. ASSUME CloseSend
      PROVE  TypeOK' /\ HandlerArgs' /\ Lifecycle'
  <2>1. TypeOK'
    BY <1>22 DEF CloseSend, TypeOK, HubPCs, voiceVars, bleVars, taskVars
  <2>2. HandlerArgs'
    BY <1>22 DEF CloseSend, HandlerArgs, Lifecycle, taskVars
  <2>3. Lifecycle'
    BY <1>22 DEF CloseSend, Lifecycle
  <2> QED
    BY <2>1, <2>2, <2>3
<1>23. CASE UNCHANGED vars
  BY <1>23 DEF TypeOK, HandlerArgs, Lifecycle, vars, voiceVars, bleVars, taskVars,
     hubVars
<1> QED
  BY <1>1, <1>2, <1>3, <1>4, <1>5, <1>6, <1>7, <1>8, <1>9, <1>10, <1>11, <1>12,
     <1>13, <1>14, <1>15, <1>16, <1>17, <1>18, <1>19, <1>20, <1>21, <1>22, <1>23,
     NextSteps

\* Checks and changes of one's own voice are in different sections, but nobody
\* else makes a member leave.
LEMMA StepVoice ==
  ASSUME TypeOK, Lifecycle, VoiceConsistent, [Next]_vars
  PROVE  VoiceConsistent'
<1>1. ASSUME NEW c \in Clients, NEW p \in Peers, RegisterBlePeer(c, p)
      PROVE  VoiceConsistent'
  BY <1>1 DEF RegisterBlePeer, VoiceConsistent, voiceVars
<1>2. ASSUME NEW c \in Clients, NEW p \in Peers, UnregisterBlePeer(c, p)
      PROVE  VoiceConsistent'
  BY <1>2 DEF UnregisterBlePeer, VoiceConsistent, voiceVars
<1>3. ASSUME NEW c \in Clients, NEW r \in Rooms, PromoteBlePeer(c, r)
      PROVE  VoiceConsistent'
  BY <1>3 DEF PromoteBlePeer, VoiceConsistent, voiceVars
<1>4. ASSUME NEW c \in Clients, NEW r \in Rooms, DropBlePeer(c, r)
      PROVE  VoiceConsistent'
  BY <1>4 DEF DropBlePeer, VoiceConsistent, voiceVars
<1>5. ASSUME NEW c \in Clients, RoomsDone(c)
      PROVE  VoiceConsistent'
  BY <1>5 DEF RoomsDone, VoiceConsistent, voiceVars
<1>6. ASSUME NEW c \in Clients, NEW r \in Rooms, JoinVoice(c, r)
      PROVE  VoiceConsistent'
  BY <1>6 DEF JoinVoice, VoiceConsistent
<1>7. ASSUME NEW c \in Clients, NEW r \in Rooms, LeaveVoice(c, r)
      PROVE  VoiceConsistent'
  BY <1>7 DEF LeaveVoice, TypeOK, VoiceConsistent
<1>8. ASSUME NEW c \in Clients, NEW r \in Rooms, VoiceSpeaking(c, r)
      PROVE  VoiceConsistent'
  BY <1>8 DEF VoiceSpeaking, TypeOK, VoiceConsistent
<1>9. ASSUME NEW c \in Clients, NEW t \in Clients, NEW r \in Rooms,
             RelayVoice(c, t, r)
      PROVE  VoiceConsistent'
  BY <1>9 DEF RelayVoice, VoiceConsistent, voiceVars
<1>10. ASSUME NEW c \in Clients, SendSignal(c)
      PROVE  VoiceConsistent'
  BY <1>10 DEF SendSignal, VoiceConsistent, voiceVars
<1>11. ASSUME NEW c \in Clients, NEW r \in Rooms, NEW p \in Peers,
              JoinVoiceFromRelay(c, r, p)
      PROVE  VoiceConsistent'
  BY <1>11 DEF JoinVoiceFromRelay, VoiceConsistent, voiceVars
<1>12. ASSUME NEW c \in Clients, JoinBleVoiceChannel(c)
      PROVE  VoiceConsistent'
  BY <1>12 DEF JoinBleVoiceChannel, VoiceConsistent, voiceVars
<1>13. ASSUME NEW c \in Clients, NEW r \in Rooms, NEW p \in Peers,
              LeaveVoiceFromRelay(c, r, p)
      PROVE  VoiceConsistent'
  BY <1>13 DEF LeaveVoiceFromRelay, VoiceConsistent, voiceVars
<1>14. ASSUME NEW c \in Clients, NEW r \in Rooms, NEW p \in Peers,
              SpeakingFromRelay(c, r, p)
      PROVE  VoiceConsistent'
  BY <1>14 DEF SpeakingFromRelay, VoiceConsistent, voiceVars
<1>15. ASSUME NEW c \in Clients, SetBleSpeaking(c)
      PROVE  VoiceConsistent'
  BY <1>15 DEF SetBleSpeaking, VoiceConsistent, voiceVars
<1>16. ASSUME NEW c \in Clients, NEW r \in Rooms, NEW p \in Peers,
              CotFromRelay(c, r, p)
      PROVE  VoiceConsistent'
  BY <1>16 DEF CotFromRelay, VoiceConsistent, voiceVars
<1>17. ASSUME NEW c \in Clients, Disconnect(c)
      PROVE  VoiceConsistent'
  BY <1>17 DEF Disconnect, VoiceConsistent, voiceVars
<1>18. ASSUME NEW c \in Clients, Unregister(c)
      PROVE  VoiceConsistent'
  BY <1>18 DEF Unregister, VoiceConsistent, voiceVars
<1>19. ASSUME NEW r \in Rooms, HubDropBlePeers(r)
      PROVE  VoiceConsistent'
  BY <1>19 DEF HubDropBlePeers, VoiceConsistent, voiceVars
<1>20. ASSUME HubBlePeersDropped
      PROVE  VoiceConsistent'
  BY <1>20 DEF HubBlePeersDropped, VoiceConsistent, voiceVars
<1>21. ASSUME NEW r \in Rooms, LeaveRoom(r)
      PROVE  VoiceConsistent'
  BY <1>21 DEF LeaveRoom, TypeOK, VoiceConsistent
<1>22. ASSUME CloseSend
      PROVE  VoiceConsistent'
  BY <1>22 DEF CloseSend, Lifecycle, VoiceConsistent, voiceVars
<1>23. CASE UNCHANGED vars
  BY <1>23 DEF VoiceConsistent, vars, voiceVars
<1> QED
  BY <1>1, <1>2, <1>3, <1>4, <1>5, <1>6, <1>7, <1>8, <1>9, <1>10, <1>11, <1>12,
     <1>13, <1>14, <1>15, <1>16, <1>17, <1>18, <1>19, <1>20, <1>21, <1>22, <1>23,
     NextSteps

\* What one relay is doing with its peer nobody else disturbs.
LEMMA StepSpokenFor ==
  ASSUME NoRoaming, TypeOK, HandlerArgs, Lifecycle, SpokenFor, BleSpeakersJoined,
         BleVoiceRegistered, [Next]_vars
  PROVE  SpokenFor' /\ BleSpeakersJoined' /\ BleVoiceRegistered'
<1> USE BleRelayAssumption
<1>1. ASSUME NEW c \in Clients, NEW p \in Peers, RegisterBlePeer(c, p)
      PROVE  SpokenFor' /\ BleSpeakersJoined' /\ BleVoiceRegistered'
  <2>1. SpokenFor'
    BY <1>1 DEF RegisterBlePeer, Goto, TypeOK, HandlerArgs, PeerPCs, SpokenFor,
       NoRoaming, bleVars
  <2>2. BleSpeakersJoined'
    BY <1>1 DEF RegisterBlePeer, BleSpeakersJoined, bleVars
  <2>3. BleVoiceRegistered'
    BY <1>1 DEF RegisterBlePeer, Goto, Ready, TypeOK, HandlerArgs, Lifecycle,
       SpokenFor, BleVoiceRegistered, NoRoaming, BeingDropped, bleVars, hubVars
  <2> QED
    BY <2>1, <2>2, <2>3
<1>2. ASSUME NEW c \in Clients, NEW p \in Peers, UnregisterBlePeer(c, p)
      PROVE  SpokenFor' /\ BleSpeakersJoined' /\ BleVoiceRegistered'
  <2>1. SpokenFor'
    BY <1>2 DEF UnregisterBlePeer, Goto, TypeOK, SpokenFor, bleVars
  <2>2. BleSpeakersJoined'
    BY <1>2 DEF UnregisterBlePeer, BleSpeakersJoined, bleVars
  <2>3. BleVoiceRegistered'
    BY <1>2 DEF UnregisterBlePeer, Goto, Ready, TypeOK, HandlerArgs, SpokenFor,
       BleVoiceRegistered, BeingDropped, bleVars, hubVars
  <2> QED
    BY <2>1, <2>2, <2>3
<1>3. ASSUME NEW c \in Clients, NEW r \in Rooms, PromoteBlePeer(c, r)
      PROVE  SpokenFor' /\ BleSpeakersJoined' /\ BleVoiceRegistered'
  <2>1. SpokenFor'
    <3>1. \A q \in Rooms, x \in Peers, d \in Clients :
            x \in bleVoice'[q] /\ x \in Hears[d] => q \in Joined[d]
      BY <1>3 DEF PromoteBlePeer, Renamed, TypeOK, HandlerArgs, PeerPCs, SpokenFor, NoRoaming
    <3>2. \A d \in Clients :
            /\ pc'[d] \in {"promote", "ble_join"} => relayOf'[arg'[d]] = d
            /\ pc'[d] = "promote" => arg'[d] \notin stale'[d]
      BY <1>3 DEF PromoteBlePeer, Renamed, SpokenFor, taskVars
    <3>3. \A d \in Clients :
            pc'[d] = "ble_speak" => \A q \in rest'[d] : arg'[d] \in bleVoice'[q]
      BY <1>3 DEF PromoteBlePeer, Renamed, TypeOK, HandlerArgs, PeerPCs, SpokenFor, NoRoaming, taskVars
    <3> QED
      BY <3>1, <3>2, <3>3 DEF SpokenFor
  <2>2. BleSpeakersJoined'
    BY <1>3 DEF PromoteBlePeer, Renamed, TypeOK, BleSpeakersJoined
  <2>3. BleVoiceRegistered'
    <3> SUFFICES ASSUME NEW q \in Rooms, NEW p \in bleVoice'[q]
                 PROVE  relayOf'[p] # None \/ BeingDropped(p, q)'
      BY DEF BleVoiceRegistered
    <3>1. /\ relayOf' = relayOf /\ UNCHANGED <<hub, hrest, hstale>>
          /\ \A d \in Clients : d # c =>
               /\ pc'[d] = pc[d] /\ arg'[d] = arg[d]
               /\ rest'[d] = rest[d] /\ stale'[d] = stale[d]
      BY <1>3 DEF PromoteBlePeer, hubVars
    <3>2. p \in bleVoice[q] \/ relayOf[p] # None
      BY <1>3 DEF PromoteBlePeer, Renamed, SpokenFor, None
    <3>3. CASE relayOf[p] # None
      BY <3>1, <3>3
    <3>4. CASE p \in bleVoice[q] /\ BeingDropped(p, q)
      <4>1. /\ pc' = pc /\ arg' = arg
            /\ q # r => rest'[c] = rest[c] \/ (q \in rest[c] <=> q \in rest'[c])
        BY <1>3 DEF PromoteBlePeer
      <4>2. q = r => p \notin stale[c] \/ p = arg[c]
        BY <1>3, <3>4 DEF PromoteBlePeer, Renamed, TypeOK
      <4>3. p = arg[c] => relayOf[p] # None
        BY <1>3 DEF PromoteBlePeer, SpokenFor, None
      <4> QED
        BY <3>1, <3>4, <4>1, <4>2, <4>3, <1>3 DEF BeingDropped, PromoteBlePeer
    <3> QED
      BY <3>2, <3>3, <3>4 DEF BleVoiceRegistered
  <2> QED
    BY <2>1, <2>2, <2>3
<1>4. ASSUME NEW c \in Clients, NEW r \in Rooms, DropBlePeer(c, r)
      PROVE  SpokenFor' /\ BleSpeakersJoined' /\ BleVoiceRegistered'
  <2>1. SpokenFor'
    BY <1>4 DEF DropBlePeer, HandlerArgs, PeerPCs, SpokenFor, NoRoaming
  <2>2. BleSpeakersJoined'
    BY <1>4 DEF DropBlePeer, TypeOK, BleSpeakersJoined
  <2>3. BleVoiceRegistered'
    BY <1>4 DEF DropBlePeer, TypeOK, BleVoiceRegistered, BeingDropped, hubVars
  <2> QED
    BY <2>1, <2>2, <2>3
<1>5. ASSUME NEW c \in Clients, RoomsDone(c)
      PROVE  SpokenFor' /\ BleSpeakersJoined' /\ BleVoiceRegistered'
  <2>1. SpokenFor'
    BY <1>5 DEF RoomsDone, Done, Goto, TypeOK, SpokenFor, bleVars
  <2>2. BleSpeakersJoined'
    BY <1>5 DEF RoomsDone, BleSpeakersJoined, bleVars
  <2>3. BleVoiceRegistered'
    BY <1>5 DEF RoomsDone, Done, Goto, BleVoiceRegistered, BeingDropped, bleVars,
       hubVars
  <2> QED
    BY <2>1, <2>2, <2>3
<1>6. ASSUME NEW c \in Clients, NEW r \in Rooms, JoinVoice(c, r)
      PROVE  SpokenFor' /\ BleSpeakersJoined' /\ BleVoiceRegistered'
  <2>1. SpokenFor'
    BY <1>6 DEF JoinVoice, SpokenFor, bleVars, taskVars
  <2>2. BleSpeakersJoined'
    BY <1>6 DEF JoinVoice, BleSpeakersJoined, bleVars
  <2>3. BleVoiceRegistered'
    BY <1>6 DEF JoinVoice, BleVoiceRegistered, BeingDropped, bleVars, taskVars,
       hubVars
  <2> QED
    BY <2>1, <2>2, <2>3
<1>7. ASSUME NEW c \in Clients, NEW r \in Rooms, LeaveVoice(c, r)
      PROVE  SpokenFor' /\ BleSpeakersJoined' /\ BleVoiceRegistered'
  <2>1. SpokenFor'
    BY <1>7 DEF LeaveVoice, SpokenFor, bleVars, taskVars
  <2>2. BleSpeakersJoined'
    BY <1>7 DEF LeaveVoice, BleSpeakersJoined, bleVars
  <2>3. BleVoiceRegistered'
    BY <1>7 DEF LeaveVoice, BleVoiceRegistered, BeingDropped, bleVars, taskVars,
       hubVars
  <2> QED
    BY <2>1, <2>2, <2>3
<1>8. ASSUME NEW c \in Clients, NEW r \in Rooms, VoiceSpeaking(c, r)
      PROVE  SpokenFor' /\ BleSpeakersJoined' /\ BleVoiceRegistered'
  <2>1. SpokenFor'
    BY <1>8 DEF VoiceSpeaking, SpokenFor, bleVars, taskVars
  <2>2. BleSpeakersJoined'
    BY <1>8 DEF VoiceSpeaking, BleSpeakersJoined, bleVars
  <2>3. BleVoiceRegistered'
    BY <1>8 DEF VoiceSpeaking, BleVoiceRegistered, BeingDropped, bleVars, taskVars,
       hubVars
  <2> QED
    BY <2>1, <2>2, <2>3
<1>9. ASSUME NEW c \in Clients, NEW t \in Clients, NEW r \in Rooms,
             RelayVoice(c, t, r)
      PROVE  SpokenFor' /\ BleSpeakersJoined' /\ BleVoiceRegistered'
  <2>1. SpokenFor'
    BY <1>9 DEF RelayVoice, Goto, TypeOK, SpokenFor, bleVars
  <2>2. BleSpeakersJoined'
    BY <1>9 DEF RelayVoice, BleSpeakersJoined, bleVars
  <2>3. BleVoiceRegistered'
    BY <1>9 DEF RelayVoice, Goto, Ready, BleVoiceRegistered, BeingDropped, bleVars,
       hubVars
  <2> QED
    BY <2>1, <2>2, <2>3
<1>10. ASSUME NEW c \in Clients, SendSignal(c)
      PROVE  SpokenFor' /\ BleSpeakersJoined' /\ BleVoiceRegistered'
  <2>1. SpokenFor'
    BY <1>10 DEF SendSignal, Done, Goto, SpokenFor, bleVars
  <2>2. BleSpeakersJoined'
    BY <1>10 DEF SendSignal, BleSpeakersJoined, bleVars
  <2>3. BleVoiceRegistered'
    BY <1>10 DEF SendSignal, Done, Goto, BleVoiceRegistered, BeingDropped, bleVars,
       hubVars
  <2> QED
    BY <2>1, <2>2, <2>3
<1>11. ASSUME NEW c \in Clients, NEW r \in Rooms, NEW p \in Peers,
              JoinVoiceFromRelay(c, r, p)
      PROVE  SpokenFor' /\ BleSpeakersJoined' /\ BleVoiceRegistered'
  <2>1. SpokenFor'
    BY <1>11 DEF JoinVoiceFromRelay, Goto, TypeOK, SpokenFor, bleVars
  <2>2. BleSpeakersJoined'
    BY <1>11 DEF JoinVoiceFromRelay, BleSpeakersJoined, bleVars
  <2>3. BleVoiceRegistered'
    BY <1>11 DEF JoinVoiceFromRelay, Goto, Ready, BleVoiceRegistered, BeingDropped,
       bleVars, hubVars
  <2> QED
    BY <2>1, <2>2, <2>3
<1>12. ASSUME NEW c \in Clients, JoinBleVoiceChannel(c)
      PROVE  SpokenFor' /\ BleSpeakersJoined' /\ BleVoiceRegistered'
  <2>1. SpokenFor'
    BY <1>12 DEF JoinBleVoiceChannel, Done, Goto, TypeOK, HandlerArgs, SpokenFor,
       NoRoaming
  <2>2. BleSpeakersJoined'
    BY <1>12 DEF JoinBleVoiceChannel, BleSpeakersJoined
  <2>3. BleVoiceRegistered'
    <3> SUFFICES ASSUME NEW q \in Rooms, NEW p \in bleVoice'[q]
                 PROVE  relayOf'[p] # None \/ BeingDropped(p, q)'
      BY DEF BleVoiceRegistered
    <3>1. /\ relayOf' = relayOf /\ UNCHANGED <<hub, hrest, hstale>>
          /\ \A d \in Clients : d # c =>
               /\ pc'[d] = pc[d] /\ arg'[d] = arg[d]
               /\ rest'[d] = rest[d] /\ stale'[d] = stale[d]
      BY <1>12 DEF JoinBleVoiceChannel, Done, Goto, hubVars
    <3>2. p \in bleVoice[q] \/ relayOf[p] # None
      BY <1>12 DEF JoinBleVoiceChannel, SpokenFor, None
    <3>3. CASE relayOf[p] # None
      BY <3>1, <3>3
    <3>4. CASE p \in bleVoice[q] /\ BeingDropped(p, q)
      <4>1. pc[c] # "drop" /\ pc[c] # "promote"
        BY <1>12 DEF JoinBleVoiceChannel
      <4> QED
        BY <3>1, <3>4, <4>1 DEF BeingDropped
    <3> QED
      BY <3>2, <3>3, <3>4 DEF BleVoiceRegistered
  <2> QED
    BY <2>1, <2>2, <2>3
<1>13. ASSUME NEW c \in Clients, NEW r \in Rooms, NEW p \in Peers,
              LeaveVoiceFromRelay(c, r, p)
      PROVE  SpokenFor' /\ BleSpeakersJoined' /\ BleVoiceRegistered'
  <2>1. SpokenFor'
    <3>1. \A q \in Rooms, x \in Peers, d \in Clients :
            x \in bleVoice'[q] /\ x \in Hears[d] => q \in Joined[d]
      BY <1>13 DEF LeaveVoiceFromRelay, Ready, TypeOK, HandlerArgs, PeerPCs, SpokenFor, NoRoaming
    <3>2. \A d \in Clients :
            /\ pc'[d] \in {"promote", "ble_join"} => relayOf'[arg'[d]] = d
            /\ pc'[d] = "promote" => arg'[d] \notin stale'[d]
      BY <1>13 DEF LeaveVoiceFromRelay, Ready, SpokenFor, taskVars
    <3>3. \A d \in Clients :
            pc'[d] = "ble_speak" => \A q \in rest'[d] : arg'[d] \in bleVoice'[q]
      BY <1>13 DEF LeaveVoiceFromRelay, Ready, TypeOK, HandlerArgs, PeerPCs, SpokenFor, NoRoaming, taskVars
    <3> QED
      BY <3>1, <3>2, <3>3 DEF SpokenFor
  <2>2. BleSpeakersJoined'
    BY <1>13 DEF LeaveVoiceFromRelay, TypeOK, BleSpeakersJoined
  <2>3. BleVoiceRegistered'
    BY <1>13 DEF LeaveVoiceFromRelay, BleVoiceRegistered, BeingDropped, taskVars,
       hubVars
  <2> QED
    BY <2>1, <2>2, <2>3
<1>14. ASSUME NEW c \in Clients, NEW r \in Rooms, NEW p \in Peers,
              SpeakingFromRelay(c, r, p)
      PROVE  SpokenFor' /\ BleSpeakersJoined' /\ BleVoiceRegistered'
  <2>1. SpokenFor'
    BY <1>14 DEF SpeakingFromRelay, Goto, TypeOK, SpokenFor, bleVars
  <2>2. BleSpeakersJoined'
    BY <1>14 DEF SpeakingFromRelay, BleSpeakersJoined, bleVars
  <2>3. BleVoiceRegistered'
    BY <1>14 DEF SpeakingFromRelay, Goto, Ready, BleVoiceRegistered, BeingDropped,
       bleVars, hubVars
  <2> QED
    BY <2>1, <2>2, <2>3
<1>15. ASSUME NEW c \in Clients, SetBleSpeaking(c)
      PROVE  SpokenFor' /\ BleSpeakersJoined' /\ BleVoiceRegistered'
  <2>1. SpokenFor'
    BY <1>15 DEF SetBleSpeaking, Done, Goto, TypeOK, SpokenFor
  <2>2. BleSpeakersJoined'
    BY <1>15 DEF SetBleSpeaking, SpokenFor, BleSpeakersJoined
  <2>3. BleVoiceRegistered'
    <3> SUFFICES ASSUME NEW q \in Rooms, NEW p \in bleVoice'[q]
                 PROVE  relayOf'[p] # None \/ BeingDropped(p, q)'
      BY DEF BleVoiceRegistered
    <3>1. /\ relayOf' = relayOf /\ UNCHANGED <<hub, hrest, hstale>>
          /\ \A d \in Clients : d # c =>
               /\ pc'[d] = pc[d] /\ arg'[d] = arg[d]
               /\ rest'[d] = rest[d] /\ stale'[d] = stale[d]
      BY <1>15 DEF SetBleSpeaking, Done, Goto, hubVars
    <3>2. p \in bleVoice[q] \/ relayOf[p] # None
      BY <1>15 DEF SetBleSpeaking
    <3>3. CASE relayOf[p] # None
      BY <3>1, <3>3
    <3>4. CASE p \in bleVoice[q] /\ BeingDropped(p, q)
      <4>1. pc[c] # "drop" /\ pc[c] # "promote"
        BY <1>15 DEF SetBleSpeaking
      <4> QED
        BY <3>1, <3>4, <4>1 DEF BeingDropped
    <3> QED
      BY <3>2, <3>3, <3>4 DEF BleVoiceRegistered
  <2> QED
    BY <2>1, <2>2, <2>3
<1>16. ASSUME NEW c \in Clients, NEW r \in Rooms, NEW p \in Peers,
              CotFromRelay(c, r, p)
      PROVE  SpokenFor' /\ BleSpeakersJoined' /\ BleVoiceRegistered'
  <2>1. SpokenFor'
    BY <1>16 DEF CotFromRelay, SpokenFor, taskVars
  <2>2. BleSpeakersJoined'
    BY <1>16 DEF CotFromRelay, BleSpeakersJoined
  <2>3. BleVoiceRegistered'
    BY <1>16 DEF CotFromRelay, BleVoiceRegistered, BeingDropped, taskVars, hubVars
  <2> QED
    BY <2>1, <2>2, <2>3
<1>17. ASSUME NEW c \in Clients, Disconnect(c)
      PROVE  SpokenFor' /\ BleSpeakersJoined' /\ BleVoiceRegistered'
  <2>1. SpokenFor'
    BY <1>17 DEF Disconnect, SpokenFor, bleVars, taskVars
  <2>2. BleSpeakersJoined'
    BY <1>17 DEF Disconnect, BleSpeakersJoined, bleVars
  <2>3. BleVoiceRegistered'
    BY <1>17 DEF Disconnect, BleVoiceRegistered, BeingDropped, bleVars, taskVars,
       hubVars
  <2> QED
    BY <2>1, <2>2, <2>3
<1>18. ASSUME NEW c \in Clients, Unregister(c)
      PROVE  SpokenFor' /\ BleSpeakersJoined' /\ BleVoiceRegistered'
  <2>1. SpokenFor'
    BY <1>18 DEF Unregister, HandlerArgs, PeerPCs, SpokenFor, bleVars, taskVars
  <2>2. BleSpeakersJoined'
    BY <1>18 DEF Unregister, BleSpeakersJoined, bleVars
  <2>3. BleVoiceRegistered'
    BY <1>18 DEF Unregister, TypeOK, BleVoiceRegistered, BeingDropped, bleVars,
       taskVars
  <2> QED
    BY <2>1, <2>2, <2>3
<1>19. ASSUME NEW r \in Rooms, HubDropBlePeers(r)
      PROVE  SpokenFor' /\ BleSpeakersJoined' /\ BleVoiceRegistered'
  <2>1. SpokenFor'
    BY <1>19 DEF HubDropBlePeers, HandlerArgs, PeerPCs, Lifecycle, SpokenFor,
       NoRoaming, taskVars
  <2>2. BleSpeakersJoined'
    BY <1>19 DEF HubDropBlePeers, TypeOK, BleSpeakersJoined
  <2>3. BleVoiceRegistered'
    BY <1>19 DEF HubDropBlePeers, TypeOK, BleVoiceRegistered, BeingDropped, taskVars
  <2> QED
    BY <2>1, <2>2, <2>3
<1>20. ASSUME HubBlePeersDropped
      PROVE  SpokenFor' /\ BleSpeakersJoined' /\ BleVoiceRegistered'
  <2>1. SpokenFor'
    BY <1>20 DEF HubBlePeersDropped, SpokenFor, bleVars, taskVars
  <2>2. BleSpeakersJoined'
    BY <1>20 DEF HubBlePeersDropped, BleSpeakersJoined, bleVars
  <2>3. BleVoiceRegistered'
    BY <1>20 DEF HubBlePeersDropped, BleVoiceRegistered, BeingDropped, bleVars,
       taskVars
  <2> QED
    BY <2>1, <2>2, <2>3
<1>21. ASSUME NEW r \in Rooms, LeaveRoom(r)
      PROVE  SpokenFor' /\ BleSpeakersJoined' /\ BleVoiceRegistered'
  <2>1. SpokenFor'
    BY <1>21 DEF LeaveRoom, SpokenFor, bleVars, taskVars
  <2>2. BleSpeakersJoined'
    BY <1>21 DEF LeaveRoom, BleSpeakersJoined, bleVars
  <2>3. BleVoiceRegistered'
    BY <1>21 DEF LeaveRoom, BleVoiceRegistered, BeingDropped, bleVars, taskVars
  <2> QED
    BY <2>1, <2>2, <2>3
<1>22. ASSUME CloseSend
      PROVE  SpokenFor' /\ BleSpeakersJoined' /\ BleVoiceRegistered'
  <2>1. SpokenFor'
    BY <1>22 DEF CloseSend, SpokenFor, bleVars, taskVars
  <2>2. BleSpeakersJoined'
    BY <1>22 DEF CloseSend, BleSpeakersJoined, bleVars
  <2>3. BleVoiceRegistered'
    BY <1>22 DEF CloseSend, BleVoiceRegistered, BeingDropped, bleVars, taskVars
  <2> QED
    BY <2>1, <2>2, <2>3
<1>23. CASE UNCHANGED vars
  BY <1>23 DEF SpokenFor, BleSpeakersJoined, BleVoiceRegistered, BeingDropped, vars,
     bleVars, taskVars, hubVars
<1> QED
  BY <1>1, <1>2, <1>3, <1>4, <1>5, <1>6, <1>7, <1>8, <1>9, <1>10, <1>11, <1>12,
     <1>13, <1>14, <1>15, <1>16, <1>17, <1>18, <1>19, <1>20, <1>21, <1>22, <1>23,
     NextSteps

LEMMA SpecBleInv == Spec => []BleInv
<1>1. BleInv /\ [Next]_vars => BleInv'
  <2> SUFFICES ASSUME BleInv, [Next]_vars PROVE BleInv'
    OBVIOUS
  <2>1. TypeOK' /\ HandlerArgs' /\ Lifecycle' /\ VoiceConsistent'
    BY StepLifecycle, StepVoice DEF BleInv
  <2>2. CASE NoRoaming
    BY <2>1, <2>2, StepSpokenFor DEF BleInv
  <2>3. CASE ~NoRoaming
    BY <2>1, <2>3 DEF BleInv, SpokenFor, BleSpeakersJoined, BleVoiceRegistered
  <2> QED
    BY <2>2, <2>3
<1> QED
  BY <1>1, InitBleInv, PTL DEF Spec

\* Every variable of BleRelay keeps its type (hub.go:56-104, 405-563, 585-800).
THEOREM BleTypeCorrect == Spec => []TypeOK
BY SpecBleInv, PTL DEF BleInv

\* Speakers are in the channel, channel members in the room, and nobody there has a
\* closed channel (hub.go:532-563, 585-601, 772-780, room.go:340-361, 423-440).
THEOREM BleVoiceConsistent == Spec => []VoiceConsistent
BY SpecBleInv, PTL DEF BleInv

\* A BLE peer shown speaking is in the channel, while one relay speaks for it
\* (hub.go:795-799, room.go:379-421, 596-622).
THEOREM BleSpeakersAlwaysJoined == Spec => []BleSpeakersJoined
BY SpecBleInv, PTL DEF BleInv

\* A BLE peer in a voice channel is registered, or is being taken out of it
\* (hub.go:56-84, 439-458, 495-530, 623-637).
THEOREM BleVoiceAlwaysRegistered == Spec => []BleVoiceRegistered
BY SpecBleInv, PTL DEF BleInv

=============================================================================
