-------------------------- MODULE MicrophoneProofs --------------------------
(***************************************************************************)
(* Theorems about Microphone for any channels and any number of requests   *)
(* and lost connections.                                                   *)
(*                                                                         *)
(* No property is inductive alone.  That the key's release silences the    *)
(* browser at the server depends on the server having it in the channel of *)
(* the store, and that depends on the one request that is under way after  *)
(* a join: MicInv says what is true while a call or the meter waits for    *)
(* the microphone, and who else could have moved the gain.                 *)
(*                                                                         *)
(* At the end, theorems about BleAudio for every sample rate and volume.   *)
(***************************************************************************)
EXTENDS Microphone, BleAudio, TLAPS

\* While a call waits for the microphone, with answers in time, it is the only
\* one, it is that of the manager, and nothing is left of the one before.
OneCallWaits ==
  ~late => \A p \in pending : p.for = "call" =>
    /\ connected /\ joined = {} /\ callStream = None /\ channel = p.channel
    /\ \A q \in pending : q.for = "call" => q = p

\* The same of the meter.
OneMeterWaits ==
  ~late => \A p \in pending : p.for = "meter" =>
    /\ meterStream = None /\ page /\ Gated(formMode)
    /\ \A q \in pending : q.for = "meter" => q = p

\* No gain without a channel, no channel without a connection, and who talks by
\* the key holds it.
Closed ==
  /\ channel = None => ~open
  /\ ~connected => joined = {}
  /\ speaking => key

\* While only the hand has moved the gain, there is no gate that could, and
\* without a hand on key or button everything is silent.
SilentByHand ==
  byHand =>
    /\ mode = "ptt" /\ ~gate.on
    /\ speaking \/ button # None \/ (~open /\ ~localSpeaking /\ (late \/ shown = {}))

MicInv ==
  /\ TypeOK /\ OneCallWaits /\ OneMeterWaits /\ Closed /\ SilentByHand
  /\ CallAgrees /\ MicReleased

\* The gate's states, whoever touches, starts or leaves the gate
\* (VoiceManager.ts:80-140).
LEMMA GateStatesClosed ==
  /\ NoGate \in GateStates /\ ~NoGate.on
  /\ \A g \in GateStates : Touched(g) \in GateStates /\ Touched(g).on = g.on
  /\ \A b \in BOOLEAN : Started(b) \in GateStates /\ Started(b).on = b
  /\ gate \in GateStates =>
       \A b \in BOOLEAN : Orphaned(b) \in GateStates /\ Orphaned(b).on = gate.on
<1>1. NoGate \in GateStates /\ ~NoGate.on
  BY DEF NoGate, GateStates
<1>2. \A g \in GateStates : Touched(g) \in GateStates /\ Touched(g).on = g.on
  BY DEF Touched, GateStates
<1>3. \A b \in BOOLEAN : Started(b) \in GateStates /\ Started(b).on = b
  BY DEF Started, NoGate, GateStates
<1>4. gate \in GateStates =>
        \A b \in BOOLEAN : Orphaned(b) \in GateStates /\ Orphaned(b).on = gate.on
  BY DEF Orphaned, NoGate, GateStates
<1> QED
  BY <1>1, <1>2, <1>3, <1>4

\* The clean-up of the push-to-talk effect keeps the types, whatever gain and gate
\* the handler leaves (usePTT.ts:129-146).
LEMMA UnkeyedValues ==
  ASSUME Values, NEW o \in BOOLEAN, NEW g \in GateStates, Unkeyed(o, g), joined \subseteq joined'
  PROVE  /\ gate' \in GateStates /\ open' \in BOOLEAN /\ localSpeaking' \in BOOLEAN
         /\ speaking' = FALSE /\ shown' \subseteq joined'
<1>1. gate' \in GateStates
  BY GateStatesClosed DEF Unkeyed
<1>2. shown' \subseteq joined'
  BY DEF Values, Unkeyed, Told
<1>3. open' \in BOOLEAN /\ localSpeaking' \in BOOLEAN /\ speaking' = FALSE
  BY Zenon DEF Values, Unkeyed
<1> QED
  BY <1>1, <1>2, <1>3

\* A manager without a channel, and a browser on the start page
\* (VoiceManager.ts:47-70).
LEMMA InitMicInv == Init => MicInv
<1> SUFFICES ASSUME Init PROVE MicInv
  OBVIOUS
<1> USE MicrophoneAssumption DEF Init, VoiceModes, TalkButtons
<1>1. /\ channel \in Channels \cup {None} /\ activeVoice \in Channels \cup {None}
      /\ gate \in GateStates /\ requests \in 0..MaxRequests /\ losses \in 0..MaxLosses
  BY GateStatesClosed
<1>2. Values
  BY <1>1 DEF Values
<1>3. Streams
  BY DEF Streams
<1>4. OneCallWaits /\ OneMeterWaits /\ Closed /\ CallAgrees /\ MicReleased
  BY DEF OneCallWaits, OneMeterWaits, Closed, CallAgrees, MicReleased
<1>5. SilentByHand
  BY GateStatesClosed DEF SilentByHand
<1> QED
  BY <1>2, <1>3, <1>4, <1>5 DEF MicInv, TypeOK

\* No event breaks MicInv, one step per event, and under it one per conjunct that
\* the event can disturb (VoiceManager.ts:80-300, usePTT.ts:46-145, App.tsx:83-154,
\* VoiceSettings.tsx:96-195).
LEMMA StepMicInv == MicInv /\ [Next]_vars => MicInv'
<1> SUFFICES ASSUME MicInv, [Next]_vars PROVE MicInv'
  OBVIOUS
<1> USE MicrophoneAssumption
    DEF MicInv, TypeOK, manager, store, user, settings, media, server
<1>1. ASSUME NEW c \in Channels, JoinChannel(c) PROVE MicInv'
  <2>1. gate' \in GateStates
    BY <1>1, GateStatesClosed DEF Values, JoinChannel, Cleanup
  <2>2. shown' \subseteq joined' /\ joined' \subseteq Channels
    BY <1>1, <2>1 DEF Values, JoinChannel, Left
  <2>3. open' \in BOOLEAN /\ late' \in BOOLEAN /\ localSpeaking' \in BOOLEAN
    BY <1>1, <2>2 DEF Values, JoinChannel, Cleanup
  <2>4. Values'
    BY <1>1, <2>1, <2>2, <2>3 DEF Values, JoinChannel
  <2>5. ~late' => \A p \in pending' : p.for = "call" => p = Ask("call", c)
    BY <1>1 DEF Waiting, JoinChannel
  <2>6. ~late' => joined' = {} /\ callStream' = None /\ connected' /\ channel' = c
    BY <1>1 DEF CallAgrees, JoinChannel, Cleanup, Left
  <2>7. Ask("call", c) \in pending' /\ Ask("call", c).for = "call" /\ Ask("call", c).channel = c
    BY <1>1 DEF JoinChannel, Ask
  <2>8. Streams'
    BY <1>1 DEF Values, Streams, Request, Purposes, JoinChannel, Cleanup, Stopped, Ask
  <2>9. OneCallWaits'
    BY <1>1, <2>5, <2>6, <2>7 DEF OneCallWaits
  <2>10. OneMeterWaits'
    BY <1>1, <2>7 DEF OneMeterWaits, JoinChannel
  <2>11. Closed'
    BY <1>1 DEF Closed, JoinChannel
  <2>12. SilentByHand'
    BY <1>1, GateStatesClosed DEF Values, SilentByHand, JoinChannel, Cleanup, Left
  <2>13. CallAgrees'
    BY <1>1, <2>5, <2>6, <2>7 DEF CallAgrees, Waiting
  <2>14. MicReleased'
    BY <1>1 DEF MicReleased, JoinChannel, Cleanup, Stopped
  <2> QED
    BY <2>1, <2>2, <2>3, <2>4, <2>5, <2>6, <2>7, <2>8, <2>9, <2>10, <2>11, <2>12, <2>13, <2>14
<1>2. CASE LeaveVoice
  <2>1. gate' \in GateStates
    BY <1>2, GateStatesClosed DEF Values, LeaveVoice, Cleanup
  <2>2. Values'
    BY <1>2, <2>1 DEF Values, LeaveVoice, Cleanup, Left, Told, Unseen
  <2>3. Streams'
    BY <1>2 DEF Streams, LeaveVoice, Cleanup, Stopped
  <2>4. OneCallWaits'
    BY <1>2 DEF OneCallWaits, Waiting, LeaveVoice
  <2>5. OneMeterWaits'
    BY <1>2 DEF OneMeterWaits, LeaveVoice
  <2>6. Closed'
    BY <1>2 DEF Closed, LeaveVoice, Cleanup, Left
  <2>7. SilentByHand'
    BY <1>2, GateStatesClosed DEF Values, Closed, SilentByHand, CallAgrees,
       LeaveVoice, Cleanup, Left, Told, Unseen
  <2>8. CallAgrees'
    BY <1>2 DEF Closed, CallAgrees, LeaveVoice, Left
  <2>9. MicReleased'
    BY <1>2 DEF MicReleased, LeaveVoice, Cleanup, Stopped
  <2> QED
    BY <2>1, <2>2, <2>3, <2>4, <2>5, <2>6, <2>7, <2>8, <2>9
<1>3. CASE ConnectionLost
  <2>1. gate' \in GateStates
    BY <1>3, GateStatesClosed DEF Values, ConnectionLost, SetMuted
  <2>2. shown' \subseteq joined' /\ joined' \subseteq Channels
    BY <1>3, <2>1 DEF ConnectionLost
  <2>3. byHand' \in BOOLEAN /\ losses' \in 0..MaxLosses
    BY <1>3 DEF Values, ConnectionLost, Unseen
  <2>4. open' \in BOOLEAN /\ late' \in BOOLEAN /\ localSpeaking' \in BOOLEAN
    BY <1>3, <2>2, <2>3 DEF Values, ConnectionLost, SetMuted
  <2>5. Values'
    BY <1>3, <2>1, <2>2, <2>3, <2>4 DEF Values, ConnectionLost
  <2>6. Streams'
    BY <1>3 DEF Streams, ConnectionLost
  <2>7. OneCallWaits'
    BY <1>3 DEF OneCallWaits, Waiting, ConnectionLost
  <2>8. OneMeterWaits'
    BY <1>3 DEF OneMeterWaits, ConnectionLost
  <2>9. Closed'
    BY <1>3 DEF Closed, ConnectionLost, SetMuted
  <2>10. SilentByHand'
    BY <1>3, GateStatesClosed DEF Values, SilentByHand, ConnectionLost, SetMuted,
       Unseen
  <2>11. CallAgrees'
    BY <1>3 DEF CallAgrees, ConnectionLost
  <2>12. MicReleased'
    BY <1>3 DEF MicReleased, ConnectionLost
  <2> QED
    BY <2>1, <2>2, <2>3, <2>4, <2>5, <2>6, <2>7, <2>8, <2>9, <2>10, <2>11, <2>12
<1>4. CASE Reconnected
  <2>1. /\ gate' \in GateStates /\ open' \in BOOLEAN /\ localSpeaking' \in BOOLEAN
        /\ speaking' = FALSE /\ shown' \subseteq joined'
    BY <1>4, UnkeyedValues DEF Values, Reconnected
  <2>2. Values'
    BY <1>4, <2>1, Zenon DEF Values, Reconnected
  <2>3. Streams' /\ OneMeterWaits' /\ CallAgrees' /\ MicReleased'
    BY <1>4 DEF Streams, OneMeterWaits, CallAgrees, MicReleased, Waiting, Reconnected
  <2>4. OneCallWaits'
    BY <1>4 DEF OneCallWaits, Reconnected
  <2>5. Closed'
    BY <1>4 DEF Closed, Reconnected, Unkeyed
  <2>6. SilentByHand'
    BY <1>4, GateStatesClosed DEF Values, Closed, SilentByHand, Reconnected, Unkeyed,
       Told
  <2> QED
    BY <2>1, <2>2, <2>3, <2>4, <2>5, <2>6
<1>5. ASSUME NEW w \in TalkButtons, TalkStart(w) PROVE MicInv'
  <2>1. /\ gate' \in GateStates /\ open' \in BOOLEAN
        /\ shown' \subseteq joined' /\ joined' \subseteq Channels
    <3>1. gate' \in GateStates
      BY <1>5, GateStatesClosed DEF Values, TalkStart, SetMuted
    <3>2. open' \in BOOLEAN
      BY <1>5, Zenon DEF Values, TalkStart, SetMuted
    <3>3. shown' \subseteq joined' /\ joined' \subseteq Channels
      BY <1>5 DEF Values, TalkStart, Told
    <3> QED
      BY <3>1, <3>2, <3>3
  <2>2. Values'
    BY <1>5, <2>1, Zenon DEF Values, TalkStart, CallControls
  <2>3. Streams' /\ OneCallWaits' /\ OneMeterWaits' /\ CallAgrees' /\ MicReleased'
    BY <1>5 DEF Streams, OneCallWaits, OneMeterWaits, CallAgrees, MicReleased,
       Waiting, TalkStart
  <2>4. Closed'
    BY <1>5 DEF Closed, TalkStart
  <2>5. SilentByHand'
    BY <1>5, GateStatesClosed DEF Values, SilentByHand, TalkStart, SetMuted
  <2> QED
    BY <2>1, <2>2, <2>3, <2>4, <2>5
<1>6. ASSUME NEW muted \in BOOLEAN, ToggleMute(muted) PROVE MicInv'
  <2>1. gate' \in GateStates
    BY <1>6, GateStatesClosed DEF Values, ToggleMute, SetMuted
  <2>2. Values'
    BY <1>6, <2>1 DEF Values, ToggleMute, CallControls, SetMuted
  <2>3. Streams' /\ OneCallWaits' /\ OneMeterWaits' /\ CallAgrees' /\ MicReleased'
    BY <1>6 DEF Streams, OneCallWaits, OneMeterWaits, CallAgrees, MicReleased,
       Waiting, ToggleMute
  <2>4. Closed'
    BY <1>6 DEF Closed, ToggleMute, SetMuted
  <2>5. SilentByHand'
    BY <1>6, GateStatesClosed DEF SilentByHand, ToggleMute
  <2> QED
    BY <2>1, <2>2, <2>3, <2>4, <2>5
<1>7. CASE KeyDown
  <2>1. gate' \in GateStates
    BY <1>7, GateStatesClosed DEF Values, KeyDown, SetMuted
  <2>2. Values'
    BY <1>7, <2>1 DEF Values, KeyDown, SetMuted, Told
  <2>3. Streams' /\ OneCallWaits' /\ OneMeterWaits' /\ CallAgrees' /\ MicReleased'
    BY <1>7 DEF Streams, OneCallWaits, OneMeterWaits, CallAgrees, MicReleased,
       Waiting, KeyDown
  <2>4. Closed'
    BY <1>7 DEF Closed, KeyDown, SetMuted
  <2>5. SilentByHand'
    BY <1>7, GateStatesClosed DEF Values, SilentByHand, KeyDown, SetMuted
  <2> QED
    BY <2>1, <2>2, <2>3, <2>4, <2>5
<1>8. CASE KeyUp
  <2>1. /\ gate' \in GateStates /\ open' \in BOOLEAN /\ localSpeaking' \in BOOLEAN
        /\ speaking' = FALSE /\ shown' \subseteq joined'
    BY <1>8, UnkeyedValues DEF Values, KeyUp
  <2>2. Values'
    BY <1>8, <2>1, Zenon DEF Values, KeyUp
  <2>3. Streams' /\ OneCallWaits' /\ OneMeterWaits' /\ CallAgrees' /\ MicReleased'
    BY <1>8 DEF Streams, OneCallWaits, OneMeterWaits, CallAgrees, MicReleased,
       Waiting, KeyUp
  <2>4. Closed'
    BY <1>8 DEF Closed, KeyUp, Unkeyed
  <2>5. SilentByHand'
    BY <1>8, GateStatesClosed DEF Values, OneCallWaits, Closed, SilentByHand,
       CallAgrees, Waiting, KeyUp, Unkeyed, Told
  <2> QED
    BY <2>1, <2>2, <2>3, <2>4, <2>5
<1>9. CASE SetPttKey
  <2>1. /\ gate' \in GateStates /\ open' \in BOOLEAN /\ localSpeaking' \in BOOLEAN
        /\ speaking' = FALSE /\ shown' \subseteq joined'
    BY <1>9, UnkeyedValues DEF Values, SetPttKey
  <2>2. Values'
    BY <1>9, <2>1, Zenon DEF Values, SetPttKey
  <2>3. Streams' /\ OneCallWaits' /\ OneMeterWaits' /\ CallAgrees' /\ MicReleased'
    BY <1>9 DEF Streams, OneCallWaits, OneMeterWaits, CallAgrees, MicReleased,
       Waiting, SetPttKey
  <2>4. Closed'
    BY <1>9 DEF Closed, SetPttKey, Unkeyed
  <2>5. SilentByHand'
    BY <1>9, GateStatesClosed DEF Values, OneCallWaits, Closed, SilentByHand,
       CallAgrees, Waiting, SetPttKey, Unkeyed, Told
  <2> QED
    BY <2>1, <2>2, <2>3, <2>4, <2>5
<1>10. CASE TalkEnd
  <2>1. gate' \in GateStates
    BY <1>10, GateStatesClosed DEF Values, TalkEnd, SetMuted
  <2>2. Values'
    BY <1>10, <2>1 DEF Values, TalkEnd, CallControls, SetMuted, Told
  <2>3. Streams' /\ OneCallWaits' /\ OneMeterWaits' /\ CallAgrees' /\ MicReleased'
    BY <1>10 DEF Streams, OneCallWaits, OneMeterWaits, CallAgrees, MicReleased,
       Waiting, TalkEnd
  <2>4. Closed'
    BY <1>10 DEF Closed, TalkEnd
  <2>5. SilentByHand'
    BY <1>10, GateStatesClosed DEF Values, OneCallWaits, Closed, SilentByHand,
       CallAgrees, Waiting, TalkEnd, SetMuted, Told
  <2> QED
    BY <2>1, <2>2, <2>3, <2>4, <2>5
<1>11. CASE BarGone
  <2>1. Values'
    BY <1>11 DEF Values, BarGone, Unseen
  <2>2. Streams' /\ OneCallWaits' /\ OneMeterWaits' /\ Closed' /\ CallAgrees' /\ MicReleased'
    BY <1>11 DEF Streams, OneCallWaits, OneMeterWaits, Closed, CallAgrees,
       MicReleased, Waiting, BarGone
  <2>3. SilentByHand'
    BY <1>11 DEF SilentByHand, BarGone, Unseen
  <2> QED
    BY <2>1, <2>2, <2>3
<1>12. CASE Speech
  <2>1. Values'
    BY <1>12 DEF Values, Speech
  <2>2. Streams' /\ OneCallWaits' /\ OneMeterWaits' /\ Closed' /\ SilentByHand' /\ CallAgrees' /\ MicReleased'
    BY <1>12 DEF Streams, OneCallWaits, OneMeterWaits, Closed, SilentByHand,
       CallAgrees, MicReleased, Waiting, Speech
  <2> QED
    BY <2>1, <2>2
<1>13. CASE GateTick
  <2>1. Heard \in BOOLEAN
    BY <1>13 DEF Values, Heard, GateStates
  <2>2. gate' \in GateStates
    BY <1>13, <2>1 DEF Values, GateTick, GateStates
  <2>3. shown' \subseteq joined' /\ joined' \subseteq Channels
    BY <1>13, <2>1, <2>2 DEF Values, GateTick, Told
  <2>4. open' \in BOOLEAN /\ late' \in BOOLEAN /\ localSpeaking' \in BOOLEAN
    BY <1>13, <2>1, <2>2, <2>3 DEF Values, GateTick
  <2>5. Values'
    BY <1>13, <2>1, <2>2, <2>3, <2>4, Zenon DEF Values, GateTick
  <2>6. Streams' /\ OneCallWaits' /\ OneMeterWaits' /\ CallAgrees' /\ MicReleased'
    BY <1>13 DEF Streams, OneCallWaits, OneMeterWaits, CallAgrees, MicReleased,
       Waiting, GateTick
  <2>7. Closed'
    BY <1>13 DEF Closed, GateTick
  <2>8. SilentByHand'
    BY <1>13, GateStatesClosed DEF SilentByHand, GateTick
  <2> QED
    BY <2>1, <2>2, <2>3, <2>4, <2>5, <2>6, <2>7, <2>8
<1>14. CASE Hush
  <2>1. Values'
    <3>1. Told(shown, channel, FALSE) \subseteq shown
      BY DEF Told
    <3>2. shown' \in {shown, Told(shown, channel, FALSE)}
      BY <1>14, Zenon DEF Hush
    <3>3. shown' \subseteq shown
      BY <3>1, <3>2
    <3>4. shown' \subseteq joined /\ joined' = joined
      BY <1>14, <3>3, Zenon DEF Values, Hush
    <3>5. /\ channel' \in Channels \cup {None} /\ activeVoice' \in Channels \cup {None}
          /\ open' \in BOOLEAN /\ hush' \in BOOLEAN /\ gate' \in GateStates
          /\ connected' \in BOOLEAN /\ localSpeaking' \in BOOLEAN
          /\ key' \in BOOLEAN /\ speaking' \in BOOLEAN /\ loud' \in BOOLEAN /\ byHand' \in BOOLEAN
      BY <1>14 DEF Values, Hush
    <3>6. /\ button' \in TalkButtons \cup {None} /\ page' \in BOOLEAN /\ mode' \in VoiceModes
          /\ requests' \in 0..MaxRequests /\ losses' \in 0..MaxLosses
          /\ speaking' \/ button' # None => activeVoice' # None
      BY <1>14 DEF Values, Hush
    <3>7. formMode' \in VoiceModes /\ late' \in BOOLEAN /\ shown' \subseteq joined' /\ joined' \subseteq Channels
      BY <1>14, <3>4 DEF Values, Hush
    <3> QED
      BY <3>5, <3>6, <3>7, Zenon DEF Values
  <2>2. Streams' /\ OneCallWaits' /\ OneMeterWaits' /\ Closed' /\ CallAgrees' /\ MicReleased'
    BY <1>14 DEF Streams, OneCallWaits, OneMeterWaits, Closed, CallAgrees,
       MicReleased, Waiting, Hush
  <2>3. SilentByHand'
    BY <1>14 DEF SilentByHand, Hush
  <2> QED
    BY <2>1, <2>2, <2>3
<1>15. CASE CycleMode
  <2>1. gate' \in GateStates
    BY <1>15, GateStatesClosed DEF Values, CycleMode
  <2>2. open' \in BOOLEAN /\ late' \in BOOLEAN /\ localSpeaking' \in BOOLEAN
    BY <1>15 DEF Values, Gated, CycleMode
  <2>3. Values'
    BY <1>15, <2>1, <2>2 DEF Values, VoiceModes, CycleMode, NextMode
  <2>4. Streams' /\ OneCallWaits' /\ OneMeterWaits' /\ CallAgrees' /\ MicReleased'
    BY <1>15 DEF Streams, OneCallWaits, OneMeterWaits, CallAgrees, MicReleased,
       Waiting, CycleMode
  <2>5. Closed'
    BY <1>15 DEF Closed, CycleMode
  <2>6. SilentByHand'
    BY <1>15, GateStatesClosed DEF SilentByHand, CycleMode
  <2> QED
    BY <2>1, <2>2, <2>3, <2>4, <2>5, <2>6
<1>16. CASE OpenSettings
  <2>1. Values'
    <3>1. requests' \in 0..MaxRequests /\ late' \in BOOLEAN
      BY <1>16 DEF Values, OpenSettings, Monitor, StopMeter
    <3> QED
      BY <1>16, <3>1, Zenon DEF Values, OpenSettings
  <2>2. Closed'
    BY <1>16 DEF Closed, OpenSettings
  <2>3. Streams'
    BY <1>16 DEF Values, Streams, Request, Purposes, OpenSettings, Monitor, StopMeter,
       Stopped, Ask
  <2>4. OneCallWaits'
    BY <1>16 DEF Values, OneCallWaits, OpenSettings, Monitor, StopMeter, Ask
  <2>5. OneMeterWaits'
    BY <1>16 DEF OneMeterWaits, OpenSettings, Monitor, StopMeter
  <2>6. SilentByHand'
    BY <1>16 DEF SilentByHand, OpenSettings, Monitor, StopMeter
  <2>7. CallAgrees'
    BY <1>16 DEF CallAgrees, Waiting, OpenSettings, Monitor, StopMeter
  <2>8. MicReleased'
    BY <1>16 DEF MicReleased, OpenSettings, Monitor, StopMeter, Stopped
  <2> QED
    BY <2>1, <2>2, <2>3, <2>4, <2>5, <2>6, <2>7, <2>8
<1>17. CASE SaveSettings
  <2>1. Values'
    BY <1>17, Zenon DEF Values, SaveSettings
  <2>2. Streams' /\ OneCallWaits' /\ OneMeterWaits' /\ Closed' /\ CallAgrees' /\ MicReleased'
    BY <1>17 DEF Streams, OneCallWaits, OneMeterWaits, Closed, CallAgrees,
       MicReleased, Waiting, SaveSettings
  <2>3. SilentByHand'
    BY <1>17 DEF SilentByHand, SaveSettings
  <2> QED
    BY <2>1, <2>2, <2>3
<1>18. CASE CloseSettings
  <2>1. Values'
    <3>1. formMode' \in VoiceModes /\ late' \in BOOLEAN
      BY <1>18 DEF Values, VoiceModes, CloseSettings, StopMeter
    <3>2. /\ channel' \in Channels \cup {None} /\ activeVoice' \in Channels \cup {None}
          /\ open' \in BOOLEAN /\ hush' \in BOOLEAN /\ gate' \in GateStates
          /\ connected' \in BOOLEAN /\ localSpeaking' \in BOOLEAN
          /\ key' \in BOOLEAN /\ speaking' \in BOOLEAN /\ loud' \in BOOLEAN /\ byHand' \in BOOLEAN
      BY <1>18 DEF Values, CloseSettings
    <3>3. /\ button' \in TalkButtons \cup {None} /\ page' \in BOOLEAN /\ mode' \in VoiceModes
          /\ requests' \in 0..MaxRequests /\ losses' \in 0..MaxLosses
          /\ speaking' \/ button' # None => activeVoice' # None
      BY <1>18 DEF Values, CloseSettings
    <3>4. shown' \subseteq joined' /\ joined' \subseteq Channels
      BY <1>18 DEF Values, CloseSettings
    <3> QED
      BY <3>1, <3>2, <3>3, <3>4, Zenon DEF Values
  <2>2. Closed'
    BY <1>18 DEF Closed, CloseSettings
  <2>3. Streams'
    BY <1>18 DEF Streams, CloseSettings, StopMeter, Stopped
  <2>4. OneCallWaits'
    BY <1>18 DEF OneCallWaits, CloseSettings, StopMeter
  <2>5. OneMeterWaits'
    BY <1>18 DEF OneMeterWaits, Waiting, CloseSettings, StopMeter
  <2>6. SilentByHand'
    BY <1>18 DEF SilentByHand, CloseSettings, StopMeter
  <2>7. CallAgrees'
    BY <1>18 DEF CallAgrees, Waiting, CloseSettings, StopMeter
  <2>8. MicReleased'
    BY <1>18 DEF MicReleased, CloseSettings, StopMeter, Stopped
  <2> QED
    BY <2>1, <2>2, <2>3, <2>4, <2>5, <2>6, <2>7, <2>8
<1>19. ASSUME NEW m \in VoiceModes, ChangeForm(m) PROVE MicInv'
  <2>1. Values'
    BY <1>19 DEF Values, ChangeForm, Monitor, StopMeter
  <2>2. Closed'
    BY <1>19 DEF Closed, ChangeForm
  <2>3. Streams'
    BY <1>19 DEF Values, Streams, Request, Purposes, ChangeForm, Monitor, StopMeter,
       Stopped, Ask
  <2>4. OneCallWaits'
    BY <1>19 DEF Values, OneCallWaits, ChangeForm, Monitor, StopMeter, Ask
  <2>5. OneMeterWaits'
    BY <1>19 DEF OneMeterWaits, Waiting, ChangeForm, Monitor, StopMeter
  <2>6. SilentByHand'
    BY <1>19 DEF SilentByHand, ChangeForm, Monitor, StopMeter
  <2>7. CallAgrees'
    BY <1>19 DEF CallAgrees, Waiting, ChangeForm, Monitor, StopMeter
  <2>8. MicReleased'
    BY <1>19 DEF MicReleased, ChangeForm, Monitor, StopMeter, Stopped
  <2> QED
    BY <2>1, <2>2, <2>3, <2>4, <2>5, <2>6, <2>7, <2>8
<1>20. ASSUME NEW p \in pending, NEW granted \in BOOLEAN, AudioReady(p, granted) PROVE MicInv'
  <2>1. PICK o \in BOOLEAN, g \in GateStates : Unkeyed(o, g)
    BY <1>20, GateStatesClosed DEF Values, AudioReady
  <2>2. joined \subseteq joined' /\ joined' \subseteq Channels /\ activeVoice' \in Channels
    BY <1>20 DEF Values, Streams, AudioReady
  <2>3. /\ gate' \in GateStates /\ open' \in BOOLEAN /\ localSpeaking' \in BOOLEAN
        /\ speaking' = FALSE /\ shown' \subseteq joined'
    BY <2>1, <2>2, UnkeyedValues
  <2>4. Values'
    BY <1>20, <2>2, <2>3, MicrophoneAssumption, Zenon DEF Values, AudioReady
  <2>5. Streams'
    BY <1>20 DEF Streams, AudioReady
  <2>6. OneCallWaits'
    BY <1>20 DEF OneCallWaits, AudioReady
  <2>7. OneMeterWaits'
    BY <1>20 DEF OneMeterWaits, AudioReady
  <2>8. Closed'
    BY <1>20 DEF Closed, AudioReady, Unkeyed
  <2>9. SilentByHand'
    BY <1>20, GateStatesClosed DEF Values, OneCallWaits, SilentByHand, Gated,
       AudioReady, Unkeyed, Told
  <2>10. CallAgrees'
    BY <1>20 DEF OneCallWaits, CallAgrees, AudioReady
  <2>11. MicReleased'
    BY <1>20 DEF Streams, OneCallWaits, MicReleased, AudioReady
  <2> QED
    BY <2>1, <2>2, <2>3, <2>4, <2>5, <2>6, <2>7, <2>8, <2>9, <2>10, <2>11
<1>21. ASSUME NEW p \in pending, NEW granted \in BOOLEAN, StreamReady(p, granted) PROVE MicInv'
  <2>1. Values'
    BY <1>21 DEF Values, StreamReady
  <2>2. Closed' /\ SilentByHand'
    BY <1>21 DEF Closed, SilentByHand, StreamReady
  <2>3. Streams'
    BY <1>21 DEF Streams, StreamReady
  <2>4. OneCallWaits'
    BY <1>21 DEF OneCallWaits, StreamReady
  <2>5. OneMeterWaits'
    BY <1>21 DEF OneMeterWaits, StreamReady
  <2>6. CallAgrees'
    BY <1>21 DEF CallAgrees, Waiting, StreamReady
  <2>7. MicReleased'
    BY <1>21 DEF Streams, OneMeterWaits, MicReleased, StreamReady
  <2> QED
    BY <2>1, <2>2, <2>3, <2>4, <2>5, <2>6, <2>7
<1>22. CASE UNCHANGED vars
  BY <1>22 DEF vars, Values, Streams, OneCallWaits, OneMeterWaits, Closed,
     SilentByHand, CallAgrees, MicReleased, Waiting
<1> QED
  BY <1>1, <1>2, <1>3, <1>4, <1>5, <1>6, <1>7, <1>8, <1>9, <1>10, <1>11, <1>12,
     <1>13, <1>14, <1>15, <1>16, <1>17, <1>18, <1>19, <1>20, <1>21, <1>22
     DEF Next, Call, Talk, Gate, Settings, Media

\* MicInv holds of every behaviour of the browser.
LEMMA SpecMicInv == Spec => []MicInv
BY InitMicInv, StepMicInv, PTL DEF Spec

\* Whatever the events and their order, every variable keeps its type, and nobody is
\* heard by key or button without a call.
THEOREM MicTypeCorrect == Spec => []TypeOK
<1>1. MicInv => TypeOK
  BY DEF MicInv
<1> QED
  BY <1>1, SpecMicInv, PTL

\* Push to talk transmits only while the key or a button is held
\* (usePTT.ts:46-145, App.tsx:109-154).
THEOREM MicHoldToTalk == Spec => []HoldToTalk
<1>1. MicInv => HoldToTalk
  BY DEF MicInv, Closed, SilentByHand, HoldToTalk, Transmits, OnAir
<1> QED
  BY <1>1, SpecMicInv, PTL

\* The browser, its manager and the server agree about the call
\* (VoiceManager.ts:154-251).
THEOREM MicCallAgrees == Spec => []CallAgrees
<1>1. MicInv => CallAgrees
  BY DEF MicInv
<1> QED
  BY <1>1, SpecMicInv, PTL

\* A microphone is released with what it was opened for (VoiceManager.ts:253-300,
\* VoiceSettings.tsx:146-172).
THEOREM MicsReleased == Spec => []MicReleased
<1>1. MicInv => MicReleased
  BY DEF MicInv
<1> QED
  BY <1>1, SpecMicInv, PTL

-----------------------------------------------------------------------------
(* BleAudio *)

\* Division rounds down.
LEMMA Division ==
  ASSUME NEW a \in Int, NEW b \in Nat \ {0}
  PROVE  /\ a \div b \in Int
         /\ (a \div b) * b <= a
         /\ a < ((a \div b) + 1) * b
OBVIOUS

LEMMA DivisionBounds ==
  ASSUME NEW a \in Int, NEW b \in Nat \ {0}, NEW k \in Int
  PROVE  /\ k * b <= a => k <= a \div b
         /\ a < (k + 1) * b => a \div b <= k
OBVIOUS

LEMMA Remainder ==
  ASSUME NEW a \in Int, NEW b \in Nat \ {0}
  PROVE  /\ a % b \in Nat /\ a % b < b
         /\ a = (a \div b) * b + (a % b)
OBVIOUS

\* A sample survives its two bytes (VoiceManager.ts:589-594, 714-722).
THEOREM BytesRoundTrip ==
  \A s \in Int16 : /\ ToBytes(s).lo \in Byte /\ ToBytes(s).hi \in Byte
                   /\ FromBytes(ToBytes(s)) = s
<1> TAKE s \in Int16
<1> DEFINE value == IF s < 0 THEN s + 65536 ELSE s
<1>1. value \in Nat /\ value <= 65535
  BY DEF Int16
<1>a. ToBytes(s).lo = value % 256 /\ ToBytes(s).hi = (value \div 256) % 256
  BY DEF ToBytes
<1>b. s = IF value >= 32768 THEN value - 65536 ELSE value
  BY DEF Int16
<1> HIDE DEF value
<1>2. /\ value % 256 \in Nat /\ value % 256 <= 255
      /\ value \div 256 \in Nat /\ value \div 256 <= 255
      /\ value = (value \div 256) * 256 + (value % 256)
  BY <1>1
<1>3. ToBytes(s).hi = value \div 256
  BY <1>2, <1>a
<1>4. ToBytes(s).hi * 256 + ToBytes(s).lo = value
  BY <1>2, <1>3, <1>a
<1>5. FromBytes(ToBytes(s)) = s
  BY <1>4, <1>b DEF FromBytes
<1> QED
  BY <1>2, <1>3, <1>5, <1>a DEF Byte

\* However loud the sample, the number fits into 16 bits
\* (VoiceManager.ts:707-712).
THEOREM FloatFits == \A s \in Int : FloatToInt16(s) \in Int16
<1> TAKE s \in Int
<1> DEFINE clamped == IF s > Full THEN Full ELSE IF s < -Full THEN -Full ELSE s
<1> USE AudioAssumption
<1>1. clamped \in Int /\ -Full <= clamped /\ clamped <= Full
  OBVIOUS
<1> HIDE DEF clamped
<1>2. CASE clamped < 0
  <2>1. 2 * (clamped * 32768) + Full \in Int /\ 2 * Full \in Nat \ {0}
    BY <1>1
  <2>2. -32768 * (2 * Full) <= 2 * (clamped * 32768) + Full
    BY <1>1
  <2>3. 2 * (clamped * 32768) + Full < (32767 + 1) * (2 * Full)
    BY <1>1, <1>2
  <2> DEFINE num == 2 * (clamped * 32768) + Full
             den == 2 * Full
  <2> HIDE DEF num, den
  <2>4. num \div den \in Int /\ -32768 <= num \div den /\ num \div den <= 32767
    <3>1. num \in Int /\ den \in Nat \ {0} /\ -32768 * den <= num /\ num < (32767 + 1) * den
      BY <2>1, <2>2, <2>3 DEF num, den
    <3>2. num \div den \in Int
      BY <3>1, Division
    <3>3. -32768 <= num \div den
      BY <3>1, DivisionBounds
    <3>4. num \div den <= 32767
      BY <3>1, DivisionBounds
    <3> QED
      BY <3>2, <3>3, <3>4
  <2>5. Round(clamped * 32768, Full) = num \div den
    BY <1>1 DEF Round, num, den
  <2>6. Round(clamped * 32768, Full) \in Int16
    BY <2>4, <2>5 DEF Int16
  <2> QED
    BY <1>2, <2>6 DEF FloatToInt16, clamped
<1>3. CASE ~(clamped < 0)
  <2>1. 2 * (clamped * 32767) + Full \in Int /\ 2 * Full \in Nat \ {0}
    BY <1>1
  <2>2. -32768 * (2 * Full) <= 2 * (clamped * 32767) + Full
    BY <1>1, <1>3
  <2>3. 2 * (clamped * 32767) + Full < (32767 + 1) * (2 * Full)
    BY <1>1
  <2> DEFINE num == 2 * (clamped * 32767) + Full
             den == 2 * Full
  <2> HIDE DEF num, den
  <2>4. num \div den \in Int /\ -32768 <= num \div den /\ num \div den <= 32767
    <3>1. num \in Int /\ den \in Nat \ {0} /\ -32768 * den <= num /\ num < (32767 + 1) * den
      BY <2>1, <2>2, <2>3 DEF num, den
    <3>2. num \div den \in Int
      BY <3>1, Division
    <3>3. -32768 <= num \div den
      BY <3>1, DivisionBounds
    <3>4. num \div den <= 32767
      BY <3>1, DivisionBounds
    <3> QED
      BY <3>2, <3>3, <3>4
  <2>5. Round(clamped * 32767, Full) = num \div den
    BY <1>1 DEF Round, num, den
  <2>6. Round(clamped * 32767, Full) \in Int16
    BY <2>4, <2>5 DEF Int16
  <2> QED
    BY <1>3, <2>6 DEF FloatToInt16, clamped
<1> QED
  BY <1>2, <1>3

-----------------------------------------------------------------------------
(* The chain *)

\* Between two blocks less than a frame is kept, and the next sample is less
\* than one step away.
ChainOK(chain) ==
  /\ chain.pending \in Nat /\ chain.pending < BleFrameSamples
  /\ chain.offset \in 0 .. Rate - 1

\* What a block brings (VoiceManager.ts:688-704).
LEMMA ResampledBounds ==
  ASSUME NEW offset \in 0 .. Rate - 1
  PROVE  /\ Resampled(offset) \in Nat
         /\ Block * BleSampleRate <= offset + Resampled(offset) * Rate
         /\ offset + Resampled(offset) * Rate < Block * BleSampleRate + Rate
         /\ \A k \in 0 .. Resampled(offset) - 1 : offset + k * Rate < Block * BleSampleRate
<1> USE AudioAssumption
<1> DEFINE end == Block * BleSampleRate
           n == Resampled(offset)
<1>1. end \in Nat
  BY DEF Block, BleSampleRate
<1> HIDE DEF end
<1>2. CASE offset < end
  <2>1. n = (end - offset + Rate - 1) \div Rate
    BY <1>2 DEF Resampled, end
  <2>2. n \in Int /\ n * Rate <= end - offset + Rate - 1 /\ end - offset + Rate - 1 < (n + 1) * Rate
    BY <1>1, <2>1, Division
  <2> HIDE DEF n
  <2>3. n \in Nat
    BY <1>1, <1>2, <2>2
  <2>4. end <= offset + n * Rate /\ offset + n * Rate < end + Rate
    BY <1>1, <2>2, <2>3
  <2>5. ASSUME NEW k \in 0 .. n - 1 PROVE offset + k * Rate < end
    <3>1. k * Rate <= (n - 1) * Rate
      BY <2>3
    <3> QED
      BY <1>1, <2>3, <2>4, <3>1
  <2> QED
    BY <2>3, <2>4, <2>5 DEF end, n
<1>3. CASE ~(offset < end)
  <2>1. n = 0
    BY <1>3 DEF Resampled, end
  <2> QED
    BY <1>1, <1>3, <2>1 DEF end
<1> QED
  BY <1>2, <1>3

\* Only samples of the block are read (VoiceManager.ts:695-702).
THEOREM ReadsInside ==
  ASSUME NEW offset \in 0 .. Rate - 1, NEW k \in 0 .. Resampled(offset) - 1
  PROVE  ReadAt(offset, k) \subseteq 0 .. Block - 1
<1> DEFINE at == offset + k * Rate
           idx == at \div BleSampleRate
<1>1. at \in Nat /\ at < Block * BleSampleRate
  <2>1. at < Block * BleSampleRate /\ Resampled(offset) \in Nat
    BY ResampledBounds
  <2>2. k * Rate \in Nat
    BY <2>1, AudioAssumption
  <2> QED
    BY <2>1, <2>2, AudioAssumption
<1> HIDE DEF at
<1>2. idx \in Int /\ 0 <= idx /\ idx <= Block - 1
  BY <1>1 DEF Block, BleSampleRate
<1> QED
  BY <1>2 DEF ReadAt, at, Block

\* While the context is not slower than the bridge, a block keeps the chain as it
\* should be, the cap cuts nothing, and no sample is lost or made: what leaves in
\* frames and what is kept is exactly the time that was heard
\* (VoiceManager.ts:637-670, 688-704).
THEOREM NoDrift ==
  ASSUME NEW chain, ChainOK(chain), Rate >= BleSampleRate
  PROVE  LET next == OnAudioProcess(chain) IN
         /\ ChainOK(next)
         /\ Capped(Before(chain)) = Before(chain)
         /\ (Frames(chain) * BleFrameSamples + next.pending - chain.pending) * Rate
              = Block * BleSampleRate + next.offset - chain.offset
<1> USE AudioAssumption
<1> DEFINE n == Resampled(chain.offset)
           before == Before(chain)
           next == OnAudioProcess(chain)
<1>1. /\ n \in Nat
      /\ Block * BleSampleRate <= chain.offset + n * Rate
      /\ chain.offset + n * Rate < Block * BleSampleRate + Rate
  BY ResampledBounds DEF ChainOK
<1> HIDE DEF n
<1>2. next.offset = chain.offset + n * Rate - Block * BleSampleRate /\ next.offset \in 0 .. Rate - 1
  BY <1>1 DEF OnAudioProcess, ChainOK, n, Block, BleSampleRate
<1>3. n <= Block
  <2>1. SUFFICES ASSUME n >= Block + 1 PROVE FALSE
    BY <1>1 DEF Block
  <2>2. (Block + 1) * Rate <= n * Rate
    BY <1>1, <2>1 DEF Block
  <2>3. Block * BleSampleRate <= Block * Rate
    BY DEF Block, BleSampleRate
  <2> QED
    BY <1>1, <2>2, <2>3 DEF ChainOK, Block, BleSampleRate
<1>a. before = chain.pending + n
  BY DEF Before, n
<1>6. /\ Frames(chain) = Capped(before) \div BleFrameSamples
      /\ next.pending = Capped(before) % BleFrameSamples
  BY DEF Frames, OnAudioProcess
<1> HIDE DEF before
<1>4. before \in Nat /\ before <= 3200
  <2>1. chain.pending \in Nat /\ chain.pending < 320
    BY DEF ChainOK, BleFrameSamples
  <2>2. n \in Nat /\ n <= 1024
    BY <1>1, <1>3 DEF Block
  <2> QED
    BY <1>a, <2>1, <2>2
<1>5. Capped(before) = before
  BY <1>4 DEF Capped, BleFrameSamples
<1> HIDE DEF next
<1>7. /\ Frames(chain) \in Int
      /\ next.pending \in Nat /\ next.pending < BleFrameSamples
      /\ Frames(chain) * BleFrameSamples + next.pending = before
  <2>1. BleFrameSamples \in Nat \ {0}
    BY DEF BleFrameSamples
  <2> QED
    BY <1>4, <1>5, <1>6, <2>1, Division, Remainder
<1>8. (Frames(chain) * BleFrameSamples + next.pending - chain.pending) * Rate = n * Rate
  <2>1. chain.pending \in Int
    BY DEF ChainOK
  <2>2. before - chain.pending = n
    BY <1>1, <1>a, <2>1
  <2>3. Frames(chain) * BleFrameSamples + next.pending - chain.pending = n
    BY <1>7, <2>1, <2>2 DEF BleFrameSamples
  <2> QED
    BY <2>3
<1>9. n * Rate = Block * BleSampleRate + next.offset - chain.offset
  BY <1>1, <1>2 DEF ChainOK, Block, BleSampleRate
<1> QED
  BY <1>2, <1>5, <1>7, <1>8, <1>9 DEF ChainOK, before, next

=============================================================================
