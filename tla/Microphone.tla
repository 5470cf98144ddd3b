----------------------------- MODULE Microphone -----------------------------
(***************************************************************************)
(* Who opens the microphone of one browser, and who closes it: the push-   *)
(* to-talk key and the talk buttons, the noise gate, the mute button, the  *)
(* switch of the voice mode, joining and leaving a channel, the loss of    *)
(* the connection, and the level meter of the settings page.               *)
(*                                                                         *)
(* An action is an event with what React renders and cleans up after it.   *)
(* getUserMedia answers any time later, and what was asked for may have    *)
(* ended by then.  What joinChannel does after that answer is one step;    *)
(* VoiceCall has its connections to the peers.  The server is what it      *)
(* makes of this browser's voice messages, without delay.                  *)
(***************************************************************************)
EXTENDS Naturals, FiniteSets

CONSTANTS
  Channels,      \* voice channels of the room
  None,
  MaxRequests,   \* bound: calls of getUserMedia
  MaxLosses      \* bound: connections lost

\* The strip on the map has one, the bar of a conversation the other.
TalkButtons == {"strip", "bar"}

ASSUME MicrophoneAssumption ==
  None \notin Channels \cup Nat \cup TalkButtons /\ {MaxRequests, MaxLosses} \subseteq Nat

VARIABLES
  \* VoiceManager
  channel,       \* its channel while it is active
  callStream,    \* localStream: the request that brought it
  open,          \* the gain is up: what the microphone hears is sent
  gate,          \* the noise gate
  hush,          \* a timeout waits to announce the end of speech
  \* the store
  connected, activeVoice, localSpeaking,
  mode,          \* voiceMode
  \* the user
  key,           \* the key is held down
  speaking,      \* usePTT: the key opened the microphone
  button,        \* the talk button that is held down
  loud,          \* the microphone hears more than the threshold
  byHand,        \* only the key and the talk buttons have moved the gain, and
                 \* no button has gone while it was held
  \* the settings page
  page,          \* it is open
  formMode,      \* the mode in its form
  meterStream,   \* streamRef
  \* getUserMedia
  requests,      \* calls so far
  pending,       \* calls not answered
  captured,      \* streams that nobody has stopped
  late,          \* an answer came, or will come, too late
  losses,        \* connections lost so far
  \* the server
  joined,        \* channels this browser is in
  shown          \* channels where it is shown as speaking

manager == <<channel, callStream, open, gate, hush>>
store == <<connected, activeVoice, localSpeaking, mode>>
user == <<key, speaking, button, loud, byHand>>
settings == <<page, formMode, meterStream>>
media == <<requests, pending, captured, late, losses>>
server == <<joined, shown>>
vars == <<manager, store, user, settings, media, server>>

VoiceModes == {"ptt", "noise_gate", "auto"}
Gated(m) == m # "ptt"
Purposes == {"call", "meter"}
Request == [id : Nat, for : Purposes, channel : Channels \cup {None}]

\* alone: nobody else has moved the gain since the gate started; heard: and it
\* has moved the gain itself.
\* live: its analyser belongs to the present audio context; that of a closed
\* one repeats what it heard last.
GateStates == [on : BOOLEAN, was : BOOLEAN, heard : BOOLEAN, alone : BOOLEAN,
               live : BOOLEAN, last : BOOLEAN]
NoGate == [on |-> FALSE, was |-> FALSE, heard |-> FALSE, alone |-> FALSE,
           live |-> FALSE, last |-> FALSE]

Init ==
  /\ channel = None /\ callStream = None /\ open = FALSE /\ gate = NoGate /\ hush = FALSE
  /\ connected = TRUE /\ activeVoice = None /\ localSpeaking = FALSE /\ mode = "ptt"
  /\ key = FALSE /\ speaking = FALSE /\ button = None /\ loud = FALSE /\ byHand = TRUE
  /\ page = FALSE /\ formMode = "ptt" /\ meterStream = None
  /\ requests = 0 /\ pending = {} /\ captured = {} /\ late = FALSE /\ losses = 0
  /\ joined = {} /\ shown = {}

\* Ids are those of requests made, a call is for a channel, and the manager
\* and the meter have streams that were asked for them.
Streams ==
  /\ \A p \in pending \cup captured : p \in Request /\ p.id \in 1..requests
  /\ \A p, q \in pending \cup captured : p.id = q.id => p = q
  /\ \A p \in pending : p.for = "call" => p.channel \in Channels
  /\ callStream # None => \E p \in captured : p.id = callStream /\ p.for = "call"
  /\ meterStream # None => \E p \in captured : p.id = meterStream /\ p.for = "meter"

Values ==
  /\ channel \in Channels \cup {None} /\ activeVoice \in Channels \cup {None}
  /\ open \in BOOLEAN /\ hush \in BOOLEAN /\ gate \in GateStates
  /\ connected \in BOOLEAN /\ localSpeaking \in BOOLEAN
  /\ key \in BOOLEAN /\ speaking \in BOOLEAN /\ loud \in BOOLEAN /\ byHand \in BOOLEAN
  /\ button \in TalkButtons \cup {None}
  /\ page \in BOOLEAN /\ mode \in VoiceModes /\ formMode \in VoiceModes
  /\ requests \in 0..MaxRequests /\ losses \in 0..MaxLosses /\ late \in BOOLEAN
  /\ shown \subseteq joined /\ joined \subseteq Channels
  /\ speaking \/ button # None => activeVoice # None

\* One type invariant; only who is in a call is heard by key or button.
TypeOK == Values /\ Streams

-----------------------------------------------------------------------------
(* Building blocks *)

\* What voice_speaking makes of the server's view.
Told(s, c, talks) ==
  IF connected /\ c \in joined
  THEN IF talks THEN s \cup {c} ELSE s \ {c}
  ELSE s

Touched(g) == [g EXCEPT !.alone = FALSE, !.heard = FALSE]

\* setMuted by anybody but the gate; without a gain node there is none to move.
SetMuted(muted) ==
  open' = (~muted /\ channel # None) /\ gate' = Touched(gate)

\* The gate that startNoiseGate leaves, if there is a source.
Started(source) ==
  IF source THEN [NoGate EXCEPT !.on = TRUE, !.alone = TRUE, !.live = TRUE] ELSE NoGate

\* Mutant of Unkeyed: the effect only removes its listeners.
UnkeyedSilently(o, g) ==
  /\ speaking' = FALSE
  /\ open' = o /\ gate' = g
  /\ UNCHANGED <<localSpeaking, shown>>

\* The clean-up of usePTT's effect, after a handler that leaves gain o and
\* gate g: who is speaking by the key stops.
Unkeyed(o, g) ==
  /\ speaking' = FALSE
  /\ IF speaking
     THEN /\ open' = FALSE /\ gate' = Touched(g)
          /\ localSpeaking' = FALSE
          /\ shown' = Told(shown, activeVoice, FALSE)
     ELSE open' = o /\ gate' = g /\ UNCHANGED <<localSpeaking, shown>>

\* The channel in the list is the one of the call.
InThis(c) == activeVoice = c

\* The strip with the mute, hang-up and talk buttons is there.
CallControls == activeVoice # None

\* A talk button is released, or the pointer leaves one while the browser talks by
\* whatever means.
HeldOrLeft == button # None \/ localSpeaking

\* The button goes with what shows it, held or not.
Unseen == byHand' = (byHand /\ button = None)

Ask(purpose, c) == [id |-> requests + 1, for |-> purpose, channel |-> c]
Waiting(purpose) == \E p \in pending : p.for = purpose
Stopped(id) == {p \in captured : p.id # id}

-----------------------------------------------------------------------------
(* The call *)

\* The gate's interval outlives the call, with the analyser of a context
\* that is closed.
Orphaned(last) ==
  IF gate.on THEN [NoGate EXCEPT !.on = TRUE, !.was = gate.was, !.last = last] ELSE gate

\* Mutant of Cleanup: the tracks of the microphone go on.
CleanupKeeping ==
  /\ callStream' = None /\ UNCHANGED captured
  /\ open' = FALSE
  /\ \E last \in BOOLEAN : gate' = Orphaned(last)

Cleanup ==
  /\ callStream' = None /\ captured' = Stopped(callStream)
  /\ open' = FALSE
  /\ \E last \in BOOLEAN : gate' = Orphaned(last)

\* leave_voice for the channel of the manager.
Left(s) == IF connected THEN s \ {channel} ELSE s

JoinChannel(c) ==
  /\ connected /\ ~InThis(c)
  /\ requests < MaxRequests
  /\ Cleanup
  /\ joined' = Left(joined) /\ shown' = Left(shown)
  /\ channel' = c
  /\ requests' = requests + 1 /\ pending' = pending \cup {Ask("call", c)}
  /\ late' = (late \/ Waiting("call"))
  /\ UNCHANGED <<hush, store, user, settings, losses>>

\* The microphone is granted or not: without it, to listen only.  A manager
\* that was left in between keeps the stream, and joins all the same.
AudioReady(p, granted) ==
  /\ p \in pending /\ p.for = "call"
  /\ pending' = pending \ {p}
  /\ captured' = IF granted THEN captured \cup {p} ELSE captured
  /\ callStream' = IF granted THEN p.id ELSE callStream
  /\ joined' = IF connected THEN joined \cup {p.channel} ELSE joined
  /\ activeVoice' = p.channel
  /\ IF Gated(mode) /\ channel # None /\ callStream' # None
     THEN Unkeyed(TRUE, Started(TRUE))
     ELSE Unkeyed(open, gate)
  /\ UNCHANGED <<channel, hush, connected, mode, key, button, loud, byHand, settings,
                 requests, late, losses>>

\* Mutant of LeaveVoice: the server is not told.
LeaveSilently ==
  /\ CallControls
  /\ IF channel = None THEN UNCHANGED <<callStream, captured, open, gate, late>>
     ELSE Cleanup /\ late' = (late \/ Waiting("call"))
  /\ shown' = Told(shown, activeVoice, FALSE)
  /\ channel' = None /\ activeVoice' = None
  /\ speaking' = FALSE /\ localSpeaking' = (localSpeaking /\ ~speaking)
  /\ button' = None /\ Unseen
  /\ UNCHANGED <<hush, connected, mode, key, loud, settings, requests, pending,
                 losses, joined>>

LeaveVoice ==
  /\ CallControls
  /\ IF channel = None THEN UNCHANGED <<callStream, captured, open, gate, joined, late>>
     ELSE Cleanup /\ joined' = Left(joined) /\ late' = (late \/ Waiting("call"))
  /\ shown' = Told(Left(shown), activeVoice, FALSE)
  /\ channel' = None /\ activeVoice' = None
  /\ speaking' = FALSE /\ localSpeaking' = (localSpeaking /\ ~speaking)
  /\ button' = None /\ Unseen
  /\ UNCHANGED <<hush, connected, mode, key, loud, settings, requests, pending, losses>>

\* Mutant of ConnectionLost: the effect of usePTT is not cleaned up.
LostWhileSpeaking ==
  /\ connected /\ losses < MaxLosses
  /\ losses' = losses + 1
  /\ connected' = FALSE /\ activeVoice' = None /\ localSpeaking' = FALSE
  /\ joined' = {} /\ shown' = {}
  /\ button' = None /\ Unseen
  /\ late' = (late \/ Waiting("call"))
  /\ UNCHANGED <<channel, callStream, open, gate, hush, mode, key, speaking, loud,
                 settings, requests, pending, captured>>

\* onclose resets the store, and the talk buttons go; the manager goes on.
ConnectionLost ==
  /\ connected /\ losses < MaxLosses
  /\ losses' = losses + 1
  /\ connected' = FALSE /\ activeVoice' = None /\ localSpeaking' = FALSE
  /\ speaking' = FALSE
  /\ IF speaking THEN SetMuted(TRUE) ELSE UNCHANGED <<open, gate>>
  /\ joined' = {} /\ shown' = {}
  /\ button' = None /\ Unseen
  /\ late' = (late \/ Waiting("call"))
  /\ UNCHANGED <<channel, callStream, hush, mode, key, loud, settings, requests,
                 pending, captured>>

\* A new identity: the effect of usePTT is set up again.
Reconnected ==
  /\ ~connected
  /\ connected' = TRUE
  /\ Unkeyed(open, gate)
  /\ UNCHANGED <<channel, callStream, hush, activeVoice, mode, key, button, loud,
                 byHand, settings, media, joined>>

-----------------------------------------------------------------------------
(* Push to talk *)

\* Without a call, or in a field, the key only types.
KeyDown ==
  /\ ~key /\ key' = TRUE
  /\ activeVoice # None /\ ~speaking
  /\ speaking' = TRUE /\ SetMuted(FALSE)
  /\ localSpeaking' = TRUE /\ shown' = Told(shown, activeVoice, TRUE)
  /\ UNCHANGED <<channel, callStream, hush, connected, activeVoice, mode, button,
                 loud, byHand, settings, media, joined>>

KeyUp ==
  /\ key /\ key' = FALSE
  /\ Unkeyed(open, gate)
  /\ UNCHANGED <<channel, callStream, hush, connected, activeVoice, mode, button,
                 loud, byHand, settings, media, joined>>

\* Another key is bound, and the held one repeats, which starts nothing.
SetPttKey ==
  /\ page
  /\ Unkeyed(open, gate)
  /\ UNCHANGED <<channel, callStream, hush, connected, activeVoice, mode, key, button,
                 loud, byHand, settings, media, joined>>

TalkStart(w) ==
  /\ button = None /\ CallControls
  /\ button' = w
  /\ IF channel # None THEN SetMuted(FALSE) ELSE UNCHANGED <<open, gate>>
  /\ localSpeaking' = TRUE /\ shown' = Told(shown, activeVoice, TRUE)
  /\ UNCHANGED <<channel, callStream, hush, connected, activeVoice, mode, key,
                 speaking, loud, byHand, settings, media, joined>>

TalkEnd ==
  /\ CallControls /\ HeldOrLeft
  /\ button' = None
  /\ IF channel # None THEN SetMuted(TRUE) ELSE UNCHANGED <<open, gate>>
  /\ localSpeaking' = FALSE /\ shown' = Told(shown, activeVoice, FALSE)
  /\ UNCHANGED <<channel, callStream, hush, connected, activeVoice, mode, key,
                 speaking, loud, byHand, settings, media, joined>>

\* The bar of a chat goes with the conversation, and nobody sees the release.
BarGone ==
  /\ button = "bar" /\ button' = None /\ Unseen
  /\ UNCHANGED <<manager, store, key, speaking, loud, settings, media, server>>

ToggleMute(muted) ==
  /\ CallControls
  /\ byHand' = FALSE
  /\ SetMuted(muted)
  /\ UNCHANGED <<channel, callStream, hush, store, key, speaking, button, loud,
                 settings, media, server>>

-----------------------------------------------------------------------------
(* The noise gate *)

\* What it hears matters to a gate only.
Speech ==
  /\ gate.live /\ loud' = ~loud
  /\ UNCHANGED <<manager, store, key, speaking, button, byHand, settings, media, server>>

Heard == IF gate.live THEN loud ELSE gate.last

\* Mutant of GateTick: what it heard before is not kept.
GateTickForgetting ==
  /\ gate.on /\ channel # None /\ Heard # gate.was
  /\ open' = Heard
  /\ gate' = [gate EXCEPT !.heard = gate.alone]
  /\ hush' = (hush \/ ~Heard)
  /\ shown' = IF Heard THEN Told(shown, channel, TRUE) ELSE shown
  /\ UNCHANGED <<channel, callStream, store, user, settings, media, joined>>

\* Every 20 ms: the end of speech is announced a little later.
GateTick ==
  /\ gate.on /\ channel # None /\ Heard # gate.was
  /\ open' = Heard
  /\ gate' = [gate EXCEPT !.was = Heard, !.heard = gate.alone]
  /\ hush' = (hush \/ ~Heard)
  /\ shown' = IF Heard THEN Told(shown, channel, TRUE) ELSE shown
  /\ UNCHANGED <<channel, callStream, store, user, settings, media, joined>>

Hush ==
  /\ hush /\ hush' = FALSE
  /\ shown' = IF gate.on /\ ~Heard THEN Told(shown, channel, FALSE) ELSE shown
  /\ UNCHANGED <<channel, callStream, open, gate, store, user, settings, media, joined>>

NextMode == CASE mode = "ptt" -> "noise_gate" [] mode = "noise_gate" -> "auto" [] OTHER -> "ptt"

\* The button of the voice bar: stopNoiseGate opens the microphone, and the
\* new mode begins.
CycleMode ==
  /\ activeVoice # None
  /\ mode' = NextMode /\ byHand' = FALSE
  /\ IF channel = None THEN UNCHANGED <<open, gate>>
     ELSE /\ open' = Gated(mode')
          /\ gate' = Started(Gated(mode') /\ callStream # None)
  /\ UNCHANGED <<channel, callStream, hush, connected, activeVoice, localSpeaking,
                 key, speaking, button, loud, settings, media, server>>

-----------------------------------------------------------------------------
(* The settings page and its meter *)

StopMeter ==
  /\ meterStream' = None /\ captured' = Stopped(meterStream)
  /\ late' = (late \/ Waiting("meter"))

\* The effect of the form's mode and threshold: stop, and start for a gate.
Monitor(m) ==
  /\ StopMeter
  /\ IF Gated(m)
     THEN /\ requests < MaxRequests
          /\ requests' = requests + 1 /\ pending' = pending \cup {Ask("meter", None)}
     ELSE UNCHANGED <<requests, pending>>

\* Mounting also opens a stream to learn the names of the devices; nobody
\* keeps or stops it, and it is left out.
OpenSettings ==
  /\ ~page /\ page' = TRUE /\ formMode' = mode
  /\ Monitor(mode)
  /\ UNCHANGED <<manager, store, user, losses, server>>

\* Another mode, or another threshold.
ChangeForm(m) ==
  /\ page /\ (m # formMode \/ Gated(m))
  /\ formMode' = m
  /\ Monitor(m)
  /\ UNCHANGED <<manager, store, user, page, losses, server>>

\* To the store; a call does not hear of it.
SaveSettings ==
  /\ page /\ mode' = formMode /\ byHand' = FALSE
  /\ UNCHANGED <<manager, connected, activeVoice, localSpeaking, key, speaking,
                 button, loud, settings, media, server>>

\* The form goes with the page.
CloseSettings ==
  /\ page /\ page' = FALSE /\ formMode' = "ptt"
  /\ StopMeter
  /\ UNCHANGED <<manager, store, user, requests, pending, losses, server>>

\* The answer to the meter.
StreamReady(p, granted) ==
  /\ p \in pending /\ p.for = "meter"
  /\ pending' = pending \ {p}
  /\ captured' = IF granted THEN captured \cup {p} ELSE captured
  /\ meterStream' = IF granted THEN p.id ELSE meterStream
  /\ UNCHANGED <<manager, store, user, page, formMode, requests, late, losses, server>>

-----------------------------------------------------------------------------

Call ==
  \/ \E c \in Channels : JoinChannel(c)
  \/ LeaveVoice \/ ConnectionLost \/ Reconnected

Talk ==
  \/ \E w \in TalkButtons : TalkStart(w)
  \/ \E muted \in BOOLEAN : ToggleMute(muted)
  \/ KeyDown \/ KeyUp \/ SetPttKey \/ TalkEnd \/ BarGone

Gate == Speech \/ GateTick \/ Hush \/ CycleMode

Settings ==
  \/ OpenSettings \/ SaveSettings \/ CloseSettings
  \/ \E m \in VoiceModes : ChangeForm(m)

Media == \E p \in pending, granted \in BOOLEAN : AudioReady(p, granted) \/ StreamReady(p, granted)

Next == Call \/ Talk \/ Gate \/ Settings \/ Media

Spec == Init /\ [][Next]_vars

\* The gate's interval goes on.
FairSpec == Spec /\ WF_vars(GateTick)

-----------------------------------------------------------------------------
(* Properties *)

OnAir == open /\ callStream # None

\* Push to talk: while nobody has touched the mute button or another mode, the
\* microphone is open, and this browser is shown as speaking, only while the
\* key or a button is held.  The gain, the flag and the listeners are moved by
\* usePTT's effect, the handlers of App and the manager, around joins, losses
\* and a changed key.  A button that disappears under the finger is excepted,
\* and a late join moves the call away from what others see.
Transmits == OnAir \/ localSpeaking \/ (~late /\ shown # {})
HoldToTalk == byHand /\ Transmits => (key /\ speaking) \/ button # None

\* While every microphone answers before the user goes on, the server has this
\* browser in the manager's channel only, and what the store shows as the call
\* is that channel.
CallAgrees ==
  ~late =>
    /\ joined \subseteq {channel}
    /\ activeVoice # None /\ ~Waiting("call") =>
         channel = activeVoice /\ joined = {channel}

\* With answers in time, a stream that was opened for a call or the meter is
\* stopped when the call, or what shows the meter, ends.
MicReleased ==
  ~late => \A p \in captured :
    \/ p.for = "call" /\ p.id = callStream /\ channel # None
    \/ p.for = "meter" /\ p.id = meterStream /\ page /\ Gated(formMode)

GateAlone == gate.on /\ gate.live /\ gate.alone /\ channel # None

\* The gate opens for speech, and closes in silence once it has heard some,
\* while nothing else moves the gain (startNoiseGate).
GateFollows ==
  /\ <>[](GateAlone /\ loud) => <>[]open
  /\ <>[](GateAlone /\ gate.heard /\ ~loud) => <>[]~open

=============================================================================
