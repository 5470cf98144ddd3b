----------------------------- MODULE VoiceCall -----------------------------
(***************************************************************************)
(* A voice channel between browsers: VoiceManager of the web client, the   *)
(* voice part of its WebSocket hook, and the server's signaling.  The one  *)
(* who joins offers a connection to each member it was shown when it       *)
(* clicked; the others wait for offers.                                    *)
(*                                                                         *)
(* A browser runs one piece of JavaScript at a time, from one await to the *)
(* next, and handles messages in between.  createOffer with                *)
(* setLocalDescription is one await here, and so are the three awaits of   *)
(* an answer: all that can come between them is the connection closing,    *)
(* after which any of them fails alike.  The server handles a message in   *)
(* the step that sends it, and a browser gets what the server sent any     *)
(* time later: a delay on the way up would look the same, as if the        *)
(* browser had done later what it did since its last message.  BleRelay    *)
(* has the interleavings of the server's handlers.  Users wait until a     *)
(* join is done before they click again, connections to the server do not  *)
(* break, and phones whose voice goes over BLE are left out.               *)
(***************************************************************************)
EXTENDS Naturals, Sequences, FiniteSets

CONSTANTS
  Browsers,
  Gatherers,  \* bound: browsers whose connections find a candidate
  MaxJoins    \* bound: how often each browser joins

ASSUME VoiceCallAssumption ==
  Gatherers \subseteq Browsers /\ MaxJoins \in [Browsers -> Nat]

None == <<"none", 0>>

\* Awaits of a join, besides that of an offer.
Idle == <<"idle", 0>>
Audio == <<"audio", 0>>

VARIABLES
  channel,     \* vc.Members at the server
  down,        \* what a WebSocket brings
  members,     \* voiceState: who is shown in the channel
  active,      \* VoiceManager.active
  shown,       \* activeVoice: the user is shown as in the call
  joins,       \* joinChannel calls so far
  saw,         \* everybody in the existingMembers of one of them
  stage,       \* the await it is in: Idle, Audio, or the connection it offers
  targets,     \* existingMembers it has not reached
  pc,          \* RTCPeerConnections: <<browser, n>> is the n-th of a browser
  peers,       \* VoiceManager.peers
  applying,    \* handleOffer and handleAnswer calls: connection, remote one
  pendingIce   \* candidates that wait for a remote description

callVars == <<active, shown>>
joinVars == <<joins, saw, stage, targets>>
rtcVars == <<pc, peers, applying, pendingIce>>
vars == <<channel, down, members, callVars, joinVars, rtcVars>>

\* Connections, and what a WebSocket brings.
Ends == Browsers \X (Nat \ {0})
Connections == [peer : Browsers, open : BOOLEAN, local : BOOLEAN, remote : Ends \cup {None},
                gathered : BOOLEAN, ice : SUBSET Ends]
Notes == [type : {"voice_state", "voice_peer_joined", "voice_peer_left",
                  "voice_offer", "voice_answer", "voice_ice"},
          from : Browsers, pc : Ends \cup {None}, who : SUBSET Browsers]

\* A description and a candidate stand for the connection they come from.
Init ==
  /\ channel = {}
  /\ down = [b \in Browsers |-> <<>>]
  /\ members = [b \in Browsers |-> {}]
  /\ active = [b \in Browsers |-> FALSE] /\ shown = [b \in Browsers |-> FALSE]
  /\ joins = [b \in Browsers |-> 0] /\ saw = [b \in Browsers |-> {}]
  /\ stage = [b \in Browsers |-> Idle]
  /\ targets = [b \in Browsers |-> {}]
  /\ pc = <<>> /\ applying = {}
  /\ peers = [b \in Browsers |-> [q \in Browsers |-> None]]
  /\ pendingIce = [b \in Browsers |-> [q \in Browsers |-> {}]]

Fresh(b) == <<b, Cardinality({x \in DOMAIN pc : x[1] = b}) + 1>>

New == [peer |-> None, open |-> TRUE, local |-> FALSE, remote |-> None,
        gathered |-> FALSE, ice |-> {}]
Closed(c) == [New EXCEPT !.peer = c.peer, !.open = FALSE]

\* cs with a new connection of b to q.
WithNew(cs, b, q) ==
  [x \in DOMAIN cs \cup {Fresh(b)} |->
     IF x \in DOMAIN cs THEN cs[x]
     ELSE [New EXCEPT !.peer = q]]

-----------------------------------------------------------------------------
(* The server *)

Note(type, from, x, who) == [type |-> type, from |-> from, pc |-> x, who |-> who]

\* The note to those in the channel, and broadcastVoiceState to everybody.
Announce(type, b) ==
  down' = [q \in Browsers |->
             Append(down[q], Note(IF q \in channel' \ {b} THEN type ELSE "voice_state",
                                  b, None, channel'))]

JoinVoice(b) ==
  /\ channel' = channel \cup {b}
  /\ Announce("voice_peer_joined", b)

LeaveVoice(b) ==
  /\ channel' = channel \ {b}
  /\ IF b \in channel THEN Announce("voice_peer_left", b) ELSE UNCHANGED down

\* RelayVoiceOffer, RelayVoiceAnswer and RelayVoiceIce
RelayVoice(b, type, to, x) ==
  /\ down' = IF {b, to} \subseteq channel
               THEN [down EXCEPT ![to] = Append(@, Note(type, b, x, {}))] ELSE down
  /\ UNCHANGED channel

-----------------------------------------------------------------------------
(* joinChannel and leaveChannel *)

Join(b) ==
  /\ stage[b] = Idle /\ ~shown[b] /\ joins[b] < MaxJoins[b]
  /\ joins' = [joins EXCEPT ![b] = @ + 1]
  /\ saw' = [saw EXCEPT ![b] = @ \cup members[b]]
  /\ targets' = [targets EXCEPT ![b] = members[b]]
  /\ stage' = [stage EXCEPT ![b] = Audio]
  /\ active' = [active EXCEPT ![b] = TRUE]
  /\ UNCHANGED <<channel, down, members, shown, rtcVars>>

\* Mutant of NextMember: the connection is recorded only when it is answered.
OfferUnrecorded(b, cs) ==
  \/ \E q \in targets[b] :
       /\ targets' = [targets EXCEPT ![b] = @ \ {q}]
       /\ pc' = WithNew(cs, b, q)
       /\ stage' = [stage EXCEPT ![b] = Fresh(b)]
       /\ UNCHANGED <<shown, peers>>
  \/ /\ targets[b] = {}
     /\ pc' = cs
     /\ stage' = [stage EXCEPT ![b] = Idle]
     /\ shown' = [shown EXCEPT ![b] = TRUE]
     /\ UNCHANGED <<targets, peers>>

\* The next turn of the loop over existingMembers, or what follows the loop;
\* cs are the connections so far.
NextMember(b, cs) ==
  \/ \E q \in targets[b] :
       /\ targets' = [targets EXCEPT ![b] = @ \ {q}]
       /\ pc' = WithNew(cs, b, q)
       /\ peers' = [peers EXCEPT ![b][q] = Fresh(b)]
       /\ stage' = [stage EXCEPT ![b] = Fresh(b)]
       /\ UNCHANGED shown
  \/ /\ targets[b] = {}
     /\ pc' = cs
     /\ stage' = [stage EXCEPT ![b] = Idle]
     /\ shown' = [shown EXCEPT ![b] = TRUE]
     /\ UNCHANGED <<targets, peers>>

\* The microphone is there, or is refused and the user only listens.
AudioReady(b) ==
  /\ stage[b] = Audio
  /\ JoinVoice(b)
  /\ NextMember(b, pc)
  /\ UNCHANGED <<members, active, joins, saw, applying, pendingIce>>

\* setLocalDescription is through; on a closed connection it fails, and the
\* loop goes on.
OfferReady(b) ==
  LET x == stage[b]
  IN  /\ x \in DOMAIN pc
      /\ IF pc[x].open
           THEN /\ RelayVoice(b, "voice_offer", pc[x].peer, x)
                /\ NextMember(b, [pc EXCEPT ![x].local = TRUE])
           ELSE /\ NextMember(b, pc)
                /\ UNCHANGED <<channel, down>>
      /\ UNCHANGED <<members, active, joins, saw, applying, pendingIce>>

\* Mutant of CloseAll: the map is emptied, the connections stay.
CloseNone(b) == pc

\* cleanup: only the connections in peers are closed.
CloseAll(b) ==
  [x \in DOMAIN pc |->
     IF \E q \in Browsers : peers[b][q] = x THEN Closed(pc[x]) ELSE pc[x]]

\* Mutant of Leave: leaveVoice forgets clearActiveVoice.
LeaveStillShown(b) ==
  /\ stage[b] = Idle /\ shown[b]
  /\ LeaveVoice(b)
  /\ pc' = CloseAll(b)
  /\ peers' = [peers EXCEPT ![b] = [q \in Browsers |-> None]]
  /\ pendingIce' = [pendingIce EXCEPT ![b] = [q \in Browsers |-> {}]]
  /\ active' = [active EXCEPT ![b] = FALSE]
  /\ UNCHANGED <<shown, members, joinVars, applying>>

Leave(b) ==
  /\ stage[b] = Idle /\ shown[b]
  /\ LeaveVoice(b)
  /\ pc' = CloseAll(b)
  /\ peers' = [peers EXCEPT ![b] = [q \in Browsers |-> None]]
  /\ pendingIce' = [pendingIce EXCEPT ![b] = [q \in Browsers |-> {}]]
  /\ active' = [active EXCEPT ![b] = FALSE]
  /\ shown' = [shown EXCEPT ![b] = FALSE]
  /\ UNCHANGED <<members, joinVars, applying>>

-----------------------------------------------------------------------------
(* Messages from the server *)

\* A note and the voice_state that follows it are received as one: what the
\* note does to the list shown is overwritten at once.
VoiceState(b, m) ==
  /\ m.type \in {"voice_state", "voice_peer_joined"}
  /\ members' = [members EXCEPT ![b] = m.who]
  /\ UNCHANGED <<active, rtcVars>>

HandlePeerLeft(b, m) ==
  LET x == peers[b][m.from]
  IN  /\ m.type = "voice_peer_left"
      /\ members' = [members EXCEPT ![b] = m.who]
      /\ pc' = IF x = None THEN pc ELSE [pc EXCEPT ![x] = Closed(@)]
      /\ peers' = [peers EXCEPT ![b][m.from] = None]
      /\ pendingIce' = [pendingIce EXCEPT ![b][m.from] = {}]
      /\ UNCHANGED <<active, applying>>

\* The connection an offer is answered with replaces the one in peers, which
\* stays open.
HandleOffer(b, m) ==
  /\ m.type = "voice_offer"
  /\ IF active[b]
       THEN /\ pc' = WithNew(pc, b, m.from)
            /\ peers' = [peers EXCEPT ![b][m.from] = Fresh(b)]
            /\ applying' = applying \cup {[pc |-> Fresh(b), sdp |-> "offer", of |-> m.pc]}
       ELSE UNCHANGED <<pc, peers, applying>>
  /\ UNCHANGED <<active, members, pendingIce>>

HandleAnswer(b, m) ==
  /\ m.type = "voice_answer"
  /\ applying' = IF peers[b][m.from] = None THEN applying
                 ELSE applying \cup {[pc |-> peers[b][m.from], sdp |-> "answer", of |-> m.pc]}
  /\ UNCHANGED <<active, members, pc, peers, pendingIce>>

HandleIce(b, m) ==
  LET x == peers[b][m.from]
  IN  /\ m.type = "voice_ice"
      /\ IF x = None \/ pc[x].remote = None
           THEN /\ pendingIce' = [pendingIce EXCEPT ![b][m.from] = @ \cup {m.pc}]
                /\ UNCHANGED pc
           ELSE /\ pc' = [pc EXCEPT ![x].ice = @ \cup {m.pc}]
                /\ UNCHANGED pendingIce
      /\ UNCHANGED <<active, members, peers, applying>>

Receive(b) ==
  /\ down[b] # <<>>
  /\ LET m == Head(down[b])
     IN  \/ VoiceState(b, m) \/ HandlePeerLeft(b, m)
         \/ HandleOffer(b, m) \/ HandleAnswer(b, m) \/ HandleIce(b, m)
  /\ down' = [down EXCEPT ![b] = Tail(@)]
  /\ UNCHANGED <<channel, shown, joinVars>>

-----------------------------------------------------------------------------
(* What goes on in a connection *)

\* Mutant of Flushed: the candidates that waited are thrown away.
NothingFlushed(x) == {}

\* flushPendingIce
Flushed(x) == pendingIce[x[1]][pc[x].peer]

\* y's description is set; who had none of its own now has the answer.
SetRemote(x, y) ==
  /\ pc' = [pc EXCEPT ![x].remote = y, ![x].ice = @ \cup Flushed(x),
                      ![x].local = TRUE]
  /\ pendingIce' = [pendingIce EXCEPT ![x[1]][pc[x].peer] = {}]

\* The awaits of handleOffer and handleAnswer.  A description that does not
\* fit the state of the connection is rejected.
Described(d) ==
  /\ applying' = applying \ {d}
  /\ LET x == d.pc
         fits == /\ pc[x].open /\ pc[x].remote = None
                 /\ pc[x].local <=> d.sdp = "answer"
     IN  /\ IF fits THEN SetRemote(x, d.of) ELSE UNCHANGED <<pc, pendingIce>>
         /\ IF fits /\ d.sdp = "offer"
              THEN RelayVoice(x[1], "voice_answer", pc[x].peer, x)
              ELSE UNCHANGED <<channel, down>>
  /\ UNCHANGED <<members, callVars, joinVars, peers>>

\* onicecandidate.  Who is not active sends no room id, and the server drops it.
Gathers(x) == x[1] \in Gatherers /\ pc[x].open /\ pc[x].local /\ ~pc[x].gathered

OnIceCandidate(x) ==
  /\ Gathers(x)
  /\ pc' = [pc EXCEPT ![x].gathered = TRUE]
  /\ IF active[x[1]] THEN RelayVoice(x[1], "voice_ice", pc[x].peer, x)
                     ELSE UNCHANGED <<channel, down>>
  /\ UNCHANGED <<members, callVars, joinVars, peers, applying, pendingIce>>

\* onconnectionstatechange: the other end is closed, or belongs to another
\* connection.  The entry in peers is removed, whichever connection it holds.
Fails(x) ==
  LET y == pc[x].remote
  IN  pc[x].open /\ y # None /\ (~pc[y].open \/ pc[y].remote \notin {None, x})

OnFailed(x) ==
  /\ Fails(x)
  /\ pc' = [pc EXCEPT ![x] = Closed(@)]
  /\ peers' = [peers EXCEPT ![x[1]][pc[x].peer] = None]
  /\ UNCHANGED <<channel, down, members, callVars, joinVars, applying, pendingIce>>

Next ==
  \/ \E b \in Browsers : Join(b) \/ AudioReady(b) \/ OfferReady(b) \/ Leave(b) \/ Receive(b)
  \/ \E d \in applying : Described(d)
  \/ \E x \in DOMAIN pc : OnIceCandidate(x) \/ OnFailed(x)

Spec == Init /\ [][Next]_vars

-----------------------------------------------------------------------------
(* Properties *)

\* Every variable has its type; peers holds open connections of that browser
\* to that peer, the await of a join is for one of its own, and descriptions,
\* under way or being set, are of connections that were made.
TypeOK ==
  /\ channel \subseteq Browsers
  /\ down \in [Browsers -> Seq(Notes)]
  /\ members \in [Browsers -> SUBSET Browsers]
  /\ saw \in [Browsers -> SUBSET Browsers] /\ targets \in [Browsers -> SUBSET Browsers]
  /\ active \in [Browsers -> BOOLEAN] /\ shown \in [Browsers -> BOOLEAN]
  /\ stage \in [Browsers -> Ends \cup {Idle, Audio}]
  /\ DOMAIN pc \subseteq Ends /\ \A x \in DOMAIN pc : pc[x] \in Connections
  /\ peers \in [Browsers -> [Browsers -> Ends \cup {None}]]
  /\ pendingIce \in [Browsers -> [Browsers -> SUBSET Ends]]
  /\ applying \subseteq [pc : DOMAIN pc, sdp : {"offer", "answer"}, of : DOMAIN pc]
  /\ joins \in [Browsers -> Nat]
  /\ \A b \in Browsers :
       /\ joins[b] <= MaxJoins[b]
       /\ stage[b] \in {Idle, Audio} \/ (stage[b] \in DOMAIN pc /\ stage[b][1] = b)
       /\ shown[b] => active[b]
       /\ \A q \in Browsers :
            LET x == peers[b][q]
            IN  x # None => x \in DOMAIN pc /\ x[1] = b /\ pc[x].peer = q /\ pc[x].open

\* Both ends hold each other's description: audio can flow.
Connected(x, y) ==
  /\ {x, y} \subseteq DOMAIN pc
  /\ pc[x].open /\ pc[y].open /\ pc[x].remote = y /\ pc[y].remote = x

InCall(n, e) == Connected(peers[n][e], peers[e][n])

\* Nothing is under way.
Quiet ==
  /\ \A b \in Browsers : down[b] = <<>> /\ stage[b] = Idle
  /\ applying = {}
  /\ \A x \in DOMAIN pc : ~Gathers(x) /\ ~Fails(x)

\* Each was shown the other when it clicked: both offer.
Glare(n, e) == e \in saw[n] /\ n \in saw[e]

\* The browser of x is in the call and will close x when it leaves.
Held(x, q) == active[x[1]] /\ peers[x[1]][q] = x

\* Audio flows only over connections that leaving the call will close, unless
\* both sides offered: replacing an entry of peers, a late offer or answer and a
\* quick return orphan connections, but none that is connected.  Between two who
\* have both returned this holds of the one who offered only: when an earlier
\* connection of the other one fails at last, the entry that
\* onconnectionstatechange removes is that of the present one
\* (web/src/voice/VoiceManager.ts:341-361).
AudioOnlyInCall ==
  \A x \in DOMAIN pc, y \in DOMAIN pc :
    (Connected(x, y) /\ x[1] \notin saw[y[1]]) =>
      /\ Held(x, y[1])
      /\ 1 \in {joins[x[1]], joins[y[1]]} => Held(y, x[1])

\* Candidates that come before the description they belong to, or while it is
\* being set, are kept: a connection ends up with all the other end found.  Those
\* of the one who offered may be lost between two who have both returned, again
\* because the entry of an earlier connection is that of the present one: its
\* failure leaves the present one without an entry, and candidates that come
\* then wait for a description that is there already.
CandidatesArrive ==
  Quiet => \A x \in DOMAIN pc, y \in DOMAIN pc :
             (/\ Connected(x, y) /\ ~Glare(x[1], y[1]) /\ y[1] \in Gatherers
              /\ x[1] \notin saw[y[1]] \/ 1 \in {joins[x[1]], joins[y[1]]}) => y \in pc[x].ice

\* A newcomer ends up connected to each member it was shown that is still
\* there, whoever else joins, leaves and returns meanwhile.  For who returns it
\* may fail: the answer to an offer of the first visit is taken for an answer
\* to the one of the second.
NewcomerConnects ==
  Quiet => \A n \in channel : \A e \in channel \ {n} :
             (joins[n] = 1 /\ joins[e] = 1 /\ e \in saw[n]) => InCall(n, e)

\* README.md:177 "Peers connect directly via WebRTC": people in one channel
\* are connected in pairs once everything is delivered.
MembersConnected ==
  Quiet => \A n \in channel : \A e \in channel \ {n} : InCall(n, e)
=============================================================================
