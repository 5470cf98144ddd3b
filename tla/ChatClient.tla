----------------------------- MODULE ChatClient -----------------------------
(***************************************************************************)
(* One browser and its session with the server: the WebSocket and its      *)
(* reconnection, the store of rooms and messages, the list of rooms and    *)
(* the conversation on screen with its composer.                           *)
(*                                                                         *)
(* JavaScript runs one handler at a time, and React has rendered and run   *)
(* the effects of a change before the next event: an action is an event    *)
(* with all that follows from it.  The server is what the browser sees of  *)
(* it: each connection is a new identity, and others post and open direct  *)
(* messages.  It serves a request in the step that sends it, and what it   *)
(* answers arrives any time later: a delay on the way up would look the    *)
(* same.  Once a connection has broken, the browser takes it for open for  *)
(* a while, and what it sends is lost.  RoomLog has the concurrency of the *)
(* server's handlers, and what edits, pins and reactions make of a         *)
(* message: here they only refer to one.                                   *)
(***************************************************************************)
EXTENDS Naturals, Sequences, FiniteSets

CONSTANTS
  Public,       \* rooms that join_room opens
  DMs,          \* ids of rooms for direct messages
  General,      \* the room of a browser that has none
  None,
  MaxConns,     \* bound: connections the server accepts
  MaxPosts,     \* bound: messages written, by the user and by others
  MaxAnswers    \* bound: answers under way when the user asks for more

ASSUME ChatClientAssumption ==
  /\ General \in Public /\ Public \cap DMs = {}
  /\ None \notin Public \cup DMs \cup Nat /\ IsFiniteSet(Public \cup DMs)
  /\ MaxConns \in Nat /\ MaxPosts \in Nat /\ MaxAnswers \in Nat

VARIABLES
  ws,            \* readyState of wsRef.current, "none" without one
  connected,     \* the store's flag
  timer,         \* reconnectTimer runs
  alive,         \* what an open socket sends reaches the server
  conn,          \* connections accepted so far: the latest identity
  down,          \* what the connection brings
  userId,        \* the identity the store knows
  named,         \* displayName is set
  rooms,         \* the store's rooms
  activeRoomId,
  contextStack,
  available,     \* availableRooms
  composer,      \* ChatView and MessageInput; Empty while not mounted
  member,        \* server: rooms of the present connection
  log,           \* server: messages of each room
  dmOwner,       \* server: whose direct messages a room is, 0: not made yet
  uncast,        \* server: posts in a log but not broadcast yet
  posts,         \* messages written so far
  submitted,     \* messages the user sent: where and when
  referred       \* what replies and edits referred to: room and message

linkVars == <<ws, connected, timer, alive, conn>>
viewVars == <<activeRoomId, contextStack, composer>>
serverVars == <<member, log, dmOwner, uncast>>
history == <<posts, submitted, referred>>
vars == <<linkVars, down, userId, named, rooms, viewVars, available,
          serverVars, history>>

Rooms == Public \cup DMs
Message(n, sender) == [id |-> n, sender |-> sender, deleted |-> FALSE]

Empty == [text |-> None, replyTo |-> None, editing |-> None]

Init ==
  /\ ws = "connecting" /\ connected = FALSE /\ timer = FALSE /\ alive = FALSE
  /\ conn = 0 /\ down = <<>>
  /\ userId = None /\ named = FALSE
  /\ rooms = <<>> /\ activeRoomId = None /\ contextStack = <<None>>
  /\ available = {} /\ composer = Empty
  /\ member = {} /\ log = [r \in Rooms |-> {}]
  /\ dmOwner = [d \in DMs |-> 0] /\ uncast = {}
  /\ posts = 0 /\ submitted = {} /\ referred = {}

-----------------------------------------------------------------------------
(* The store.  contextStack holds None for the list, a room for its chat.  *)

Shown == DOMAIN rooms
Route == contextStack[Len(contextStack)]
Mounted == Route # None     \* the chat is on screen, not the list
Header == Route             \* the name above it

\* Mutant of WithRoom: addRoom makes the room anew, as of the list.
WithRoomAnew(r, isDM) ==
  [x \in Shown \cup {r} |->
     IF x = r THEN [isDM |-> FALSE, unread |-> 0, messages |-> {}] ELSE rooms[x]]

\* addRoom and addDMRoom: an entry that exists keeps its isDM.
WithRoom(r, isDM) ==
  [x \in Shown \cup {r} |->
     IF x \in Shown THEN rooms[x]
     ELSE [isDM |-> isDM, unread |-> 0, messages |-> {}]]

\* Mutant of Activate: reply and edit stay.
ActivateKeeping(rs, r) ==
  /\ rooms' = [x \in DOMAIN rs |-> IF x = r THEN [rs[x] EXCEPT !.unread = 0] ELSE rs[x]]
  /\ activeRoomId' = r
  /\ UNCHANGED composer

\* setActiveRoom, and the effect by which ChatView drops reply and edit.
Activate(rs, r) ==
  /\ rooms' = [x \in DOMAIN rs |-> IF x = r THEN [rs[x] EXCEPT !.unread = 0] ELSE rs[x]]
  /\ activeRoomId' = r
  /\ composer' = IF r = activeRoomId THEN composer
                 ELSE [composer EXCEPT !.replyTo = None, !.editing = None]

\* mergeMessages: what comes in replaces what has its id, and a flag that
\* the server leaves out stays.
Merged(old, new) ==
  {[n EXCEPT !.deleted = @ \/ \E m \in old : m.id = n.id /\ m.deleted] : n \in new}
    \cup {m \in old : \A n \in new : n.id # m.id}

SetRoomHistory(r, ms) ==
  rooms' = [x \in Shown |->
              IF x = r THEN [rooms[x] EXCEPT !.messages = Merged(@, ms)] ELSE rooms[x]]

\* Mutant of AddMessage: the user's own messages count.
AddMessageOwn(r, m) ==
  LET quiet == r = activeRoomId \/ (r \in Shown /\ \E old \in rooms[r].messages : old.id = m.id)
  IN  rooms' = [x \in Shown |->
                  IF x # r THEN rooms[x]
                  ELSE [rooms[x] EXCEPT !.messages = Merged(@, {m}),
                          !.unread = IF quiet THEN @ ELSE @ + 1]]

AddMessage(r, m) ==
  LET quiet == \/ r = activeRoomId \/ m.sender = userId
               \/ r \in Shown /\ \E old \in rooms[r].messages : old.id = m.id
  IN  rooms' = [x \in Shown |->
                  IF x # r THEN rooms[x]
                  ELSE [rooms[x] EXCEPT !.messages = Merged(@, {m}),
                          !.unread = IF quiet THEN @ ELSE @ + 1]]

DeleteMessage(r, id) ==
  rooms' = [x \in Shown |->
              IF x # r THEN rooms[x]
              ELSE [rooms[x] EXCEPT !.messages =
                      {[m EXCEPT !.deleted = @ \/ m.id = id] : m \in rooms[x].messages}]]

-----------------------------------------------------------------------------
(* The server *)

Note(type, r, what) == [type |-> type, room |-> r, what |-> what]

Joined(r, isDM) == <<Note("room_joined", r, isDM), Note("room_history", r, log[r])>>

Answer(s) == down' = down \o s

ServeJoin(r) ==
  /\ member' = member \cup {r} /\ Answer(Joined(r, FALSE))
  /\ UNCHANGED <<log, dmOwner, uncast>>

\* The room of this identity and the peer's: an old one or a new one.
OpenDM(d) ==
  /\ \/ dmOwner[d] = conn
     \/ dmOwner[d] = 0 /\ \A x \in DMs : dmOwner[x] # conn
  /\ dmOwner' = [dmOwner EXCEPT ![d] = conn]
  /\ member' = member \cup {d}
  /\ Answer(<<Note("dm_opened", d, TRUE)>> \o Joined(d, TRUE))
  /\ UNCHANGED <<log, uncast>>

\* A room the connection is not in is an error the browser does not look at.
ServeSend(r, n) ==
  /\ LET m == Message(n, conn)
     IN  IF r \in member
         THEN log' = [log EXCEPT ![r] = @ \cup {m}] /\ Answer(<<Note("message", r, m)>>)
         ELSE UNCHANGED <<log, down>>
  /\ UNCHANGED <<member, dmOwner, uncast>>

ServeDelete(r, n) ==
  /\ IF r \in member /\ \E m \in log[r] : m.id = n /\ m.sender = conn
     THEN /\ log' = [log EXCEPT ![r] = {[m EXCEPT !.deleted = @ \/ m.id = n] : m \in @}]
          /\ Answer(<<Note("message_deleted", r, n)>>)
     ELSE UNCHANGED <<log, down>>
  /\ UNCHANGED <<member, dmOwner, uncast>>

ServerStep == UNCHANGED <<linkVars, userId, named, rooms, viewVars, available,
                          submitted, referred>>

\* Somebody else writes: into the log, and then to the members.
PeerPosts(r) ==
  /\ ServerStep /\ posts < MaxPosts
  /\ r \in DMs => dmOwner[r] # 0
  /\ posts' = posts + 1
  /\ log' = [log EXCEPT ![r] = @ \cup {Message(posts + 1, 0)}]
  /\ uncast' = uncast \cup {<<r, posts + 1>>}
  /\ UNCHANGED <<down, member, dmOwner>>

PeerBroadcast(r, n) ==
  /\ ServerStep /\ <<r, n>> \in uncast
  /\ uncast' = uncast \ {<<r, n>>}
  /\ IF alive /\ r \in member THEN Answer(<<Note("message", r, Message(n, 0))>>)
     ELSE UNCHANGED down
  /\ UNCHANGED <<member, log, dmOwner, posts>>

PeerOpensDM ==
  /\ ServerStep /\ alive
  /\ \E d \in DMs : dmOwner[d] = 0 /\ OpenDM(d)
  /\ UNCHANGED posts

-----------------------------------------------------------------------------
(* The connection *)

\* connect, by the effect that starts it or by the timer.
Connect ==
  /\ timer
  /\ timer' = FALSE /\ ws' = "connecting"
  /\ UNCHANGED <<connected, alive, conn, down, userId, named, rooms, viewVars,
                 available, serverVars, history>>

\* The server has accepted, and knows nothing of earlier connections.
Accepted ==
  /\ ws = "connecting" /\ conn < MaxConns
  /\ ws' = "open" /\ connected' = TRUE /\ alive' = TRUE /\ conn' = conn + 1
  /\ UNCHANGED <<timer, userId, named, rooms, viewVars, available, log,
                 dmOwner, uncast, history>>

\* The answers to requests for rs: identity and list first, then the two
\* for each room that this identity may join, in some order.
Welcome(rs) ==
  LET ok == {r \in rs : r \in DMs => dmOwner[r] = conn + 1}
  IN  /\ member' = ok
      /\ \E s \in [1 .. Cardinality(ok) -> ok] :
           /\ \A r \in ok : \E i \in DOMAIN s : s[i] = r
           /\ down' = [i \in 1 .. 2 * Cardinality(ok) + 1 |->
                         IF i = 1 THEN Note("welcome", None, conn + 1)
                         ELSE Joined(s[i \div 2], s[i \div 2] \in DMs)[(i % 2) + 1]]

\* Mutant of OnOpen: only the conversation on screen is joined again.
OnOpenActive ==
  /\ Accepted
  /\ Welcome(IF Shown = {} THEN {General} ELSE {activeRoomId})

\* join_dm or join_room for every room, General for want of any.
OnOpen ==
  /\ Accepted
  /\ Welcome(IF Shown = {} THEN {General} ELSE Shown)

\* The connection breaks, and the server forgets it.
Break ==
  /\ alive /\ conn < MaxConns
  /\ alive' = FALSE /\ member' = {}
  /\ UNCHANGED <<ws, connected, timer, conn, down, userId, named, rooms, viewVars,
                 available, log, dmOwner, uncast, history>>

\* The browser sees that it is broken, or that an attempt has failed.
Closing ==
  /\ \/ ws = "open" /\ ~alive
     \/ ws = "connecting" /\ conn < MaxConns
  /\ ws' = "closing"
  /\ UNCHANGED <<connected, timer, alive, conn, down, userId, named, rooms,
                 viewVars, available, serverVars, history>>

\* Mutant of OnClose: the timer is left to the clean-up.
OnCloseNoTimer ==
  /\ ws = "closing"
  /\ ws' = "none" /\ connected' = FALSE /\ down' = <<>>
  /\ UNCHANGED <<timer, alive, conn, userId, named, rooms, viewVars, available,
                 serverVars, history>>

\* What of the store is reset here belongs to other modules.
OnClose ==
  /\ ws = "closing"
  /\ ws' = "none" /\ connected' = FALSE /\ down' = <<>>
  /\ timer' = TRUE
  /\ UNCHANGED <<alive, conn, userId, named, rooms, viewVars, available,
                 serverVars, history>>

-----------------------------------------------------------------------------
(* onmessage *)

Received(type) ==
  /\ ws \in {"open", "closing"} /\ down # <<>>
  /\ Head(down).type = type
  /\ down' = Tail(down)
  /\ UNCHANGED <<linkVars, named, contextStack, serverVars, history>>

\* identity, and room_list right after it.
HandleIdentity ==
  /\ Received("welcome")
  /\ userId' = Head(down).what /\ available' = Public
  /\ UNCHANGED <<rooms, activeRoomId, composer>>

HandleRoomJoined ==
  /\ Received("room_joined")
  /\ LET r == Head(down).room
         rs == WithRoom(r, Head(down).what)
     IN  IF activeRoomId = None THEN Activate(rs, r)
         ELSE rooms' = rs /\ UNCHANGED <<activeRoomId, composer>>
  /\ UNCHANGED <<userId, available>>

HandleHistory ==
  /\ Received("room_history")
  /\ SetRoomHistory(Head(down).room, Head(down).what)
  /\ UNCHANGED <<userId, activeRoomId, composer, available>>

HandleMessage ==
  /\ Received("message")
  /\ AddMessage(Head(down).room, Head(down).what)
  /\ UNCHANGED <<userId, activeRoomId, composer, available>>

HandleDeleted ==
  /\ Received("message_deleted")
  /\ DeleteMessage(Head(down).room, Head(down).what)
  /\ UNCHANGED <<userId, activeRoomId, composer, available>>

\* The room is active at once; the route stays where it was.
HandleDmOpened ==
  /\ Received("dm_opened")
  /\ Activate(WithRoom(Head(down).room, TRUE), Head(down).room)
  /\ UNCHANGED <<userId, available>>

-----------------------------------------------------------------------------
(* The user *)

\* send drops what it cannot hand to an open socket; what it hands to a
\* broken one does not arrive.
Dropped == ~(ws = "open" /\ alive) /\ UNCHANGED <<down, serverVars>>
Arrives == ws = "open" /\ alive

Joins(r) == Dropped \/ (Arrives /\ ServeJoin(r))

May == Len(down) < MaxAnswers

\* The screen for the name, where the browser already is in General.
EnterName ==
  /\ ~named /\ May
  /\ named' = TRUE
  /\ Joins(General)
  /\ UNCHANGED <<linkVars, userId, rooms, viewVars, available, history>>

Looks == named /\ UNCHANGED <<linkVars, userId, named, available>>

\* What the list offers: rooms in two sections, public rooms not joined.
Sections ==
  [regular |-> {r \in Shown : ~rooms[r].isDM}, dms |-> {r \in Shown : rooms[r].isDM}]
Discoverable == available \ Shown
Badge(r) == rooms[r].unread

SelectRoom(r) ==
  /\ Looks /\ ~Mounted
  /\ r \in Sections.regular \cup Sections.dms
  /\ Activate(rooms, r)
  /\ contextStack' = Append(contextStack, r)
  /\ UNCHANGED <<down, serverVars, history>>

\* Back to the list: ChatView unmounts and forgets what is in the composer.
PopRoute ==
  /\ Looks /\ Mounted
  /\ contextStack' = SubSeq(contextStack, 1, Len(contextStack) - 1)
  /\ composer' = Empty
  /\ UNCHANGED <<down, rooms, activeRoomId, serverVars, history>>

JoinDiscovered(r) ==
  /\ Looks /\ May /\ ~Mounted
  /\ r \in Discoverable
  /\ Joins(r)
  /\ UNCHANGED <<rooms, viewVars, history>>

\* A room that exists is joined.
CreateRoom(r) ==
  /\ Looks /\ May /\ ~Mounted
  /\ r \in Public
  /\ Joins(r)
  /\ UNCHANGED <<rooms, viewVars, history>>

\* By the form in the menu, for any name.
JoinByName(r) ==
  /\ Looks /\ May
  /\ r \in Public
  /\ Joins(r)
  /\ UNCHANGED <<rooms, viewVars, history>>

StartDM ==
  /\ Looks /\ May /\ ~Mounted /\ connected
  /\ Dropped \/ (Arrives /\ \E d \in DMs : OpenDM(d))
  /\ UNCHANGED <<rooms, viewVars, history>>

-----------------------------------------------------------------------------
(* The conversation: it is that of activeRoomId, under a header with the   *)
(* name of the route's room                                                *)

InChat ==
  /\ Looks /\ Mounted /\ activeRoomId \in Shown
  /\ UNCHANGED <<rooms, activeRoomId, contextStack>>

\* MessageRow offers nothing for a deleted message.
Offered == {m \in rooms[activeRoomId].messages : ~m.deleted}
Own(m) == m.sender = userId

Type ==
  /\ InChat /\ connected /\ composer.text = None
  /\ composer' = [composer EXCEPT !.text = Header]
  /\ UNCHANGED <<down, serverVars, history>>

Reply(m) ==
  /\ InChat /\ m \in Offered
  /\ composer' = [composer EXCEPT !.replyTo = m.id, !.editing = None]
  /\ UNCHANGED <<down, serverVars, history>>

\* The text of the message replaces what was typed.
Edit(m) ==
  /\ InChat /\ m \in Offered /\ Own(m)
  /\ composer' = [text |-> Header, replyTo |-> None, editing |-> m.id]
  /\ UNCHANGED <<down, serverVars, history>>

CancelContext ==
  /\ InChat /\ (composer.replyTo # None \/ composer.editing # None)
  /\ composer' = [composer EXCEPT !.replyTo = None, !.editing = None]
  /\ UNCHANGED <<down, serverVars, history>>

\* By the cross next to the quoted message.
CancelReply ==
  /\ InChat /\ composer.replyTo # None
  /\ composer' = [composer EXCEPT !.replyTo = None]
  /\ UNCHANGED <<down, serverVars, history>>

Delete(m) ==
  /\ InChat /\ May
  /\ m \in Offered /\ Own(m)
  /\ Dropped \/ (Arrives /\ ServeDelete(activeRoomId, m.id))
  /\ UNCHANGED <<composer, history>>

\* Mutant of CanSend: the composer does not look at the connection.
CanSendAlways == composer.text # None

CanSend == composer.text # None /\ connected

SendEdit ==
  /\ InChat /\ CanSend /\ composer.editing # None
  /\ referred' = referred \cup {<<activeRoomId, composer.editing>>}
  /\ composer' = [composer EXCEPT !.text = None, !.editing = None]
  /\ UNCHANGED <<down, serverVars, posts, submitted>>

SendMessage ==
  /\ InChat /\ posts < MaxPosts
  /\ CanSend /\ composer.editing = None
  /\ posts' = posts + 1
  /\ Dropped \/ (Arrives /\ ServeSend(activeRoomId, posts + 1))
  /\ submitted' = submitted \cup
       {[id |-> posts + 1, room |-> activeRoomId,
         conn |-> IF connected THEN conn ELSE 0]}
  /\ referred' = referred \cup
       {<<activeRoomId, n>> : n \in {composer.replyTo} \ {None}}
  /\ composer' = [composer EXCEPT !.text = None, !.replyTo = None]

-----------------------------------------------------------------------------

OnMessage ==
  \/ HandleIdentity \/ HandleRoomJoined \/ HandleHistory
  \/ HandleMessage \/ HandleDeleted \/ HandleDmOpened

User ==
  \/ EnterName \/ PopRoute \/ StartDM
  \/ \E r \in Rooms : SelectRoom(r) \/ JoinDiscovered(r) \/ CreateRoom(r) \/ JoinByName(r)
  \/ Type \/ CancelReply \/ CancelContext \/ SendEdit \/ SendMessage
  \/ activeRoomId \in Shown /\
     \E m \in rooms[activeRoomId].messages : Reply(m) \/ Edit(m) \/ Delete(m)

Others ==
  \/ \E r \in Rooms : PeerPosts(r) \/ \E n \in 1 .. MaxPosts : PeerBroadcast(r, n)
  \/ PeerOpensDM

Next ==
  \/ Connect \/ OnOpen \/ Break \/ Closing \/ OnClose
  \/ OnMessage \/ User \/ Others

Spec == Init /\ [][Next]_vars

\* The browser's timers and events come, and an attempt to connect that is
\* made again and again succeeds once.
FairSpec ==
  /\ Spec
  /\ WF_vars(Connect) /\ WF_vars(Closing /\ ~alive /\ ws = "open")
  /\ WF_vars(OnClose) /\ SF_vars(OnOpen)

-----------------------------------------------------------------------------
(* Properties *)

TypeOK ==
  /\ ws \in {"none", "connecting", "open", "closing"}
  /\ connected \in BOOLEAN /\ timer \in BOOLEAN /\ conn \in 0 .. MaxConns
  /\ alive => ws = "open" /\ connected
  /\ connected => ws \in {"open", "closing"}
  /\ timer => ws = "none"
  /\ userId \in 1 .. conn \cup {None} /\ named \in BOOLEAN
  /\ Shown \subseteq Rooms
  /\ \A r \in Shown : rooms[r].isDM = (r \in DMs) /\ rooms[r].unread \in 0 .. MaxPosts
  /\ activeRoomId \in Shown \cup {None}
  /\ contextStack \in {<<None>>} \cup {<<None, r>> : r \in Shown}
  /\ ~Mounted => composer = Empty
  /\ composer.text \in Shown \cup {None}
  /\ available \subseteq Public /\ member \subseteq Rooms
  /\ \A s \in submitted : s.room \in Shown

\* A message the user has seen leave the composer is in the log of its
\* room.  Lost are only messages of a connection that has broken, and those
\* for a direct-message room of an earlier identity.
SubmittedAccounted ==
  \A s \in submitted :
    \/ \E m \in log[s.room] : m.id = s.id
    \/ s.conn # 0 /\ (s.conn < conn \/ ~alive)
    \/ s.room \in DMs /\ dmOwner[s.room] # conn

Quiet == alive /\ down = <<>>

\* After a reconnection the browser is back in every public room it shows,
\* with or without a name, and shows all that was written there.
PublicRejoined ==
  Quiet => \A r \in Shown \cap Public :
             /\ r \in member
             /\ \A m \in log[r] : \/ <<r, m.id>> \in uncast
                                  \/ \E c \in rooms[r].messages : c.id = m.id

\* What a reply or an edit refers to is a message of the room it is sent
\* to: neither survives the switch to another conversation.
RefersToItsRoom ==
  \A x \in referred : \E m \in log[x[1]] : m.id = x[2]

\* The badge of a room counts no message twice and none of the user's own,
\* and the active room has none.
UnreadHonest ==
  \A r \in Shown :
    /\ Badge(r) <= Cardinality({m \in rooms[r].messages : m.sender = 0})
    /\ r = activeRoomId => Badge(r) = 0

\* A browser that has lost the server connects to it again.
Reconnects == ~connected ~> connected

\* JoinDM: "allows a participant to rejoin their DM room by hex room ID (used on
\* reconnect)": after a reconnection the browser is back in its direct messages
\* (hub.go:1051-1071, useWebSocket.ts:47-56).
DMsRejoined == Quiet => Shown \cap DMs \subseteq member

=============================================================================
