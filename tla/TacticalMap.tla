---------------------------- MODULE TacticalMap ----------------------------
(***************************************************************************)
(* The tactical map of one browser: markers and positions at the server,   *)
(* the messages that bring them, the store, and the pins on the map.       *)
(*                                                                         *)
(* The server changes a room under its lock and sends what it read after   *)
(* releasing it: the hub's ticker, the handler of this browser and that of *)
(* the other user may send in another order than they read.  What the      *)
(* browser sends names its room and is handled in the step that sends it.  *)
(* A browser that reconnects joins its rooms again (ChatClient), under a   *)
(* new identity.                                                           *)
(***************************************************************************)
EXTENDS Naturals, Sequences, FiniteSets, MapLook

CONSTANTS
  Rooms, None,
  Mine, Theirs,  \* the markers this user and the other one may place
  MaxMoves,      \* bound: positions of the other user
  MaxLosses,     \* bound: connections lost
  MaxMaps,       \* bound: maps made
  MaxClicks,     \* bound: what the two users do, the form aside
  Cap            \* bound: messages under way when the ticker reads

ASSUME MapAssumption ==
  /\ Rooms # {} /\ Mine \cap Theirs = {} /\ "contact" \notin Mine \cup Theirs
  /\ None \notin Rooms \cup Mine \cup Theirs \cup Nat
  /\ {MaxMoves, MaxLosses, MaxMaps, MaxClicks, Cap} \subseteq Nat /\ MaxMaps # 0

VARIABLES
  \* the server
  markers,       \* room.Markers
  creator,       \* CreatorID, once placed; 0 is the other user
  at,            \* room.CotPositions of the other user, a position's number
  present,       \* it is a member of the rooms
  members,       \* the rooms this browser is a member of
  shared,        \* room.CotPositions of this browser
  aged,          \* positions up to this one are older than 30 s
  out,           \* what a goroutine has read and not sent
  \* the connection
  down,          \* messages to the browser
  connected, identity, losses,
  \* the stores
  active, cotMarkers, cotContacts, selfPosition,
  located,       \* locationEnabled
  style, apiKey, \* mapStyle; there is a protomapsApiKey
  \* the map
  pins, contactPin, selfPin,
  maps,          \* maps made so far
  selected,      \* selectedMarker, or "contact"
  form,          \* markerForm is open
  clicks         \* what the users have done so far

server == <<markers, creator, at, present, members, shared, aged>>
link == <<down, connected, identity, losses>>
settings == <<located, style, apiKey>>
store == <<active, cotMarkers, cotContacts, selfPosition, settings>>
pinned == <<pins, contactPin, selfPin, maps>>
dialogs == <<selected, form, clicks>>
vars == <<server, out, link, store, pinned, dialogs>>

Markers == Mine \cup Theirs
Goroutines == {"hub", "me", "peer"}
NoPin == [at |-> 0, faded |-> FALSE]
Nowhere == [r \in Rooms |-> 0]

CotState(r) == [type |-> "cot_state", room |-> r, markers |-> markers[r],
                at |-> IF present THEN at[r] ELSE 0]
News(type, r, m) == [type |-> type, room |-> r, marker |-> m]
Messages ==
  [type : {"cot_state"}, room : Rooms, markers : SUBSET Markers, at : 0..MaxMoves]
    \cup [type : {"marker_created", "marker_deleted"}, room : Rooms, marker : Markers]

Init ==
  /\ markers = [r \in Rooms |-> {}] /\ creator = [m \in Markers |-> None]
  /\ at = Nowhere /\ present = TRUE /\ members = Rooms /\ shared = {} /\ aged = 0
  /\ out = [g \in Goroutines |-> None]
  /\ down = <<>> /\ connected = TRUE /\ identity = 1 /\ losses = 0
  /\ active = (CHOOSE r \in Rooms : TRUE)
  /\ cotMarkers = [r \in Rooms |-> {}] /\ cotContacts = Nowhere
  /\ selfPosition = FALSE /\ located = FALSE /\ style = "dark" /\ apiKey = FALSE
  /\ pins = {} /\ contactPin = NoPin /\ selfPin = FALSE /\ maps = 1
  /\ selected = None /\ form = FALSE /\ clicks = 0

\* A marker is in one room at most, and somebody placed it.
ServerTypes ==
  /\ markers \in [Rooms -> SUBSET Markers]
  /\ creator \in [Markers -> 0..identity \cup {None}]
  /\ at \in [Rooms -> 0..MaxMoves] /\ aged \in 0..MaxMoves /\ present \in BOOLEAN
  /\ members \subseteq Rooms /\ shared \subseteq members
  /\ \A r \in Rooms : \A m \in markers[r] :
       creator[m] # None /\ \A s \in Rooms \ {r} : m \notin markers[s]

LinkTypes ==
  /\ out \in [Goroutines -> Messages \cup {None}] /\ down \in Seq(Messages)
  /\ connected \in BOOLEAN /\ losses \in 0..MaxLosses /\ identity \in {losses, losses + 1}

StoreTypes ==
  /\ active \in Rooms /\ cotMarkers \in [Rooms -> SUBSET Markers]
  /\ cotContacts \in [Rooms -> 0..MaxMoves] /\ selfPosition \in BOOLEAN
  /\ located \in BOOLEAN /\ style \in MapStyles /\ apiKey \in BOOLEAN

\* A pin is one of the room on the screen.
MapTypes ==
  /\ pins \subseteq cotMarkers[active]
  /\ contactPin \in [at : 0..MaxMoves, faded : BOOLEAN]
  /\ contactPin.at \in {0, cotContacts[active]}
  /\ selfPin \in BOOLEAN /\ maps \in 1..MaxMaps

DialogTypes ==
  selected \in Markers \cup {"contact", None} /\ form \in BOOLEAN /\ clicks \in 0..MaxClicks

TypeOK == ServerTypes /\ LinkTypes /\ StoreTypes /\ MapTypes /\ DialogTypes

-----------------------------------------------------------------------------
(* What the map shows of the store *)

Click == clicks < MaxClicks /\ clicks' = clicks + 1

\* Mutant of ShowMarkers: pins of deleted markers are not removed.
AddMarkersOnly(s) == pins' = pins \cup s

\* The effect on the markers of the active room.
ShowMarkers(s) == pins' = s

\* Mutant of ShowContacts: a pin that is there only moves.
MoveContactsOnly(n) ==
  contactPin' = IF contactPin.at # 0 /\ n # 0 THEN [contactPin EXCEPT !.at = n]
                ELSE [at |-> n, faded |-> n \in 1..aged]

\* The effect on its contacts: a position older than 30 s fades.
ShowContacts(n) == contactPin' = [at |-> n, faded |-> n \in 1..aged]

\* The map is made anew, and the effects that make the pins do not run again.
Anew ==
  /\ maps < MaxMaps /\ maps' = maps + 1
  /\ pins' = {} /\ contactPin' = NoPin /\ selfPin' = FALSE

CycleMapStyle ==
  /\ Click
  /\ style' = NextStyle[style]
  /\ IF EffectiveStyle(style', apiKey) = EffectiveStyle(style, apiKey)
     THEN UNCHANGED pinned ELSE Anew
  /\ UNCHANGED <<server, out, link, active, cotMarkers, cotContacts, selfPosition,
                 located, apiKey, selected, form>>

\* With every character.
SetProtomapsApiKey(k) ==
  /\ Click
  /\ (k \/ apiKey) /\ apiKey' = k
  /\ Anew
  /\ UNCHANGED <<server, out, link, active, cotMarkers, cotContacts, selfPosition,
                 located, style, selected, form>>

\* The popover and the form stay.
SetActiveRoom(r) ==
  /\ Click
  /\ r # active /\ active' = r
  /\ ShowMarkers(cotMarkers[r]) /\ ShowContacts(cotContacts[r])
  /\ UNCHANGED <<server, out, link, cotMarkers, cotContacts, selfPosition, settings,
                 selfPin, maps, selected, form>>

-----------------------------------------------------------------------------
(* Messages *)

\* Mutant of SetCotMarkers: merged, as the contacts are.
SetCotMarkersMerged(r, s) == cotMarkers' = [cotMarkers EXCEPT ![r] = @ \cup s]

SetCotMarkers(r, s) == cotMarkers' = [cotMarkers EXCEPT ![r] = s]

\* A contact that is missing stays.
SetCotContacts(r, n) ==
  cotContacts' = IF n = 0 THEN cotContacts ELSE [cotContacts EXCEPT ![r] = n]

\* Nothing changes for a marker that is there.
AddCotMarker(r, m) ==
  /\ cotMarkers' = [cotMarkers EXCEPT ![r] = @ \cup {m}]
  /\ IF r = active /\ m \notin cotMarkers[r] THEN ShowMarkers(cotMarkers'[r])
     ELSE UNCHANGED pins

RemoveCotMarker(r, m) ==
  /\ cotMarkers' = [cotMarkers EXCEPT ![r] = @ \ {m}]
  /\ IF r = active THEN ShowMarkers(cotMarkers'[r]) ELSE UNCHANGED pins

Handle(e) ==
  CASE e.type = "cot_state" ->
         /\ SetCotMarkers(e.room, e.markers) /\ SetCotContacts(e.room, e.at)
         /\ IF e.room = active
            THEN ShowMarkers(cotMarkers'[active]) /\ ShowContacts(cotContacts'[active])
            ELSE UNCHANGED <<pins, contactPin>>
    [] e.type = "marker_created" ->
         AddCotMarker(e.room, e.marker) /\ UNCHANGED <<cotContacts, contactPin>>
    [] e.type = "marker_deleted" ->
         RemoveCotMarker(e.room, e.marker) /\ UNCHANGED <<cotContacts, contactPin>>

Deliver ==
  /\ connected /\ down # <<>>
  /\ Handle(Head(down)) /\ down' = Tail(down)
  /\ UNCHANGED <<server, out, connected, identity, losses, active, selfPosition,
                 settings, selfPin, maps, dialogs>>

\* A goroutine sends to the members; a connection that is gone gets nothing.
Send(g) ==
  /\ out[g] # None /\ out' = [out EXCEPT ![g] = None]
  /\ down' = IF out[g].room \in members THEN Append(down, out[g]) ELSE down
  /\ UNCHANGED <<server, connected, identity, losses, store, pinned, dialogs>>

\* One message of a goroutine at a time.
Read(g, e) == out[g] = None /\ out' = [out EXCEPT ![g] = e]

-----------------------------------------------------------------------------
(* The server *)

\* The ticker, every 3 s, room by room in no fixed order.
BroadcastCotState(r) ==
  /\ Len(down) < Cap /\ Read("hub", CotState(r))
  /\ UNCHANGED <<server, link, store, pinned, dialogs>>

\* A browser that returned joins again; nothing is sent of an empty room.
JoinRoom(r) ==
  /\ connected /\ r \notin members /\ members' = members \cup {r}
  /\ IF markers[r] = {} /\ CotState(r).at = 0
     THEN out["me"] = None /\ UNCHANGED out
     ELSE Read("me", CotState(r))
  /\ UNCHANGED <<markers, creator, at, present, shared, aged, link, store,
                 pinned, dialogs>>

CreateMapMarker(g, r, m, by) ==
  /\ creator[m] = None
  /\ markers' = [markers EXCEPT ![r] = @ \cup {m}]
  /\ creator' = [creator EXCEPT ![m] = by]
  /\ Read(g, News("marker_created", r, m))

\* The creator only; the room is the one the message names.
DeleteMapMarker(g, r, m, by) ==
  IF m \in markers[r] /\ creator[m] = by
  THEN /\ markers' = [markers EXCEPT ![r] = @ \ {m}]
       /\ Read(g, News("marker_deleted", r, m))
  ELSE UNCHANGED <<markers, out>>

PeerPlaces(r, m) ==
  /\ Click
  /\ present /\ m \in Theirs /\ CreateMapMarker("peer", r, m, 0)
  /\ UNCHANGED <<at, present, members, shared, aged, link, store, pinned, selected, form>>

PeerDeletes(r, m) ==
  /\ Click
  /\ present /\ m \in markers[r] /\ creator[m] = 0
  /\ DeleteMapMarker("peer", r, m, 0)
  /\ UNCHANGED <<creator, at, present, members, shared, aged, link, store,
                 pinned, selected, form>>

Latest == LET n == CHOOSE n \in {at[r] : r \in Rooms} : \A r \in Rooms : at[r] <= n IN n

\* cot_position of the other user, for the room it looks at.
PeerMoves(r) ==
  /\ Click
  /\ present /\ Latest < MaxMoves
  /\ at' = [at EXCEPT ![r] = Latest + 1]
  /\ UNCHANGED <<markers, creator, present, members, shared, aged, out, link, store,
                 pinned, selected, form>>

\* It leaves for good: who returns is another contact.
PeerLeaves ==
  /\ Click
  /\ present /\ out["peer"] = None /\ present' = FALSE
  /\ UNCHANGED <<markers, creator, at, members, shared, aged, out, link, store,
                 pinned, selected, form>>

\* 30 s pass since a position.
Age ==
  /\ aged < Latest /\ aged' = aged + 1
  /\ UNCHANGED <<markers, creator, at, present, members, shared, out, link, store,
                 pinned, dialogs>>

-----------------------------------------------------------------------------
(* The user *)

\* A right click or a long press on the map.
OpenForm ==
  /\ form' = TRUE /\ selected' = None
  /\ UNCHANGED <<server, out, link, store, pinned, clicks>>

\* The rail's button leaves the popover.
OpenAddMarker ==
  /\ form' = TRUE
  /\ UNCHANGED <<server, out, link, store, pinned, selected, clicks>>

CancelForm ==
  /\ form /\ form' = FALSE
  /\ UNCHANGED <<server, out, link, store, pinned, selected, clicks>>

\* To the room that is active now.  The form closes, also when the message is not
\* sent or the server drops it.
HandlePlaceMarker(m, values) ==
  /\ Click
  /\ form /\ Valid(values) /\ form' = FALSE
  /\ IF active \in members /\ Accepted(Submitted(values))
     THEN m \in Mine /\ CreateMapMarker("me", active, m, identity)
     ELSE UNCHANGED <<markers, creator, out>>
  /\ UNCHANGED <<at, present, members, shared, aged, link, store, pinned, selected>>

SelectPin(p) ==
  /\ Click
  /\ p \in pins \cup (IF contactPin.at # 0 THEN {"contact"} ELSE {})
  /\ selected' = p /\ form' = FALSE
  /\ UNCHANGED <<server, out, link, store, pinned>>

ClosePopover ==
  /\ selected # None /\ selected' = None
  /\ UNCHANGED <<server, out, link, store, pinned, form, clicks>>

\* Offered for what was created under the present identity.
DeleteOffered == selected \in Markers /\ creator[selected] = identity

HandleDeleteMarker ==
  /\ Click
  /\ DeleteOffered
  /\ selected' = None
  /\ IF active \in members THEN DeleteMapMarker("me", active, selected, identity)
     ELSE UNCHANGED <<markers, out>>
  /\ UNCHANGED <<creator, at, present, members, shared, aged, link, store,
                 pinned, form>>

\* Turned off, the position is forgotten; its pin and what was sent stay.
ShareLocation(on) ==
  /\ Click
  /\ located' = on /\ on # located
  /\ selfPosition' = (selfPosition /\ on)
  /\ UNCHANGED <<server, out, link, active, cotMarkers, cotContacts, style, apiKey,
                 pinned, selected, form>>

SendPosition == shared' = shared \cup (members \cap {active})
ShowSelf == selfPin' = TRUE

\* A position is shown, and sent to the active room.
WatchPosition ==
  /\ located
  /\ selfPosition' = TRUE /\ ShowSelf /\ SendPosition
  /\ UNCHANGED <<markers, creator, at, present, members, aged, out, link, active,
                 cotMarkers, cotContacts, settings, pins, contactPin, maps, dialogs>>

\* onclose empties the store.  What a goroutine is about to send is lost.
ConnectionLost ==
  /\ connected /\ losses < MaxLosses /\ losses' = losses + 1
  /\ connected' = FALSE /\ down' = <<>> /\ members' = {} /\ shared' = {}
  /\ out' = [out EXCEPT !["me"] = None]
  /\ cotMarkers' = [r \in Rooms |-> {}] /\ cotContacts' = Nowhere /\ selfPosition' = FALSE
  /\ ShowMarkers({}) /\ ShowContacts(0)
  /\ UNCHANGED <<markers, creator, at, present, aged, identity, active, settings,
                 selfPin, maps, dialogs>>

Reconnect ==
  /\ ~connected /\ connected' = TRUE /\ identity' = identity + 1
  /\ UNCHANGED <<server, out, down, losses, store, pinned, dialogs>>

-----------------------------------------------------------------------------

Hub == (\E r \in Rooms : BroadcastCotState(r)) \/ Send("hub")
Me == (\E r \in Rooms : JoinRoom(r)) \/ Send("me")

Peer ==
  \/ \E r \in Rooms, m \in Theirs : PeerPlaces(r, m) \/ PeerDeletes(r, m)
  \/ \E r \in Rooms : PeerMoves(r)
  \/ PeerLeaves \/ Send("peer")

User ==
  \/ OpenForm \/ OpenAddMarker
  \/ \E m \in Mine, name \in Names : HandlePlaceMarker(m, [FormDefaults EXCEPT !.name = name])
  \/ \E p \in Markers \cup {"contact"} : SelectPin(p)
  \/ \E r \in Rooms : SetActiveRoom(r)
  \/ \E b \in BOOLEAN : ShareLocation(b) \/ SetProtomapsApiKey(b)
  \/ CancelForm \/ ClosePopover \/ HandleDeleteMarker \/ CycleMapStyle

Link == Deliver \/ ConnectionLost \/ Reconnect

Next == Hub \/ Me \/ Peer \/ User \/ Link \/ Age \/ WatchPosition

Spec == Init /\ [][Next]_vars

\* The ticker ticks, goroutines go on, messages arrive, the browser reconnects
\* and joins again, time passes, and a watched position is reported.  No user has
\* to do anything.
FairSpec ==
  /\ Spec
  /\ \A r \in Rooms : SF_vars(BroadcastCotState(r))
  /\ WF_vars(Send("hub")) /\ WF_vars(Me) /\ WF_vars(Send("peer"))
  /\ WF_vars(Deliver) /\ WF_vars(Reconnect) /\ WF_vars(Age) /\ WF_vars(WatchPosition)

-----------------------------------------------------------------------------
(* Properties *)

\* Whatever was sent in the wrong order, lost with a connection or forgotten by
\* a map made anew, in the end the pins are the markers of the active room.
MarkersConverge == <>[](connected /\ pins = markers[active])

\* In the end another user's pin is where it is; if it has left, its pin, which
\* the merge of the contacts keeps, is faded.  The user's own pin is there while the
\* position is shared.
ContactFaded == contactPin.at # 0 => contactPin.faded
PositionsConverge ==
  /\ <>[](IF present THEN contactPin.at = at[active] ELSE ContactFaded)
  /\ <>[](located => selfPin)

=============================================================================
