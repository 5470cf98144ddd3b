----------------------------- MODULE MapProofs -----------------------------
(***************************************************************************)
(* Theorems about the map and the picture of the mesh.  MapLook: how a     *)
(* marker and the map look, for everything the form, a client, the server  *)
(* and the settings can hand to it.  MeshView: the peers in the store and  *)
(* what is shown of them, for any lists that the server and a bridge send. *)
(***************************************************************************)
EXTENDS TacticalMap, MeshView, FiniteSetTheorems, SequenceTheorems, TLAPS

-----------------------------------------------------------------------------
(* MapLook *)

\* An affiliation has the legend's colour after it has travelled as a legacy
\* colour (cot-icons.ts:44-71).
LEMMA AffiliationSurvives ==
  \A a \in Affiliations : GetCotColor(AffiliationToLegacy[a]) = LegendToken[a]
BY DEF Affiliations, GetCotColor, AffiliationToLegacy, LegacyToToken, LegendToken

\* What is chosen in the form is what everybody sees: type and affiliation
\* survive the legacy colour, the server's default type and the way back
\* (cot-icons.ts:44-71, hub.go:1147-1163, MapViewer.tsx:531-558).
THEOREM MarkersLookAsChosen == \A values \in FormValues : LooksAsChosen(values)
<1> TAKE values \in FormValues
<1> DEFINE d == Submitted(values)
<1>1. values.cotType \in CotTypes /\ values.affiliation \in Affiliations
  BY DEF FormValues
<1>2. /\ d.cot_type = values.cotType
      /\ d.color = AffiliationToLegacy[values.affiliation]
  BY DEF Submitted
<1>3. ServerType(d) = values.cotType
  BY <1>1, <1>2 DEF ServerType, CotTypes
<1>4. GetCotType(ServerType(d)) = values.cotType
  BY <1>1, <1>3 DEF GetCotType
<1>5. GetCotColor(d.color) = LegendToken[values.affiliation]
  BY <1>1, <1>2, AffiliationSurvives
<1> QED
  BY <1>4, <1>5 DEF LooksAsChosen, DrawnMarker

\* Whatever type and colour a marker comes with, the legend explains its
\* colour, and the icon is one there is (cot-icons.ts:28-71, MapViewer.tsx:407-432).
THEOREM MarkersInLegend ==
  \A type, color :
    LET pin == DrawnMarker([cot_type |-> type, color |-> color])
    IN  InLegend(pin) /\ pin.icon \in CotTypes
<1> SUFFICES ASSUME NEW type, NEW color
    PROVE  /\ InLegend(DrawnMarker([cot_type |-> type, color |-> color]))
           /\ DrawnMarker([cot_type |-> type, color |-> color]).icon \in CotTypes
  OBVIOUS
<1>1. GetCotColor(color) \in {"friendly", "hostile", "neutral", "unknown"}
  BY DEF GetCotColor, LegacyToToken
<1>2. GetCotType(type) \in CotTypes
  BY DEF GetCotType, CotTypes
<1> QED
  BY <1>1, <1>2 DEF DrawnMarker, InLegend, Affiliations, LegendToken

\* A contact and this user are in the legend too (MapViewer.tsx:471-529).
THEOREM ContactsInLegend ==
  InLegend(DrawnSelf) /\ \A stale \in BOOLEAN : InLegend(DrawnContact(stale))
BY DEF InLegend, DrawnSelf, DrawnContact, Affiliations, LegendToken

\* In every style, with and without a key for Protomaps, every layer has its
\* source and every source has tiles (MapViewer.tsx:61-66, 574-685).
THEOREM MapAlwaysHasTiles ==
  \A chosen \in MapStyles, key \in BOOLEAN : MapHasTiles(chosen, key)
BY DEF MapStyles, MapHasTiles, BuildStyle, Satellite, EffectiveStyle,
       AvailableStyles, Served

-----------------------------------------------------------------------------
(* TacticalMap *)

\* What is under way to the browser, and the markers it names.
Sent == {e \in Messages : \/ e # None /\ \E g \in Goroutines : out[g] = e
                        \/ \E i \in DOMAIN down : down[i] = e}
Named(e) == IF e.type = "cot_state" THEN e.markers ELSE {e.marker}

Somewhere(m, r) ==
  \/ m \in markers[r] \cup cotMarkers[r]
  \/ \E e \in Sent : e.room = r /\ m \in Named(e)

\* Of a marker that was deleted no other room hears either.
OneRoom == \A m \in Markers : \A r, s \in Rooms : Somewhere(m, r) /\ Somewhere(m, s) => r = s

Placed ==
  /\ \A m \in Markers, r \in Rooms : Somewhere(m, r) => creator[m] # None
  /\ selected \in Markers => creator[selected] # None

\* An identity for each connection, and Latest is the largest number.
Counted ==
  /\ identity = losses + (IF connected THEN 1 ELSE 0)
  /\ \E r \in Rooms : \A s \in Rooms : at[s] <= at[r]

MapInv == TypeOK /\ OneRoom /\ Placed /\ Counted

LEMMA MessagesAre ==
  /\ \A e \in Messages :
       /\ e.room \in Rooms /\ Named(e) \subseteq Markers
       /\ e.type \in {"cot_state", "marker_created", "marker_deleted"}
       /\ e.type = "cot_state" => e.markers \subseteq Markers /\ e.at \in 0..MaxMoves
       /\ e.type # "cot_state" => e.marker \in Markers
  /\ \A r \in Rooms : \A m \in Markers :
       /\ News("marker_created", r, m) \in Messages /\ News("marker_deleted", r, m) \in Messages
       /\ News("marker_created", r, m).room = r /\ News("marker_deleted", r, m).room = r
       /\ Named(News("marker_created", r, m)) = {m} /\ Named(News("marker_deleted", r, m)) = {m}
  /\ ServerTypes => \A r \in Rooms :
       CotState(r) \in Messages /\ CotState(r).room = r /\ Named(CotState(r)) = markers[r]
<1>1. \A e \in Messages :
        /\ e.room \in Rooms
        /\ e.type \in {"cot_state", "marker_created", "marker_deleted"}
        /\ e.type = "cot_state" => e.markers \subseteq Markers /\ e.at \in 0..MaxMoves
        /\ e.type # "cot_state" => e.marker \in Markers
  BY DEF Messages
<1>2. \A e \in Messages : Named(e) \subseteq Markers
  BY <1>1 DEF Named
<1>3. ASSUME NEW r \in Rooms, NEW m \in Markers, NEW t \in {"marker_created", "marker_deleted"}
      PROVE  News(t, r, m) \in Messages /\ News(t, r, m).room = r /\ Named(News(t, r, m)) = {m}
  BY <1>3 DEF News, Messages, Named
<1>4. ASSUME ServerTypes, NEW r \in Rooms
      PROVE  CotState(r) \in Messages /\ CotState(r).room = r /\ Named(CotState(r)) = markers[r]
  <2>1. (IF present THEN at[r] ELSE 0) \in 0..MaxMoves /\ markers[r] \in SUBSET Markers
    BY <1>4, MapAssumption DEF ServerTypes
  <2>2. QED
    BY <2>1 DEF CotState, Messages, Named
<1>5. QED
  BY <1>1, <1>2, <1>3, <1>4

LEMMA LatestIs ==
  ASSUME ServerTypes, Counted
  PROVE  Latest \in 0..MaxMoves /\ \A r \in Rooms : at[r] <= Latest
<1>1. \E n \in {at[r] : r \in Rooms} : \A r \in Rooms : at[r] <= n
  BY DEF Counted
<1>2. Latest \in {at[r] : r \in Rooms} /\ \A r \in Rooms : at[r] <= Latest
  BY <1>1, Zenon DEF Latest
<1>3. QED
  BY <1>2 DEF ServerTypes

LEMMA StylesAre == \A s \in MapStyles : NextStyle[s] \in MapStyles
BY DEF MapStyles, NextStyle

\* Every step is one of these.
LEMMA MapSteps ==
  ASSUME [Next]_vars
  PROVE  \/ \E r \in Rooms : BroadcastCotState(r) \/ JoinRoom(r) \/ PeerMoves(r) \/ SetActiveRoom(r)
         \/ \E g \in Goroutines : Send(g)
         \/ \E r \in Rooms, m \in Theirs : PeerPlaces(r, m) \/ PeerDeletes(r, m)
         \/ \E m \in Mine, v \in FormValues : HandlePlaceMarker(m, v)
         \/ \E p \in Markers \cup {"contact"} : SelectPin(p)
         \/ \E b \in BOOLEAN : ShareLocation(b) \/ SetProtomapsApiKey(b)
         \/ PeerLeaves \/ OpenForm \/ OpenAddMarker \/ CancelForm \/ ClosePopover
         \/ HandleDeleteMarker \/ CycleMapStyle \/ Deliver \/ ConnectionLost \/ Reconnect
         \/ Age \/ WatchPosition \/ UNCHANGED vars
<1>1. \A name \in Names : [FormDefaults EXCEPT !.name = name] \in FormValues
  BY DEF FormDefaults, FormValues, Names, CotTypes, Affiliations
<1>2. {"hub", "me", "peer"} = Goroutines
  BY DEF Goroutines
<1>3. CASE UNCHANGED vars
  BY <1>3
<1>4. CASE Hub
  BY <1>2, <1>4 DEF Hub
<1>5. CASE Me
  BY <1>2, <1>5 DEF Me
<1>6. CASE Peer
  BY <1>2, <1>6 DEF Peer
<1>7. CASE User
  BY <1>1, <1>7 DEF User
<1>8. CASE Link
  BY <1>8 DEF Link
<1>9. QED
  BY <1>3, <1>4, <1>5, <1>6, <1>7, <1>8 DEF Next

-----------------------------------------------------------------------------
(* Types *)

LEMMA InitMap == Init => MapInv
<1> SUFFICES ASSUME Init PROVE MapInv
  OBVIOUS
<1> USE MapAssumption
<1>1. active \in Rooms
  BY DEF Init
<1>2. ServerTypes /\ Counted
  BY DEF Init, ServerTypes, Nowhere, Counted
<1>3. LinkTypes
  BY EmptySeq DEF Init, LinkTypes
<1>4. StoreTypes /\ MapTypes /\ DialogTypes
  <2>1. 0 \in 0..MaxMoves /\ 1 \in 1..MaxMaps /\ 0 \in 0..MaxClicks
    OBVIOUS
  <2>2. StoreTypes
    <3>1. /\ cotMarkers = [r \in Rooms |-> {}] /\ cotContacts = [r \in Rooms |-> 0]
          /\ selfPosition = FALSE /\ located = FALSE /\ style = "dark" /\ apiKey = FALSE
      BY DEF Init, Nowhere
    <3>2. QED
      BY <1>1, <2>1, <3>1 DEF StoreTypes, MapStyles
  <2>3. MapTypes
    <3>1. pins = {} /\ contactPin = NoPin /\ selfPin = FALSE /\ maps = 1
      BY DEF Init
    <3>2. NoPin \in [at : 0..MaxMoves, faded : BOOLEAN] /\ NoPin.at = 0
      BY <2>1 DEF NoPin
    <3>3. QED
      BY <2>1, <3>1, <3>2 DEF MapTypes
  <2>4. DialogTypes
    <3>1. selected = None /\ form = FALSE /\ clicks = 0
      BY DEF Init
    <3>2. QED
      BY <2>1, <3>1 DEF DialogTypes
  <2>5. QED
    BY <2>2, <2>3, <2>4
<1>5. Sent = {}
  <2>1. DOMAIN down = {} /\ \A g \in Goroutines : out[g] = None
    BY DEF Init
  <2>2. QED
    BY <2>1 DEF Sent
<1>6. \A m, r : r \in Rooms => ~Somewhere(m, r)
  BY <1>5 DEF Somewhere, Init
<1>7. QED
  BY <1>2, <1>3, <1>4, <1>6 DEF MapInv, TypeOK, OneRoom, Placed, Init, Markers

\* What a step leaves alone keeps its type.
LEMMA MapFrames ==
  ASSUME TypeOK, Counted
  PROVE  /\ UNCHANGED <<server, identity>> => ServerTypes'
         /\ UNCHANGED <<out, link>> => LinkTypes'
         /\ UNCHANGED store => StoreTypes'
         /\ UNCHANGED <<pinned, active, cotMarkers, cotContacts>> => MapTypes'
         /\ UNCHANGED dialogs => DialogTypes'
         /\ UNCHANGED <<at, link>> => Counted'
<1> USE DEF TypeOK
<1>1. UNCHANGED <<server, identity>> => ServerTypes'
  BY DEF server, ServerTypes
<1>2. UNCHANGED <<out, link>> => LinkTypes'
  BY DEF link, LinkTypes
<1>3. UNCHANGED store => StoreTypes'
  BY DEF store, settings, StoreTypes
<1>4. UNCHANGED <<pinned, active, cotMarkers, cotContacts>> => MapTypes'
  BY DEF pinned, MapTypes
<1>5. UNCHANGED dialogs => DialogTypes'
  BY DEF dialogs, DialogTypes
<1>6. UNCHANGED <<at, link>> => Counted'
  BY DEF Counted, link
<1>7. QED
  BY <1>1, <1>2, <1>3, <1>4, <1>5, <1>6

LEMMA ReadTypes ==
  ASSUME LinkTypes, NEW g \in Goroutines, NEW e \in Messages, Read(g, e), UNCHANGED link
  PROVE  LinkTypes'
BY DEF LinkTypes, Read, link

LEMMA CreateMapMarkerTypes ==
  ASSUME TypeOK, NEW g \in Goroutines, NEW r \in Rooms, NEW m \in Markers,
         NEW by \in 0..identity, CreateMapMarker(g, r, m, by),
         UNCHANGED <<at, present, members, shared, aged, link>>
  PROVE  ServerTypes' /\ LinkTypes'
<1>1. by # None /\ identity \in Nat
  BY MapAssumption DEF TypeOK, LinkTypes
<1>2. \A s \in Rooms : m \notin markers[s]
  BY DEF TypeOK, ServerTypes, CreateMapMarker
<1>3. ServerTypes'
  <2>1. /\ markers' \in [Rooms -> SUBSET Markers]
        /\ \A s \in Rooms : markers'[s] = IF s = r THEN markers[r] \cup {m} ELSE markers[s]
    BY DEF TypeOK, ServerTypes, CreateMapMarker
  <2>2. /\ creator' \in [Markers -> 0..identity \cup {None}]
        /\ \A x \in Markers : creator'[x] = IF x = m THEN by ELSE creator[x]
    BY DEF TypeOK, ServerTypes, CreateMapMarker
  <2>3. \A s \in Rooms : \A x \in markers'[s] :
          creator'[x] # None /\ \A q \in Rooms \ {s} : x \notin markers'[q]
    BY <1>1, <1>2, <2>1, <2>2, SMTT(30) DEF TypeOK, ServerTypes
  <2>4. QED
    BY <2>1, <2>2, <2>3 DEF TypeOK, ServerTypes, link
<1>4. LinkTypes'
  BY MessagesAre, ReadTypes DEF TypeOK, CreateMapMarker
<1>5. QED
  BY <1>3, <1>4

LEMMA DeleteMapMarkerTypes ==
  ASSUME TypeOK, NEW g \in Goroutines, NEW r \in Rooms, NEW m \in Markers, NEW by,
         DeleteMapMarker(g, r, m, by),
         UNCHANGED <<creator, at, present, members, shared, aged, link>>
  PROVE  ServerTypes' /\ LinkTypes'
<1>1. CASE UNCHANGED <<markers, out>>
  BY <1>1 DEF TypeOK, ServerTypes, LinkTypes, link
<1>2. CASE /\ markers' = [markers EXCEPT ![r] = @ \ {m}]
           /\ Read(g, News("marker_deleted", r, m))
  <2>1. LinkTypes'
    BY <1>2, MessagesAre, ReadTypes DEF TypeOK
  <2>2. /\ markers' \in [Rooms -> SUBSET Markers]
        /\ \A s \in Rooms : markers'[s] \subseteq markers[s]
    BY <1>2 DEF TypeOK, ServerTypes
  <2>3. ServerTypes'
    BY <2>2 DEF TypeOK, ServerTypes, link
  <2>4. QED
    BY <2>1, <2>3
<1>3. QED
  BY <1>1, <1>2 DEF DeleteMapMarker

LEMMA AnewTypes ==
  ASSUME StoreTypes, MapTypes, Anew, UNCHANGED <<active, cotMarkers, cotContacts>>
  PROVE  MapTypes'
<1>1. maps' \in 1..MaxMaps
  BY MapAssumption DEF Anew, MapTypes
<1>2. contactPin' \in [at : 0..MaxMoves, faded : BOOLEAN] /\ contactPin'.at = 0
  BY MapAssumption DEF Anew, NoPin
<1>3. QED
  BY <1>1, <1>2 DEF Anew, MapTypes

LEMMA ClickTypes ==
  ASSUME DialogTypes, Click
  PROVE  clicks' \in 0..MaxClicks
BY MapAssumption DEF DialogTypes, Click

LEMMA ShowContactsTypes ==
  ASSUME NEW n \in 0..MaxMoves, ShowContacts(n)
  PROVE  contactPin' \in [at : 0..MaxMoves, faded : BOOLEAN] /\ contactPin'.at = n
BY DEF ShowContacts

\* The effects run for the room on the screen when what they show has changed.
LEMMA HandleTypes ==
  ASSUME StoreTypes, MapTypes, NEW e \in Messages, Handle(e),
         UNCHANGED <<active, selfPosition, settings, selfPin, maps>>
  PROVE  StoreTypes' /\ MapTypes'
<1> USE DEF StoreTypes, MapTypes, settings
<1>1. CASE e.type = "cot_state"
  <2>1. /\ e.room \in Rooms /\ e.markers \subseteq Markers /\ e.at \in 0..MaxMoves
        /\ SetCotMarkers(e.room, e.markers) /\ SetCotContacts(e.room, e.at)
        /\ IF e.room = active
           THEN ShowMarkers(cotMarkers'[active]) /\ ShowContacts(cotContacts'[active])
           ELSE UNCHANGED <<pins, contactPin>>
    BY <1>1, MessagesAre DEF Handle
  <2>2. /\ cotMarkers' \in [Rooms -> SUBSET Markers] /\ cotContacts' \in [Rooms -> 0..MaxMoves]
        /\ e.room # active => UNCHANGED <<cotMarkers[active], cotContacts[active]>>
    BY <2>1 DEF SetCotMarkers, SetCotContacts
  <2>3. CASE e.room = active
    <3>1. pins' = cotMarkers'[active]
      BY <2>1, <2>3 DEF ShowMarkers
    <3>2. /\ contactPin' \in [at : 0..MaxMoves, faded : BOOLEAN]
          /\ contactPin'.at = cotContacts'[active]
      BY <2>1, <2>2, <2>3, ShowContactsTypes
    <3>3. QED
      BY <2>2, <3>1, <3>2
  <2>4. QED
    BY <2>1, <2>2, <2>3
<1>2. CASE e.type = "marker_created"
  BY <1>2, MessagesAre DEF Handle, AddCotMarker, ShowMarkers
<1>3. CASE e.type = "marker_deleted"
  BY <1>3, MessagesAre DEF Handle, RemoveCotMarker, ShowMarkers
<1>4. QED
  BY <1>1, <1>2, <1>3, MessagesAre

LEMMA StepMapTypes == MapInv /\ [Next]_vars => TypeOK' /\ Counted'
<1> SUFFICES ASSUME MapInv, [Next]_vars
             PROVE  TypeOK' /\ Counted'
  OBVIOUS
<1>0. TypeOK /\ Counted
  BY DEF MapInv
<1> USE DEF TypeOK
<1>1. ASSUME NEW r \in Rooms, BroadcastCotState(r)
      PROVE  TypeOK' /\ Counted'
  <2>1. LinkTypes'
    <3>1. "hub" \in Goroutines /\ CotState(r) \in Messages
      BY <1>0, MessagesAre DEF Goroutines
    <3>2. Read("hub", CotState(r)) /\ UNCHANGED link
      BY <1>1 DEF BroadcastCotState
    <3>3. QED
      BY <1>0, <3>1, <3>2, ReadTypes
  <2>2. QED
    BY <1>0, <1>1, <2>1, MapFrames DEF BroadcastCotState, server, link, store
<1>2. ASSUME NEW r \in Rooms, JoinRoom(r)
      PROVE  TypeOK' /\ Counted'
  <2>1. LinkTypes'
    <3>1. CASE UNCHANGED out
      BY <1>0, <1>2, <3>1, MapFrames DEF JoinRoom
    <3>2. CASE Read("me", CotState(r))
      BY <1>0, <1>2, <3>2, MessagesAre, ReadTypes DEF JoinRoom, Goroutines
    <3>3. QED
      BY <1>2, <3>1, <3>2 DEF JoinRoom
  <2>2. ServerTypes'
    BY <1>0, <1>2 DEF JoinRoom, ServerTypes, link
  <2>3. QED
    BY <1>0, <1>2, <2>1, <2>2, MapFrames DEF JoinRoom, link, store
<1>3. ASSUME NEW r \in Rooms, PeerMoves(r)
      PROVE  TypeOK' /\ Counted'
  <2>1. /\ Latest \in 0..MaxMoves /\ Latest < MaxMoves
        /\ \A s \in Rooms : at[s] <= Latest /\ at[s] \in 0..MaxMoves
    BY <1>0, <1>3, LatestIs DEF PeerMoves, ServerTypes
  <2>2. \A s \in Rooms : at'[s] = IF s = r THEN Latest + 1 ELSE at[s]
    BY <1>0, <1>3 DEF PeerMoves, ServerTypes
  <2>3. \A s \in Rooms : at'[s] <= at'[r]
    BY <2>1, <2>2, MapAssumption
  <2>4. at' \in [Rooms -> 0..MaxMoves]
    BY <1>0, <1>3, <2>1, MapAssumption DEF PeerMoves, ServerTypes
  <2>5. ServerTypes'
    BY <1>0, <1>3, <2>4 DEF PeerMoves, ServerTypes, link
  <2>6. Counted'
    BY <1>0, <1>3, <2>3 DEF PeerMoves, Counted, link
  <2>7. DialogTypes'
    BY <1>0, <1>3, ClickTypes DEF PeerMoves, DialogTypes
  <2>8. QED
    BY <1>0, <1>3, <2>5, <2>6, <2>7, MapFrames DEF PeerMoves, link, store
<1>4. ASSUME NEW r \in Rooms, SetActiveRoom(r)
      PROVE  TypeOK' /\ Counted'
  <2>1. cotContacts[r] \in 0..MaxMoves
    BY <1>0 DEF StoreTypes
  <2>2. StoreTypes'
    BY <1>0, <1>4 DEF SetActiveRoom, StoreTypes, settings
  <2>3. MapTypes'
    BY <1>0, <1>4, <2>1, ShowContactsTypes DEF SetActiveRoom, MapTypes, ShowMarkers
  <2>4. DialogTypes'
    BY <1>0, <1>4, ClickTypes DEF SetActiveRoom, DialogTypes
  <2>5. QED
    BY <1>0, <1>4, <2>2, <2>3, <2>4, MapFrames DEF SetActiveRoom, server, link
<1>5. ASSUME NEW g \in Goroutines, Send(g)
      PROVE  TypeOK' /\ Counted'
  <2>1. LinkTypes'
    <3>1. out[g] \in Messages /\ out' = [out EXCEPT ![g] = None]
      BY <1>0, <1>5 DEF Send, LinkTypes
    <3>2. out' \in [Goroutines -> Messages \cup {None}]
      BY <1>0, <3>1 DEF LinkTypes
    <3>3. down' \in Seq(Messages)
      BY <1>0, <1>5, <3>1 DEF Send, LinkTypes
    <3>4. QED
      BY <1>0, <1>5, <3>2, <3>3 DEF Send, LinkTypes
  <2>2. QED
    BY <1>0, <1>5, <2>1, MapFrames DEF Send, server, link, store, Counted
<1>6. ASSUME NEW r \in Rooms, NEW m \in Theirs, PeerPlaces(r, m)
      PROVE  TypeOK' /\ Counted'
  <2>1. 0 \in 0..identity /\ m \in Markers /\ "peer" \in Goroutines
    BY <1>0, MapAssumption DEF LinkTypes, Markers, Goroutines
  <2>2. ServerTypes' /\ LinkTypes'
    BY <1>0, <1>6, <2>1, CreateMapMarkerTypes DEF PeerPlaces
  <2>3. DialogTypes'
    BY <1>0, <1>6, ClickTypes DEF PeerPlaces, DialogTypes
  <2>4. QED
    BY <1>0, <1>6, <2>2, <2>3, MapFrames DEF PeerPlaces, store
<1>7. ASSUME NEW r \in Rooms, NEW m \in Theirs, PeerDeletes(r, m)
      PROVE  TypeOK' /\ Counted'
  <2>1. m \in Markers /\ "peer" \in Goroutines
    BY DEF Markers, Goroutines
  <2>2. ServerTypes' /\ LinkTypes'
    BY <1>0, <1>7, <2>1, DeleteMapMarkerTypes DEF PeerDeletes
  <2>3. DialogTypes'
    BY <1>0, <1>7, ClickTypes DEF PeerDeletes, DialogTypes
  <2>4. QED
    BY <1>0, <1>7, <2>2, <2>3, MapFrames DEF PeerDeletes, store
<1>8. ASSUME NEW m \in Mine, NEW v \in FormValues, HandlePlaceMarker(m, v)
      PROVE  TypeOK' /\ Counted'
  <2>1. identity \in 0..identity /\ active \in Rooms /\ m \in Markers /\ "me" \in Goroutines
    BY <1>0, MapAssumption DEF LinkTypes, StoreTypes, Markers, Goroutines
  <2>2. ServerTypes' /\ LinkTypes'
    <3>1. CASE UNCHANGED <<markers, creator, out>>
      BY <1>0, <1>8, <3>1, MapFrames DEF HandlePlaceMarker, server, link
    <3>2. CASE CreateMapMarker("me", active, m, identity)
      BY <1>0, <1>8, <2>1, <3>2, CreateMapMarkerTypes DEF HandlePlaceMarker
    <3>3. QED
      BY <1>8, <3>1, <3>2 DEF HandlePlaceMarker
  <2>3. DialogTypes'
    BY <1>0, <1>8, ClickTypes DEF HandlePlaceMarker, DialogTypes
  <2>4. QED
    BY <1>0, <1>8, <2>2, <2>3, MapFrames DEF HandlePlaceMarker, store
<1>9. ASSUME NEW p \in Markers \cup {"contact"}, SelectPin(p)
      PROVE  TypeOK' /\ Counted'
  <2>1. DialogTypes'
    BY <1>0, <1>9, ClickTypes DEF SelectPin, DialogTypes
  <2>2. QED
    BY <1>0, <1>9, <2>1, MapFrames DEF SelectPin, server, link, store
<1>10. ASSUME NEW b \in BOOLEAN, ShareLocation(b)
       PROVE  TypeOK' /\ Counted'
  <2>1. StoreTypes'
    BY <1>0, <1>10 DEF ShareLocation, StoreTypes
  <2>2. DialogTypes'
    BY <1>0, <1>10, ClickTypes DEF ShareLocation, DialogTypes
  <2>3. QED
    BY <1>0, <1>10, <2>1, <2>2, MapFrames DEF ShareLocation, server, link
<1>11. ASSUME NEW b \in BOOLEAN, SetProtomapsApiKey(b)
       PROVE  TypeOK' /\ Counted'
  <2>1. StoreTypes'
    BY <1>0, <1>11 DEF SetProtomapsApiKey, StoreTypes
  <2>2. MapTypes'
    BY <1>0, <1>11, AnewTypes DEF SetProtomapsApiKey
  <2>3. DialogTypes'
    BY <1>0, <1>11, ClickTypes DEF SetProtomapsApiKey, DialogTypes
  <2>4. QED
    BY <1>0, <1>11, <2>1, <2>2, <2>3, MapFrames DEF SetProtomapsApiKey, server, link
<1>12. CASE PeerLeaves
  <2>1. ServerTypes'
    BY <1>0, <1>12 DEF PeerLeaves, ServerTypes, link
  <2>2. DialogTypes'
    BY <1>0, <1>12, ClickTypes DEF PeerLeaves, DialogTypes
  <2>3. QED
    BY <1>0, <1>12, <2>1, <2>2, MapFrames DEF PeerLeaves, store, link
<1>13. CASE OpenForm \/ OpenAddMarker \/ CancelForm \/ ClosePopover
  <2>1. DialogTypes'
    BY <1>0, <1>13 DEF OpenForm, OpenAddMarker, CancelForm, ClosePopover, DialogTypes
  <2>2. UNCHANGED <<server, out, link, store, pinned>>
    BY <1>13 DEF OpenForm, OpenAddMarker, CancelForm, ClosePopover
  <2>3. QED
    BY <1>0, <2>1, <2>2, MapFrames DEF server, link, store
<1>14. CASE HandleDeleteMarker
  <2>1. selected \in Markers /\ active \in Rooms /\ "me" \in Goroutines
    BY <1>0, <1>14 DEF HandleDeleteMarker, DeleteOffered, StoreTypes, Goroutines
  <2>2. ServerTypes' /\ LinkTypes'
    <3>1. CASE UNCHANGED <<markers, out>>
      BY <1>0, <1>14, <3>1, MapFrames DEF HandleDeleteMarker, server, link
    <3>2. CASE DeleteMapMarker("me", active, selected, identity)
      BY <1>0, <1>14, <2>1, <3>2, DeleteMapMarkerTypes DEF HandleDeleteMarker
    <3>3. QED
      BY <1>14, <3>1, <3>2 DEF HandleDeleteMarker
  <2>3. DialogTypes'
    BY <1>0, <1>14, ClickTypes DEF HandleDeleteMarker, DialogTypes
  <2>4. QED
    BY <1>0, <1>14, <2>2, <2>3, MapFrames DEF HandleDeleteMarker, store
<1>15. CASE CycleMapStyle
  <2>1. StoreTypes'
    BY <1>0, <1>15, StylesAre DEF CycleMapStyle, StoreTypes
  <2>2. MapTypes'
    <3>1. CASE UNCHANGED pinned
      BY <1>0, <1>15, <3>1, MapFrames DEF CycleMapStyle
    <3>2. CASE Anew
      BY <1>0, <1>15, <3>2, AnewTypes DEF CycleMapStyle
    <3>3. QED
      BY <1>15, <3>1, <3>2 DEF CycleMapStyle
  <2>3. DialogTypes'
    BY <1>0, <1>15, ClickTypes DEF CycleMapStyle, DialogTypes
  <2>4. QED
    BY <1>0, <1>15, <2>1, <2>2, <2>3, MapFrames DEF CycleMapStyle, server, link
<1>16. CASE Deliver
  <2>1. Head(down) \in Messages /\ LinkTypes'
    BY <1>0, <1>16 DEF Deliver, LinkTypes
  <2>2. StoreTypes' /\ MapTypes'
    BY <1>0, <1>16, <2>1, HandleTypes DEF Deliver
  <2>3. QED
    BY <1>0, <1>16, <2>1, <2>2, MapFrames DEF Deliver, Counted, server
<1>17. CASE ConnectionLost
  <2>1. ServerTypes'
    BY <1>0, <1>17 DEF ConnectionLost, ServerTypes
  <2>2. LinkTypes' /\ Counted'
    <3>1. out' \in [Goroutines -> Messages \cup {None}] /\ down' \in Seq(Messages)
      BY <1>0, <1>17, EmptySeq DEF ConnectionLost, LinkTypes
    <3>2. /\ connected /\ losses' = losses + 1 /\ ~connected' /\ identity' = identity
          /\ losses < MaxLosses /\ losses \in 0..MaxLosses /\ at' = at
      BY <1>0, <1>17 DEF ConnectionLost, LinkTypes
    <3>3. losses' \in 0..MaxLosses /\ identity' = losses'
      BY <1>0, <3>2, MapAssumption DEF Counted
    <3>4. connected' \in BOOLEAN
      BY <1>17 DEF ConnectionLost
    <3>5. QED
      BY <1>0, <3>1, <3>2, <3>3, <3>4 DEF LinkTypes, Counted
  <2>3. /\ cotMarkers' = [r \in Rooms |-> {}] /\ cotContacts' = [r \in Rooms |-> 0]
        /\ 0 \in 0..MaxMoves
    BY <1>17, MapAssumption DEF ConnectionLost, Nowhere
  <2>4. StoreTypes'
    <3>1. cotContacts' \in [Rooms -> 0..MaxMoves] /\ cotMarkers' \in [Rooms -> SUBSET Markers]
      BY <2>3
    <3>2. UNCHANGED <<active, settings>> /\ selfPosition' \in BOOLEAN
      BY <1>17 DEF ConnectionLost
    <3>3. QED
      BY <1>0, <3>1, <3>2 DEF StoreTypes, settings
  <2>5. MapTypes'
    BY <1>0, <1>17, <2>3, ShowContactsTypes DEF ConnectionLost, ShowMarkers, MapTypes
  <2>6. QED
    BY <1>0, <1>17, <2>1, <2>2, <2>4, <2>5, MapFrames DEF ConnectionLost
<1>18. CASE Reconnect
  <2>1. LinkTypes' /\ Counted'
    BY <1>0, <1>18, MapAssumption DEF Reconnect, LinkTypes, Counted, server
  <2>2. ServerTypes'
    <3>1. 0..identity \subseteq 0..identity'
      BY <1>0, <1>18 DEF Reconnect, LinkTypes
    <3>2. QED
      BY <1>0, <1>18, <3>1 DEF Reconnect, ServerTypes, server
  <2>3. QED
    BY <1>0, <1>18, <2>1, <2>2, MapFrames DEF Reconnect, store
<1>19. CASE Age
  <2>1. aged' \in 0..MaxMoves
    BY <1>0, <1>19, LatestIs, MapAssumption DEF Age, ServerTypes
  <2>2. ServerTypes'
    BY <1>0, <1>19, <2>1 DEF Age, ServerTypes, link
  <2>3. QED
    BY <1>0, <1>19, <2>2, MapFrames DEF Age, link, store
<1>20. CASE WatchPosition
  <2>1. ServerTypes'
    BY <1>0, <1>20 DEF WatchPosition, SendPosition, ServerTypes, link
  <2>2. StoreTypes' /\ MapTypes'
    BY <1>0, <1>20 DEF WatchPosition, ShowSelf, StoreTypes, MapTypes, settings
  <2>3. QED
    BY <1>0, <1>20, <2>1, <2>2, MapFrames DEF WatchPosition, link
<1>21. CASE UNCHANGED vars
  BY <1>0, <1>21, MapFrames DEF vars, server, link, store
<1>22. QED
  BY MapSteps, <1>1, <1>2, <1>3, <1>4, <1>5, <1>6, <1>7, <1>8, <1>9, <1>10, <1>11, <1>12,
     <1>13, <1>14, <1>15, <1>16, <1>17, <1>18, <1>19, <1>20, <1>21

-----------------------------------------------------------------------------
(* Where markers are *)

\* What is new: nothing, or a marker that is placed.
Kept == \A m \in Markers, r \in Rooms : Somewhere(m, r)' => Somewhere(m, r)
Appears(m, r) ==
  \A n \in Markers, s \in Rooms : Somewhere(n, s)' => Somewhere(n, s) \/ (n = m /\ s = r)

PlacedNow(m, r) ==
  /\ Appears(m, r) /\ creator[m] = None /\ creator'[m] # None
  /\ \A n \in Markers : n # m => creator'[n] = creator[n]
KeptOrPlaced == (Kept /\ UNCHANGED creator) \/ \E m \in Markers, r \in Rooms : PlacedNow(m, r)

\* A step that puts nothing under way.
LEMMA KeptWhen ==
  ASSUME Sent' \subseteq Sent,
         \A r \in Rooms : markers'[r] \subseteq markers[r] /\ cotMarkers'[r] \subseteq cotMarkers[r]
  PROVE  Kept
BY DEF Kept, Somewhere

\* What a goroutine reads is all it adds.
LEMMA ReadAdds ==
  ASSUME LinkTypes, NEW g \in Goroutines, NEW e, Read(g, e), UNCHANGED down
  PROVE  Sent' \subseteq Sent \cup {e}
BY DEF LinkTypes, Read, Sent

LEMMA CreateMapMarkerPlaces ==
  ASSUME MapInv, NEW g \in Goroutines, NEW r \in Rooms, NEW m \in Markers,
         NEW by \in 0..identity, CreateMapMarker(g, r, m, by), UNCHANGED <<down, cotMarkers>>
  PROVE  PlacedNow(m, r)
<1>1. creator[m] = None /\ creator'[m] = by /\ \A n \in Markers : n # m => creator'[n] = creator[n]
  BY DEF MapInv, TypeOK, ServerTypes, CreateMapMarker
<1>2. by # None
  BY MapAssumption DEF MapInv, TypeOK, LinkTypes
<1>3. Sent' \subseteq Sent \cup {News("marker_created", r, m)}
  BY ReadAdds DEF MapInv, TypeOK, CreateMapMarker
<1>4. \A s \in Rooms : markers'[s] = IF s = r THEN markers[r] \cup {m} ELSE markers[s]
  BY DEF MapInv, TypeOK, ServerTypes, CreateMapMarker
<1>5. Appears(m, r)
  BY <1>3, <1>4, MessagesAre DEF Appears, Somewhere
<1>6. QED
  BY <1>1, <1>2, <1>5 DEF PlacedNow

\* A message about a marker names the room it is in.
LEMMA DeleteMapMarkerKeeps ==
  ASSUME MapInv, NEW g \in Goroutines, NEW r \in Rooms, NEW m \in Markers, NEW by,
         DeleteMapMarker(g, r, m, by), UNCHANGED <<down, cotMarkers>>
  PROVE  Kept
<1>1. CASE UNCHANGED <<markers, out>>
  BY <1>1 DEF Kept, Somewhere, Sent
<1>2. CASE /\ m \in markers[r] /\ markers' = [markers EXCEPT ![r] = @ \ {m}]
           /\ Read(g, News("marker_deleted", r, m))
  <2>1. Sent' \subseteq Sent \cup {News("marker_deleted", r, m)}
    BY <1>2, ReadAdds DEF MapInv, TypeOK
  <2>2. \A s \in Rooms : markers'[s] \subseteq markers[s]
    BY <1>2 DEF MapInv, TypeOK, ServerTypes
  <2>3. Somewhere(m, r)
    BY <1>2 DEF Somewhere
  <2>4. QED
    BY <2>1, <2>2, <2>3, MessagesAre DEF Kept, Somewhere
<1>3. QED
  BY <1>1, <1>2 DEF DeleteMapMarker

LEMMA ReadStateKeeps ==
  ASSUME MapInv, NEW g \in Goroutines, NEW r \in Rooms, Read(g, CotState(r)),
         UNCHANGED <<markers, down, cotMarkers>>
  PROVE  Kept
<1>1. Sent' \subseteq Sent \cup {CotState(r)}
  BY ReadAdds DEF MapInv, TypeOK
<1>2. CotState(r).room = r /\ Named(CotState(r)) = markers[r]
  BY MessagesAre DEF MapInv, TypeOK
<1>3. \A m \in markers[r] : Somewhere(m, r)
  BY DEF Somewhere
<1>4. QED
  BY <1>1, <1>2, <1>3 DEF Kept, Somewhere

LEMMA SendKeeps ==
  ASSUME MapInv, NEW g \in Goroutines, Send(g)
  PROVE  Kept
<1>1. /\ out[g] \in Messages /\ out[g] # None /\ out[g] \in Sent
      /\ \A h \in Goroutines : out'[h] = out[h] \/ out'[h] = None
  BY DEF MapInv, TypeOK, LinkTypes, Send, Sent
<1>2. \A i \in DOMAIN down' : (i \in DOMAIN down /\ down'[i] = down[i]) \/ down'[i] = out[g]
  <2>1. down \in Seq(Messages) /\ (down' = down \/ down' = Append(down, out[g]))
    BY DEF MapInv, TypeOK, LinkTypes, Send
  <2>2. CASE down' = Append(down, out[g])
    BY <1>1, <2>1, <2>2, AppendProperties, LenProperties
  <2>3. QED
    BY <2>1, <2>2
<1>3. Sent' \subseteq Sent
  BY <1>1, <1>2 DEF Sent
<1>4. UNCHANGED <<markers, cotMarkers>>
  BY DEF Send, server, store
<1>5. QED
  BY <1>3, <1>4, KeptWhen

LEMMA DeliverKeeps ==
  ASSUME MapInv, Deliver
  PROVE  Kept
<1> DEFINE e == Head(down)
<1>1. down \in Seq(Messages) /\ down # <<>> /\ down' = Tail(down) /\ Handle(e)
  BY DEF MapInv, TypeOK, LinkTypes, Deliver
<1>2. /\ e \in Messages /\ 1 \in DOMAIN down /\ e = down[1]
      /\ \A i \in DOMAIN Tail(down) : i + 1 \in DOMAIN down /\ Tail(down)[i] = down[i + 1]
  BY <1>1, HeadTailProperties, LenProperties, EmptySeq
<1>3. e \in Sent /\ Sent' \subseteq Sent
  BY <1>1, <1>2 DEF Sent, Deliver
<1> HIDE DEF e
<1>4. \A r \in Rooms : \A m \in cotMarkers'[r] :
        m \in cotMarkers[r] \/ (r = e.room /\ m \in Named(e))
  <2>1. cotMarkers \in [Rooms -> SUBSET Markers] /\ e.room \in Rooms
    BY <1>2, MessagesAre DEF MapInv, TypeOK, StoreTypes
  <2>2. CASE e.type = "cot_state"
    BY <1>1, <2>1, <2>2 DEF Handle, SetCotMarkers, Named
  <2>3. CASE e.type = "marker_created"
    BY <1>1, <2>1, <2>3 DEF Handle, AddCotMarker, Named
  <2>4. CASE e.type = "marker_deleted"
    BY <1>1, <2>1, <2>4 DEF Handle, RemoveCotMarker
  <2>5. QED
    BY <1>2, <2>2, <2>3, <2>4, MessagesAre
<1>5. UNCHANGED markers
  BY DEF Deliver, server
<1>6. QED
  BY <1>3, <1>4, <1>5 DEF Kept, Somewhere

\* No step but placing a marker puts it anywhere, nor gives it a creator.
LEMMA StepKeeps ==
  ASSUME MapInv, [Next]_vars
  PROVE  KeptOrPlaced
<1> USE DEF KeptOrPlaced
<1>0. "hub" \in Goroutines /\ "me" \in Goroutines /\ "peer" \in Goroutines
  BY DEF Goroutines
<1>1. ASSUME UNCHANGED <<markers, creator, out, down, cotMarkers>>
      PROVE  KeptOrPlaced
  BY <1>1 DEF Kept, Somewhere, Sent
<1>2. ASSUME NEW r \in Rooms,
             BroadcastCotState(r) \/ JoinRoom(r) \/ PeerMoves(r) \/ SetActiveRoom(r)
      PROVE  KeptOrPlaced
  <2>1. UNCHANGED <<markers, creator, down, cotMarkers>>
    BY <1>2 DEF BroadcastCotState, JoinRoom, PeerMoves, SetActiveRoom, server, link, store
  <2>2. UNCHANGED out \/ Read("hub", CotState(r)) \/ Read("me", CotState(r))
    BY <1>2 DEF BroadcastCotState, JoinRoom, PeerMoves, SetActiveRoom
  <2>3. QED
    BY <1>0, <1>1, <2>1, <2>2, ReadStateKeeps
<1>3. ASSUME NEW g \in Goroutines, Send(g)
      PROVE  KeptOrPlaced
  BY <1>3, SendKeeps DEF Send, server
<1>4. ASSUME NEW r \in Rooms, NEW m \in Theirs, PeerPlaces(r, m)
      PROVE  KeptOrPlaced
  <2>1. m \in Markers /\ 0 \in 0..identity /\ CreateMapMarker("peer", r, m, 0)
        /\ UNCHANGED <<down, cotMarkers>>
    BY <1>4, MapAssumption DEF Markers, MapInv, TypeOK, LinkTypes, PeerPlaces, link, store
  <2>2. QED
    BY <1>0, <2>1, CreateMapMarkerPlaces
<1>5. ASSUME NEW r \in Rooms, NEW m \in Theirs, PeerDeletes(r, m)
      PROVE  KeptOrPlaced
  <2>1. m \in Markers /\ DeleteMapMarker("peer", r, m, 0) /\ UNCHANGED <<creator, down, cotMarkers>>
    BY <1>5 DEF Markers, PeerDeletes, link, store
  <2>2. QED
    BY <1>0, <2>1, DeleteMapMarkerKeeps
<1>6. ASSUME NEW m \in Mine, NEW v \in FormValues, HandlePlaceMarker(m, v)
      PROVE  KeptOrPlaced
  <2>1. /\ m \in Markers /\ identity \in 0..identity /\ active \in Rooms
        /\ UNCHANGED <<down, cotMarkers>>
    BY <1>6, MapAssumption
    DEF Markers, MapInv, TypeOK, LinkTypes, StoreTypes, HandlePlaceMarker, link, store
  <2>2. CASE UNCHANGED <<markers, creator, out>>
    BY <1>1, <2>1, <2>2
  <2>3. CASE CreateMapMarker("me", active, m, identity)
    BY <1>0, <2>1, <2>3, CreateMapMarkerPlaces
  <2>4. QED
    BY <1>6, <2>2, <2>3 DEF HandlePlaceMarker
<1>7. CASE HandleDeleteMarker
  <2>1. selected \in Markers /\ active \in Rooms /\ UNCHANGED <<creator, down, cotMarkers>>
    BY <1>7 DEF HandleDeleteMarker, DeleteOffered, MapInv, TypeOK, StoreTypes, link, store
  <2>2. CASE UNCHANGED <<markers, out>>
    BY <1>1, <2>1, <2>2
  <2>3. CASE DeleteMapMarker("me", active, selected, identity)
    BY <1>0, <2>1, <2>3, DeleteMapMarkerKeeps
  <2>4. QED
    BY <1>7, <2>2, <2>3 DEF HandleDeleteMarker
<1>8. CASE Deliver
  BY <1>8, DeliverKeeps DEF Deliver, server
<1>9. CASE ConnectionLost
  <2>1. Sent' \subseteq Sent
    <3>1. /\ down' = <<>> /\ out' = [out EXCEPT !["me"] = None]
          /\ out \in [Goroutines -> Messages \cup {None}]
      BY <1>9 DEF ConnectionLost, MapInv, TypeOK, LinkTypes
    <3>2. DOMAIN down' = {} /\ \A g \in Goroutines : out'[g] \in {out[g], None}
      BY <3>1, EmptySeq
    <3>3. QED
      BY <3>2 DEF Sent
  <2>2. QED
    BY <1>9, <2>1, KeptWhen DEF ConnectionLost
<1>10. ASSUME NEW b \in BOOLEAN, ShareLocation(b) \/ SetProtomapsApiKey(b)
       PROVE  KeptOrPlaced
  BY <1>1, <1>10 DEF ShareLocation, SetProtomapsApiKey, server, link
<1>11. ASSUME NEW p \in Markers \cup {"contact"}, SelectPin(p)
       PROVE  KeptOrPlaced
  BY <1>1, <1>11 DEF SelectPin, server, link, store
<1>12. CASE PeerLeaves \/ OpenForm \/ OpenAddMarker \/ CancelForm \/ ClosePopover \/ Age
  BY <1>1, <1>12
  DEF PeerLeaves, OpenForm, OpenAddMarker, CancelForm, ClosePopover, Age, server, link, store
<1>13. CASE CycleMapStyle \/ Reconnect \/ WatchPosition \/ UNCHANGED vars
  BY <1>1, <1>13 DEF CycleMapStyle, Reconnect, WatchPosition, vars, server, link, store
<1>14. QED
  <2> HIDE DEF KeptOrPlaced
  <2>1. QED
    BY MapSteps, <1>2, <1>3, <1>4, <1>5, <1>6, <1>7, <1>8, <1>9, <1>10, <1>11, <1>12, <1>13

\* Only what is on the map can be selected.
LEMMA StepSelects ==
  ASSUME MapInv, [Next]_vars
  PROVE  selected' \in Markers => selected' \in {selected} \cup pins
<1>1. ASSUME NEW p \in Markers \cup {"contact"}, SelectPin(p)
      PROVE  selected' \in Markers => selected' \in {selected} \cup pins
  BY <1>1, MapAssumption DEF SelectPin, Markers
<1>2. CASE selected' = selected \/ selected' = None
  BY <1>2, MapAssumption DEF Markers
<1>3. (\E p \in Markers \cup {"contact"} : SelectPin(p)) \/ selected' = selected \/ selected' = None
  BY MapSteps
  DEF BroadcastCotState, JoinRoom, PeerMoves, SetActiveRoom, Send, PeerPlaces, PeerDeletes,
      HandlePlaceMarker, ShareLocation, SetProtomapsApiKey, PeerLeaves, OpenForm,
      OpenAddMarker, CancelForm, ClosePopover, HandleDeleteMarker, CycleMapStyle, Deliver,
      ConnectionLost, Reconnect, Age, WatchPosition, vars, dialogs
<1>4. QED
  BY <1>1, <1>2, <1>3

LEMMA StepMap == MapInv /\ [Next]_vars => MapInv'
<1> SUFFICES ASSUME MapInv, [Next]_vars
             PROVE  MapInv'
  OBVIOUS
<1>1. TypeOK' /\ Counted'
  BY StepMapTypes
<1>2. OneRoom'
  <2>1. CASE Kept
    BY <2>1 DEF Kept, MapInv, OneRoom
  <2>2. ASSUME NEW m \in Markers, NEW r \in Rooms, PlacedNow(m, r)
        PROVE  OneRoom'
    <3>1. \A s \in Rooms : ~Somewhere(m, s)
      BY <2>2 DEF MapInv, Placed, PlacedNow
    <3>2. QED
      BY <2>2, <3>1 DEF PlacedNow, Appears, MapInv, OneRoom
  <2>3. QED
    BY <2>1, <2>2, StepKeeps DEF KeptOrPlaced
<1>3. Placed'
  <2>1. /\ \A m \in Markers : creator[m] # None => creator'[m] # None
        /\ \A m \in Markers, r \in Rooms : Somewhere(m, r)' => creator'[m] # None
    <3>1. CASE Kept /\ UNCHANGED creator
      BY <3>1 DEF Kept, MapInv, Placed
    <3>2. ASSUME NEW m \in Markers, NEW r \in Rooms, PlacedNow(m, r)
          PROVE  /\ \A n \in Markers : creator[n] # None => creator'[n] # None
                 /\ \A n \in Markers, s \in Rooms : Somewhere(n, s)' => creator'[n] # None
      BY <3>2 DEF PlacedNow, Appears, MapInv, Placed
    <3>3. QED
      BY <3>1, <3>2, StepKeeps DEF KeptOrPlaced
  <2>2. \A m \in pins : m \in Markers /\ Somewhere(m, active) /\ active \in Rooms
    BY DEF MapInv, TypeOK, StoreTypes, MapTypes, Somewhere
  <2>3. selected' \in Markers => creator'[selected'] # None
    BY <2>1, <2>2, StepSelects DEF MapInv, Placed
  <2>4. QED
    BY <2>1, <2>3 DEF Placed
<1>4. QED
  BY <1>1, <1>2, <1>3 DEF MapInv

LEMMA MapInvariant == Spec => []MapInv
<1>1. QED
  BY InitMap, StepMap, PTL DEF Spec

\* The store, the server and the map keep their types: a pin is always one of the
\* room on the screen, also while messages of other rooms come, rooms change and
\* maps are made anew (web/src/components/MapViewer.tsx:531-572).
THEOREM MapTypeCorrect == Spec => []TypeOK
<1>1. MapInv => TypeOK
  BY DEF MapInv
<1>2. QED
  BY <1>1, MapInvariant, PTL

\* A marker is shown in no room but the one it was placed in, however late its
\* messages come and whichever room is on the screen when it is placed or deleted;
\* and a selected pin, of which the popover shows the creator, has one
\* (server/hub.go:1137-1205, web/src/store/chatStore.ts).
THEOREM MapMarkersKeepTheirRoom ==
  Spec => [](/\ \A r, s \in Rooms : \A m \in cotMarkers[r] : m \in markers[s] \cup cotMarkers[s] => r = s
             /\ selected \in Markers => creator[selected] # None)
<1>1. MapInv => /\ \A r, s \in Rooms : \A m \in cotMarkers[r] :
                     m \in markers[s] \cup cotMarkers[s] => r = s
                /\ selected \in Markers => creator[selected] # None
  BY DEF MapInv, TypeOK, StoreTypes, OneRoom, Placed, Somewhere
<1>2. QED
  BY <1>1, MapInvariant, PTL

-----------------------------------------------------------------------------
(* MeshView *)

\* However mesh_state follows on what the store has, no id is in it twice, so
\* that the keys of the picture are unique (chatStore.ts:312-327, hub.go:304-342).
THEOREM SetMeshPeersUnique ==
  ASSUME NEW existing, NEW peers, NEW list, NEW preferred,
         Unique(existing), Deduplicated(peers, list, preferred)
  PROVE  Unique(SetMeshPeers(existing, list))
BY DEF Unique, Deduplicated, SetMeshPeers, Ids

\* A mesh_state takes nobody away that a bridge has brought, not even a peer that
\* the server has forgotten: only ble_mesh_state does (chatStore.ts:312-336).
LEMMA BridgedPeersStay ==
  ASSUME NEW existing, NEW peers, NEW p \in existing,
         p.transport \in Bridged, Presentable(p)
  PROVE  p.id \in Ids(SetMeshPeers(existing, peers)) \/ \E q \in peers : q.id = p.id
BY DEF SetMeshPeers, Ids

\* After a ble_mesh_state the Bluetooth peers are those it names, and the others
\* are those there were (chatStore.ts:328-336).
THEOREM MergeReplaces ==
  ASSUME NEW existing, NEW blePeers, \A p \in blePeers : p.transport = "btle"
  PROVE  /\ {p \in MergeMeshPeers(existing, blePeers) : p.transport = "btle"} = blePeers
         /\ {p \in MergeMeshPeers(existing, blePeers) : p.transport # "btle"}
              = {p \in existing : p.transport # "btle"}
BY DEF MergeMeshPeers

\* Every line starts at a node that is drawn, and from every peer the lines lead to
\* this browser over one node at most: chains and circles of connected_via are cut
\* (MeshViewer.tsx:73-110, 124-173).
THEOREM EveryPeerReachesSelf ==
  ASSUME NEW peers, NEW p \in peers
  PROVE  \/ Line(peers, p).from = Self
         \/ \E d \in DirectPeers(peers) :
              Line(peers, p).from = d.id /\ Line(peers, d).from = Self
<1>1. \A q \in peers : Line(peers, q).from = Parent(peers, q)
  BY DEF Line
<1>2. \A d \in DirectPeers(peers) : d \in peers /\ Parent(peers, d) = Self
  BY DEF DirectPeers, Parent
<1>3. CASE Parent(peers, p) = Self
  BY <1>1, <1>3
<1>4. CASE Parent(peers, p) # Self
  <2>1. PICK d \in DirectPeers(peers) : d.id = Parent(peers, p)
    BY <1>4 DEF Parent, PosById, Ids
  <2> QED
    BY <1>1, <1>2, <2>1
<1> QED
  BY <1>3, <1>4

\* The legend has the colour of every line and node, but for two transports that it
\* shows as WiFi (MeshViewer.tsx:10-35, 118-120, 251-260).
THEOREM LegendExplains ==
  ASSUME NEW peers, NEW p \in peers, p.transport \notin {"lan", "p2p"}
  PROVE  \/ Line(peers, p).color \in Legend(peers)
         \/ Line(peers, p).color = "fg-tertiary" /\ "transport-offline" \in Legend(peers)
<1>1. TransportBadgeVariant(p.transport) \in Legend(peers)
  BY DEF Legend
<1>2. \/ TransportCssVar(p.transport) = TransportBadgeVariant(p.transport)
      \/ /\ TransportCssVar(p.transport) = "fg-tertiary"
         /\ TransportBadgeVariant(p.transport) = "transport-offline"
  BY DEF TransportCssVar, TransportBadgeVariant
<1> QED
  BY <1>1, <1>2 DEF Line

\* The rows of the indicator leave no peer out and count none in two rows, and it
\* says online exactly while there is a peer (OnlineIndicator.tsx:26-40).
THEOREM IndicatorCounts ==
  ASSUME NEW flat, IsFiniteSet(flat)
  PROVE  /\ MeshTotal(flat) = Cardinality(flat)
         /\ Overall(TRUE, flat) = "online" <=> flat # {}
<1> DEFINE B == Bluetooth(flat)
           W == WifiDirect(flat)
           I == InternetMesh(flat)
<1>1. flat = (B \cup W) \cup I
  BY DEF Bluetooth, WifiDirect, InternetMesh, Bridged
<1>2. B \cap W = {} /\ (B \cup W) \cap I = {}
  BY DEF Bluetooth, WifiDirect, InternetMesh, Bridged
<1>3. IsFiniteSet(B) /\ IsFiniteSet(W) /\ IsFiniteSet(I) /\ IsFiniteSet(B \cup W)
  BY <1>1, FS_Subset DEF Bluetooth, WifiDirect, InternetMesh
<1> HIDE DEF B, W, I
<1>4. Cardinality(B \cap W) = 0 /\ Cardinality((B \cup W) \cap I) = 0
  BY <1>2, FS_EmptySet, Zenon
<1>5. /\ Cardinality(B \cup W) = Cardinality(B) + Cardinality(W) - Cardinality(B \cap W)
      /\ Cardinality(flat)
           = Cardinality(B \cup W) + Cardinality(I) - Cardinality((B \cup W) \cap I)
  BY <1>1, <1>3, FS_Union, Zenon
<1>6. MeshTotal(flat) = Cardinality(flat)
  <2>1. /\ Cardinality(B) \in Nat /\ Cardinality(W) \in Nat /\ Cardinality(I) \in Nat
        /\ Cardinality(B \cup W) \in Nat
    BY <1>3, FS_CardinalityType
  <2>2. Cardinality(flat) = Cardinality(B) + Cardinality(W) + Cardinality(I)
    BY <1>4, <1>5, <2>1
  <2> QED
    BY <2>2 DEF MeshTotal, B, W, I
<1>7. Cardinality(flat) \in Nat /\ (Cardinality(flat) = 0 <=> flat = {})
  BY FS_CardinalityType, FS_EmptySet
<1> QED
  BY <1>6, <1>7 DEF Overall
=============================================================================
