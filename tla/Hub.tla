-------------------------------- MODULE Hub --------------------------------
(***************************************************************************)
(* The room and connection core of the Go server (server/hub.go,           *)
(* server/client.go, server/room.go): the hub goroutine that registers and *)
(* retires connections, one readPump goroutine per connection that runs    *)
(* the room and direct-message handlers, and the maps they share.          *)
(*                                                                         *)
(* One step is one critical section (h.mu, room.mu or client.mu) or one    *)
(* channel rendezvous, so that every place where the code releases a lock  *)
(* between reading and acting is a place where another goroutine may run.  *)
(* A member list that GetMembers copies out of a room is kept in todo      *)
(* until it is served.  Sending on a closed channel panics and takes the   *)
(* whole process down; panic records the kind of the send that did it.     *)
(***************************************************************************)
EXTENDS Naturals, FiniteSets

CONSTANTS
  Clients,  \* connections; NewClient draws a new identity for each of them
  Users,    \* the people (browsers, phones) that open the connections
  UserOf,   \* the person behind a connection
  Names,    \* names of public rooms
  DMs       \* the rooms StartDM can create, named dm:<uuid> (a bound)

ASSUME HubAssumption ==
  /\ UserOf \in [Clients -> Users]
  /\ Names \cap DMs = {}

Rooms == Names \cup DMs

None == "none"

VARIABLES
  conn,        \* life of a connection: new, live, closing, gone
  registered,  \* h.clients and h.clientsByID, always written together
  closed,      \* connections whose send channel is closed
  exists,      \* h.rooms
  parts,       \* DMParticipants of a direct-message room, {} while IsDM is false
  members,     \* room.Members
  rooms,       \* client.rooms
  known,       \* direct-message rooms a client has seen in a room_list
  pc,          \* where a readPump goroutine is inside its handler
  cur,         \* the room that handler works on
  peer,        \* StartDM: the target connection
  todo,        \* members copied by GetMembers and not sent to yet
  hub,         \* where the hub goroutine is
  leaving,     \* the connection the hub goroutine is retiring
  htodo,       \* rooms removeFromAllRooms still has to leave
  hroom,       \* the room it is leaving
  panic        \* the kind of the send that hit a closed channel

connVars == <<conn, registered, closed>>
roomVars == <<exists, parts, members, rooms>>
taskVars == <<pc, cur, peer, todo>>
hubVars  == <<hub, leaving, htodo, hroom>>
vars == <<connVars, roomVars, known, taskVars, hubVars, panic>>

PCs == {"idle", "greet",
        "join_check", "join_add", "join_record", "join_announce",
        "join_mesh", "join_send", "join_list",
        "dm_find", "dm_create", "dm_flag", "dm_self", "dm_target",
        "dm_record", "dm_notify",
        "rejoin", "rejoin_add"}

HubPCs == {"idle", "snapshot", "leave", "forget", "announce", "close"}

\* The kinds of send: to a member of a public room under the room's lock,
\* to the registered clients under h.mu, to a member copied earlier, and to
\* a participant of a direct-message room.
Sends == {"broadcast", "roomlist", "snapshot", "dm"}

IsDM(r) == r \in DMs /\ parts[r] # {}

KindOf(r) == IF r \in DMs THEN "dm" ELSE "broadcast"

\* Every send of S is one non-blocking select: it drops when the buffer is
\* full and panics when the channel is closed.
SendTo(S, kind) == panic' = IF S \cap closed = {} THEN panic ELSE kind

\* Rooms buildRoomList shows although a StartDM made them.
Listed == {r \in DMs \cap exists : ~IsDM(r)}

Done(c) ==
  /\ pc'   = [pc EXCEPT ![c] = "idle"]
  /\ cur'  = [cur EXCEPT ![c] = None]
  /\ peer' = [peer EXCEPT ![c] = None]
  /\ todo' = [todo EXCEPT ![c] = {}]

Goto(c, at) ==
  /\ pc' = [pc EXCEPT ![c] = at]
  /\ UNCHANGED <<cur, peer, todo>>

Init ==
  /\ conn = [c \in Clients |-> "new"]
  /\ registered = {}
  /\ closed = {}
  /\ exists = {}
  /\ parts = [r \in DMs |-> {}]
  /\ members = [r \in Rooms |-> {}]
  /\ rooms = [c \in Clients |-> {}]
  /\ known = [c \in Clients |-> {}]
  /\ pc = [c \in Clients |-> "idle"]
  /\ cur = [c \in Clients |-> None]
  /\ peer = [c \in Clients |-> None]
  /\ todo = [c \in Clients |-> {}]
  /\ hub = "idle"
  /\ leaving = None
  /\ htodo = {}
  /\ hroom = None
  /\ panic = None

-----------------------------------------------------------------------------
(* The hub goroutine: Hub.Run *)

\* case client := <-h.register.  A person opens a connection only when the
\* previous one is finished on the client's side.
Register(c) ==
  /\ hub = "idle"
  /\ conn[c] = "new"
  /\ \A d \in Clients : UserOf[d] = UserOf[c] => conn[d] # "live"
  /\ conn' = [conn EXCEPT ![c] = "live"]
  /\ registered' = registered \cup {c}
  /\ Goto(c, "greet")
  /\ UNCHANGED <<closed, roomVars, known, hubVars, panic>>

\* case client := <-h.unregister: the rendezvous with readPump's defer.
Unregister(c) ==
  /\ hub = "idle"
  /\ conn[c] = "closing"
  /\ conn' = [conn EXCEPT ![c] = "gone"]
  /\ hub' = "snapshot"
  /\ leaving' = c
  /\ UNCHANGED <<registered, closed, roomVars, known, taskVars, htodo, hroom,
                 panic>>

\* Mutant: the hub goroutine does not call removeFromAllRooms.
SnapshotNothing ==
  /\ hub = "snapshot"
  /\ htodo' = {}
  /\ hub' = "leave"
  /\ UNCHANGED <<connVars, roomVars, known, taskVars, leaving, hroom, panic>>

\* removeFromAllRooms copies client.rooms under client.mu.
SnapshotRooms ==
  /\ hub = "snapshot"
  /\ htodo' = rooms[leaving] \cap exists
  /\ hub' = "leave"
  /\ UNCHANGED <<connVars, roomVars, known, taskVars, leaving, hroom, panic>>

\* LeaveRoom, first critical section: room.RemoveMember.
LeaveRoom(r) ==
  /\ hub = "leave"
  /\ r \in htodo
  /\ members' = [members EXCEPT ![r] = @ \ {leaving}]
  /\ htodo' = htodo \ {r}
  /\ hroom' = r
  /\ hub' = "forget"
  /\ UNCHANGED <<connVars, exists, parts, rooms, known, taskVars, leaving, panic>>

\* LeaveRoom, second critical section: delete(client.rooms, room.ID).
ForgetRoom ==
  /\ hub = "forget"
  /\ rooms' = [rooms EXCEPT ![leaving] = @ \ {hroom}]
  /\ hub' = "announce"
  /\ UNCHANGED <<connVars, exists, parts, members, known, taskVars, leaving,
                 htodo, hroom, panic>>

\* LeaveRoom broadcasts peer_update and mesh_state.  Only this goroutine
\* closes channels, so the copied member list cannot go stale under it.
AnnounceLeave ==
  /\ hub = "announce"
  /\ SendTo(members[hroom], KindOf(hroom))
  /\ hub' = "leave"
  /\ hroom' = None
  /\ UNCHANGED <<connVars, roomVars, known, taskVars, leaving, htodo>>

AllRoomsLeft ==
  /\ hub = "leave"
  /\ htodo = {}
  /\ hub' = "close"
  /\ UNCHANGED <<connVars, roomVars, known, taskVars, leaving, htodo, hroom,
                 panic>>

\* Mutants: close(client.send) without the deletes, the deletes without it.
CloseRegistered ==
  /\ hub = "close"
  /\ closed' = closed \cup {leaving}
  /\ hub' = "idle"
  /\ leaving' = None
  /\ UNCHANGED <<conn, registered, roomVars, known, taskVars, htodo, hroom, panic>>

DeleteOnly ==
  /\ hub = "close"
  /\ registered' = registered \ {leaving}
  /\ hub' = "idle"
  /\ leaving' = None
  /\ UNCHANGED <<conn, closed, roomVars, known, taskVars, htodo, hroom, panic>>

\* delete(h.clients), delete(h.clientsByID) and close(client.send) in one
\* section of h.mu.
CloseSend ==
  /\ hub = "close"
  /\ IF leaving \in registered
       THEN /\ registered' = registered \ {leaving}
            /\ closed' = closed \cup {leaving}
       ELSE UNCHANGED <<registered, closed>>
  /\ hub' = "idle"
  /\ leaving' = None
  /\ UNCHANGED <<conn, roomVars, known, taskVars, htodo, hroom, panic>>

\* case <-meshTicker.C: mesh, voice and CoT state to every member of a room.
MeshTick(r) ==
  /\ hub = "idle"
  /\ r \in exists
  /\ SendTo(members[r], KindOf(r))
  /\ UNCHANGED <<connVars, roomVars, known, taskVars, hubVars>>

-----------------------------------------------------------------------------
(* A connection's readPump goroutine *)

Ready(c) == conn[c] = "live" /\ pc[c] = "idle"

\* serveWs sends the room list once the hub has accepted the connection.
Greet(c) ==
  /\ pc[c] = "greet"
  /\ known' = [known EXCEPT ![c] = @ \cup Listed]
  /\ Goto(c, "idle")
  /\ UNCHANGED <<connVars, roomVars, hubVars, panic>>

\* case "list_rooms".
ListRooms(c) ==
  /\ Ready(c)
  /\ known' = [known EXCEPT ![c] = @ \cup Listed]
  /\ UNCHANGED <<connVars, roomVars, taskVars, hubVars, panic>>

\* Mutant: the reader hangs up while a handler it started still runs.
DisconnectInHandler(c) ==
  /\ conn[c] = "live"
  /\ conn' = [conn EXCEPT ![c] = "closing"]
  /\ UNCHANGED <<registered, closed, roomVars, known, taskVars, hubVars, panic>>

\* conn.ReadMessage fails: the goroutine blocks on h.unregister <- c.
Disconnect(c) ==
  /\ Ready(c)
  /\ conn' = [conn EXCEPT ![c] = "closing"]
  /\ UNCHANGED <<registered, closed, roomVars, known, taskVars, hubVars, panic>>

\* case "join_room": getOrCreateRoom.
JoinRoom(c, r) ==
  /\ Ready(c)
  /\ r \in Names \cup known[c]
  /\ exists' = exists \cup {r}
  /\ pc' = [pc EXCEPT ![c] = "join_check"]
  /\ cur' = [cur EXCEPT ![c] = r]
  /\ UNCHANGED <<connVars, parts, members, rooms, known, peer, todo, hubVars,
                 panic>>

\* isDM and the participants are read under room.mu, which is then released.
JoinCheck(c) ==
  /\ pc[c] = "join_check"
  /\ IF IsDM(cur[c]) /\ c \notin parts[cur[c]]
       THEN Done(c)
       ELSE Goto(c, "join_add")
  /\ UNCHANGED <<connVars, roomVars, known, hubVars, panic>>

\* room.AddMember, then client.rooms[room.ID] = true.  The two sections are
\* one step: client.rooms of a live connection is read by nobody but its own
\* goroutine.
AddSelf(c, from, next) ==
  /\ pc[c] = from
  /\ members' = [members EXCEPT ![cur[c]] = @ \cup {c}]
  /\ rooms' = [rooms EXCEPT ![c] = @ \cup {cur[c]}]
  /\ Goto(c, next)
  /\ UNCHANGED <<connVars, exists, parts, known, hubVars, panic>>

JoinAdd(c) == AddSelf(c, "join_add", "join_announce")

\* room.Broadcast(peer_update, client) holds room.mu over all its sends.
JoinAnnounce(c) ==
  /\ pc[c] = "join_announce"
  /\ SendTo(members[cur[c]] \ {c}, KindOf(cur[c]))
  /\ Goto(c, "join_mesh")
  /\ UNCHANGED <<connVars, roomVars, known, hubVars>>

\* broadcastMeshState copies the members ...
CopyMembers(c) ==
  /\ pc[c] = "join_mesh"
  /\ todo' = [todo EXCEPT ![c] = members[cur[c]]]
  /\ pc' = [pc EXCEPT ![c] = "join_send"]
  /\ UNCHANGED <<connVars, roomVars, known, cur, peer, hubVars, panic>>

\* ... and sends to each of them with no lock held.
SendToCopied(c) ==
  /\ pc[c] = "join_send"
  /\ \E m \in todo[c] :
       /\ SendTo({m}, "snapshot")
       /\ todo' = [todo EXCEPT ![c] = @ \ {m}]
  /\ UNCHANGED <<connVars, roomVars, known, pc, cur, peer, hubVars>>

CopiedServed(c) ==
  /\ pc[c] = "join_send"
  /\ todo[c] = {}
  /\ Goto(c, "join_list")
  /\ UNCHANGED <<connVars, roomVars, known, hubVars, panic>>

\* broadcastRoomList sends to every registered client under h.mu.
BroadcastRoomList(c) ==
  /\ pc[c] = "join_list"
  /\ SendTo(registered, "roomlist")
  /\ known' = [d \in Clients |->
                 IF d \in registered THEN known[d] \cup Listed ELSE known[d]]
  /\ Done(c)
  /\ UNCHANGED <<connVars, roomVars, hubVars>>

\* case "send_message": the membership test, then room.Broadcast.
SendMessage(c, r) ==
  /\ Ready(c)
  /\ r \in exists
  /\ c \in members[r]
  /\ SendTo(members[r], KindOf(r))
  /\ UNCHANGED <<connVars, roomVars, known, taskVars, hubVars>>

\* case "set_transport": broadcastMeshToMyRooms holds h.mu over its sends.
SetTransport(c) ==
  /\ Ready(c)
  /\ \E r \in rooms[c] \cap exists :
       SendTo(members[r], KindOf(r))
  /\ UNCHANGED <<connVars, roomVars, known, taskVars, hubVars>>

\* StartDM creates at most one room per call; the pool of names is bounded.
FreshDMs == DMs \ exists
Creating == {c \in Clients : pc[c] \in {"dm_find", "dm_create"}}

\* Mutant: no test that the target was found.
StartDMUnchecked(c, t) ==
  /\ Ready(c)
  /\ Cardinality(Creating) < Cardinality(FreshDMs)
  /\ pc' = [pc EXCEPT ![c] = "dm_find"]
  /\ peer' = [peer EXCEPT ![c] = IF t \in registered THEN t ELSE None]
  /\ UNCHANGED <<connVars, roomVars, known, cur, todo, hubVars, panic>>

\* case "start_dm": the target is looked up under h.mu; it may be the sender.
StartDM(c, t) ==
  /\ Ready(c)
  /\ t \in registered
  /\ Cardinality(Creating) < Cardinality(FreshDMs)
  /\ pc' = [pc EXCEPT ![c] = "dm_find"]
  /\ peer' = [peer EXCEPT ![c] = t]
  /\ UNCHANGED <<connVars, roomVars, known, cur, todo, hubVars, panic>>

\* findExistingDM.
FindDM(c) ==
  /\ pc[c] = "dm_find"
  /\ LET found == {r \in DMs \cap exists : parts[r] = {c, peer[c]}}
     IN  IF found = {}
           THEN Goto(c, "dm_create")
           ELSE /\ \E r \in found : cur' = [cur EXCEPT ![c] = r]
                /\ pc' = [pc EXCEPT ![c] = "dm_self"]
                /\ UNCHANGED <<peer, todo>>
  /\ UNCHANGED <<connVars, roomVars, known, hubVars, panic>>

\* getOrCreateRoom("dm:" + uuid): NewRoom makes it public and not a DM.
CreateDM(c) ==
  /\ pc[c] = "dm_create"
  /\ \E r \in FreshDMs :
       /\ exists' = exists \cup {r}
       /\ cur' = [cur EXCEPT ![c] = r]
  /\ pc' = [pc EXCEPT ![c] = "dm_flag"]
  /\ UNCHANGED <<connVars, parts, members, rooms, known, peer, todo, hubVars,
                 panic>>

\* room.IsDM = true and DMParticipants, under room.mu.
FlagDM(c) ==
  /\ pc[c] = "dm_flag"
  /\ parts' = [parts EXCEPT ![cur[c]] = {c, peer[c]}]
  /\ Goto(c, "dm_self")
  /\ UNCHANGED <<connVars, exists, members, rooms, known, hubVars, panic>>

DMAddSelf(c) == AddSelf(c, "dm_self", "dm_target")

\* The target joins if it is not a member; nobody asks if it still lives.
DMAddTarget(c) ==
  /\ pc[c] = "dm_target"
  /\ IF peer[c] \in members[cur[c]]
       THEN /\ Goto(c, "dm_notify")
            /\ UNCHANGED members
       ELSE /\ members' = [members EXCEPT ![cur[c]] = @ \cup {peer[c]}]
            /\ Goto(c, "dm_record")
  /\ UNCHANGED <<connVars, exists, parts, rooms, known, hubVars, panic>>

\* Mutant: the room is not recorded in target.rooms.
TargetNotRecorded(c) ==
  /\ pc[c] = "dm_record"
  /\ Goto(c, "dm_notify")
  /\ UNCHANGED <<connVars, roomVars, known, hubVars, panic>>

\* target.rooms[room.ID] = true, under the target's lock.
DMRecordTarget(c) ==
  /\ pc[c] = "dm_record"
  /\ rooms' = [rooms EXCEPT ![peer[c]] = @ \cup {cur[c]}]
  /\ Goto(c, "dm_notify")
  /\ UNCHANGED <<connVars, exists, parts, members, known, hubVars, panic>>

\* dm_opened, room_joined and room_history to both sides.
DMNotify(c) ==
  /\ pc[c] = "dm_notify"
  /\ SendTo({c, peer[c]}, "dm")
  /\ Done(c)
  /\ UNCHANGED <<connVars, roomVars, known, hubVars>>

\* case "join_dm": after a reconnect the client names the direct-message
\* rooms that were opened for it.
JoinDM(c, r) ==
  /\ Ready(c)
  /\ r \in exists \cap DMs
  /\ \E p \in parts[r] : UserOf[p] = UserOf[c]
  /\ pc' = [pc EXCEPT ![c] = "rejoin"]
  /\ cur' = [cur EXCEPT ![c] = r]
  /\ UNCHANGED <<connVars, roomVars, known, peer, todo, hubVars, panic>>

\* "not a DM room" and "cannot join private conversation" end the handler.
JoinDMCheck(c) ==
  /\ pc[c] = "rejoin"
  /\ IF IsDM(cur[c]) /\ c \in parts[cur[c]]
       THEN Goto(c, "rejoin_add")
       ELSE Done(c)
  /\ UNCHANGED <<connVars, roomVars, known, hubVars, panic>>

JoinDMAdd(c) ==
  /\ pc[c] = "rejoin_add"
  /\ members' = [members EXCEPT ![cur[c]] = @ \cup {c}]
  /\ rooms' = [rooms EXCEPT ![c] = @ \cup {cur[c]}]
  /\ Done(c)
  /\ UNCHANGED <<connVars, exists, parts, known, hubVars, panic>>

-----------------------------------------------------------------------------

HubStep ==
  \/ SnapshotRooms
  \/ \E r \in Rooms : LeaveRoom(r)
  \/ ForgetRoom
  \/ AnnounceLeave
  \/ AllRoomsLeft
  \/ CloseSend

\* The steps of a handler once it has begun.
Continue(c) ==
  \/ Greet(c)
  \/ JoinCheck(c) \/ JoinAdd(c) \/ JoinAnnounce(c) \/ CopyMembers(c)
  \/ SendToCopied(c) \/ CopiedServed(c) \/ BroadcastRoomList(c)
  \/ FindDM(c) \/ CreateDM(c) \/ FlagDM(c) \/ DMAddSelf(c)
  \/ DMAddTarget(c) \/ DMRecordTarget(c) \/ DMNotify(c)
  \/ JoinDMCheck(c) \/ JoinDMAdd(c)

\* A message or a network event that begins something.
Request(c) ==
  \/ Register(c)
  \/ Disconnect(c)
  \/ ListRooms(c)
  \/ SetTransport(c)
  \/ \E r \in Rooms : JoinRoom(c, r) \/ SendMessage(c, r)
  \/ \E t \in Clients : StartDM(c, t)
  \/ \E r \in DMs : JoinDM(c, r)

\* A panic in any goroutine ends the process: nothing happens after it.
Next ==
  /\ panic = None
  /\ \/ HubStep
     \/ \E r \in Rooms : MeshTick(r)
     \/ \E c \in Clients : Unregister(c) \/ Continue(c) \/ Request(c)

Spec == Init /\ [][Next]_vars

\* Goroutines are scheduled fairly and the hub's select serves a blocked
\* unregister; what clients ask for and when they disconnect is up to them.
Fairness ==
  /\ WF_vars(panic = None /\ HubStep)
  /\ \A c \in Clients :
       /\ WF_vars(panic = None /\ Unregister(c))
       /\ WF_vars(panic = None /\ Continue(c))

FairSpec == Spec /\ Fairness

-----------------------------------------------------------------------------
(* Properties *)

\* The shared maps hold what the Go types say.
TypeOK ==
  /\ conn \in [Clients -> {"new", "live", "closing", "gone"}]
  /\ registered \subseteq Clients
  /\ closed \subseteq Clients
  /\ exists \subseteq Rooms
  /\ parts \in [DMs -> SUBSET Clients]
  /\ members \in [Rooms -> SUBSET Clients]
  /\ rooms \in [Clients -> SUBSET Rooms]
  /\ known \in [Clients -> SUBSET DMs]
  /\ pc \in [Clients -> PCs]
  /\ cur \in [Clients -> Rooms \cup {None}]
  /\ peer \in [Clients -> Clients \cup {None}]
  /\ todo \in [Clients -> SUBSET Clients]
  /\ hub \in HubPCs
  /\ leaving \in Clients \cup {None}
  /\ htodo \subseteq Rooms
  /\ hroom \in Rooms \cup {None}
  /\ panic \in Sends \cup {None}

\* Retiring a connection takes it out of every public room before its channel
\* is closed, whatever handlers run meanwhile: no room keeps a dead member
\* whose channel the next Broadcast would hit (hub.go:86-95).
NoGhostMember ==
  \A r \in Names : members[r] \cap closed = {}

\* client.rooms, the list the hub goroutine retires a connection by, covers
\* the rooms the connection is a member of.  The one gap is StartDM between
\* AddMember(target) and target.rooms; only for a target that is already being
\* retired can it last (hub.go:241-246, 532-563, 966-978).
RoomsCoverMembers ==
  \A r \in Rooms : \A c \in members[r] :
    \/ r \in rooms[c]
    \/ r \in DMs /\ conn[c] = "gone"
    \/ \E d \in Clients : pc[d] = "dm_record" /\ peer[d] = c /\ cur[d] = r

\* Sends made under room.mu or h.mu, and every send of the hub goroutine to
\* a public room, never meet a closed channel: the process can panic only in
\* a loop over a member list copied before a close, or through StartDM's
\* target (hub.go:158-167, 344-367, 966-1029, room.go:273-286).
PanicsOnlyUnlocked == panic \in {None, "snapshot", "dm"}

\* A connection whose reader has ended is retired and its channel closed, so
\* its writePump ends too, unless the process has died (hub.go:52-95).
EveryCloseCompletes ==
  \A c \in Clients : conn[c] = "closing" ~> (c \in closed \/ panic # None)

\* The hub implements PublicRooms: every step of every goroutine is one of
\* its steps or none.  No handler takes another connection out of a public
\* room or puts one into it, and close(client.send) comes after the last
\* room (hub.go:52-95, 190-194, 241-246, 532-563).
Membership == INSTANCE PublicRooms WITH
  in <- [r \in Names |-> members[r]],
  departed <- {c \in Clients : conn[c] = "gone"},
  retired <- closed

ImplementsPublicRooms == Membership!Spec
=============================================================================
