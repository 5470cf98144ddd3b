------------------------------ MODULE HubLocks ------------------------------
(***************************************************************************)
(* The locks of the Go server: h.mu of the hub, room.mu, vc.mu and         *)
(* client.mu, all sync.RWMutex, and the order in which the handlers of     *)
(* server/hub.go, server/room.go and server/client.go take them.           *)
(*                                                                         *)
(* A handler is the sequence of its lock operations, a goroutine runs one  *)
(* handler after the other.  A Lock that waits blocks every later RLock,   *)
(* also one of a goroutine that holds the lock for reading already.        *)
(* Read sections a handler enters with no other lock held and leaves at    *)
(* once (getRoomByHex, HasMember, GetMembers, ...) are left out: a         *)
(* goroutine that waits for one keeps nobody waiting.  One room with one   *)
(* voice channel stands for all of them, and every connection is in both.  *)
(***************************************************************************)
EXTENDS Integers, Sequences, SequencesExt, FiniteSets

CONSTANTS
  Clients,   \* connections
  Readers,   \* readPump goroutines: [Clients -> goroutines]
  Writers,   \* writePump goroutines: [Clients -> goroutines]
  HubRun,    \* the goroutine of Hub.Run
  Requests,  \* the handlers a goroutine is asked to run
  MaxRuns    \* bound on the handlers a goroutine runs

Threads == {Readers[c] : c \in Clients} \cup {Writers[c] : c \in Clients} \cup {HubRun}

None == "none"
Locks == Clients \cup {"h.mu", "room.mu", "vc.mu"}

\* Goroutines, connections and the other locks have different names.
ASSUME HubLocksAssumption ==
  /\ IsFiniteSet(Clients) /\ Clients \cap {None, "h.mu", "room.mu", "vc.mu"} = {}
  /\ None \notin Threads /\ MaxRuns \in Nat

-----------------------------------------------------------------------------
(* Handlers *)

\* A section that holds lock l for reading, or for writing.
Reading(l, inner) == <<<<"RLock", l>>>> \o inner \o <<<<"RUnlock", l>>>>
Writing(l, inner) == <<<<"Lock", l>>>> \o inner \o <<<<"Unlock", l>>>>
Read(l) == Reading(l, <<>>)
Write(l) == Writing(l, <<>>)

\* for c := range: some order of the connections.
ForEach(S, Part(_)) == LET order == SetToSeq(S)
                       IN  FlattenSeq([i \in 1..Len(order) |-> Part(order[i])])

\* Under room.mu, toMeshPeer and toCotContact read a member under its lock.
GetMeshPeers(c) == Reading("room.mu", ForEach(Clients \ {c}, Read))
GetCotContacts(S) == Reading("room.mu", ForEach(S, Read))
GetVoiceState == Reading("room.mu", Reading("vc.mu", ForEach(Clients, Read)))

broadcastMeshState == ForEach(Clients, GetMeshPeers)
broadcastMeshStateLocked ==
  Read("room.mu") \o ForEach(Clients, LAMBDA c : GetMeshPeers(c) \o Read(c))
broadcastCotState == ForEach(Clients, LAMBDA c : GetCotContacts(Clients \ {c}))
buildRoomList == Reading("h.mu", Read("room.mu"))

JoinRoom(c) ==
  Write("h.mu") \o Write("room.mu") \o Write(c) \o GetVoiceState
    \o GetCotContacts(Clients \ {c}) \o broadcastMeshState \o buildRoomList

SetTransport(c) == Write(c) \o Reading("h.mu", broadcastMeshStateLocked)

\* send_message, edit_message and the other changes of the log.
SendMessage(c) == Write("room.mu")

JoinVoice(c) == Write("vc.mu") \o GetVoiceState

\* StartDM: the new room, and the rooms of both connections.
StartDM(c) ==
  Reading("h.mu", Read("room.mu")) \o Write("h.mu") \o Write("room.mu")
    \o ForEach(Clients, Write)

PromoteBlePeer == Read("room.mu") \o Write("vc.mu") \o Write("room.mu")
UpdateBlePeerName == Reading("room.mu", Write("vc.mu"))

\* The relay's lock is held over both loops over its rooms.
RegisterBlePeer(c) ==
  Write("h.mu")
    \o Reading(c, Reading("h.mu", PromoteBlePeer \o UpdateBlePeerName))
    \o Reading(c, Reading("h.mu", broadcastMeshStateLocked
                                    \o Read("room.mu") \o GetVoiceState))

UnregisterBlePeer(c) ==
  Write("h.mu") \o Write("vc.mu") \o Write("room.mu")
    \o GetVoiceState \o broadcastCotState \o broadcastMeshState

\* writePump notes the time of a ping.
Ping(c) == Write(c)

\* Mutants: h.mu is not released around LeaveRoom, or released once too often.
UnregisterNested(c) ==
  Write("h.mu")
    \o Reading("h.mu", Write("vc.mu") \o GetVoiceState \o Write("room.mu")
                         \o Write(c) \o Read("h.mu") \o broadcastMeshState)
    \o Write("h.mu")

UnregisterReleased(c) ==
  Write("h.mu") \o Write("vc.mu") \o GetVoiceState
    \o Write("room.mu") \o Write(c) \o broadcastMeshState
    \o <<<<"RUnlock", "h.mu">>>> \o Write("h.mu")

\* case <-h.unregister: blePeers, LeaveAllVoiceChannels, LeaveRoom, clients.
Unregister(c) ==
  Write("h.mu") \o Write("vc.mu") \o GetVoiceState
    \o Write("room.mu") \o Write(c) \o broadcastMeshState \o Write("h.mu")

Register == Write("h.mu")
MeshTick == broadcastMeshState \o GetVoiceState \o broadcastCotState

\* The lock operations of a handler that connection c asks for.
Kinds == {"join_room", "set_transport", "send_message", "join_voice", "start_dm",
          "register_ble_peer", "unregister_ble_peer", "ping",
          "register", "unregister", "tick"}

Program == [k \in Kinds |-> [c \in Clients |->
  CASE k = "join_room" -> JoinRoom(c)
    [] k = "set_transport" -> SetTransport(c)
    [] k = "send_message" -> SendMessage(c)
    [] k = "join_voice" -> JoinVoice(c)
    [] k = "start_dm" -> StartDM(c)
    [] k = "register_ble_peer" -> RegisterBlePeer(c)
    [] k = "unregister_ble_peer" -> UnregisterBlePeer(c)
    [] k = "ping" -> Ping(c)
    [] k = "register" -> Register
    [] k = "unregister" -> Unregister(c)
    [] k = "tick" -> MeshTick]]

-----------------------------------------------------------------------------
(* Goroutines *)

VARIABLES
  handler,  \* the handler a goroutine runs, None between two handlers
  client,   \* the connection that handler serves
  at,       \* its next operation
  runs,     \* handlers begun
  readers,  \* how often a goroutine holds a lock for reading
  writer,   \* the goroutine that holds a lock for writing
  pending   \* the goroutine whose Lock waits for the readers to leave

vars == <<handler, client, at, runs, readers, writer, pending>>

Init ==
  /\ handler = [t \in Threads |-> None]
  /\ client = [t \in Threads |-> None]
  /\ at = [t \in Threads |-> 0]
  /\ runs = [t \in Threads |-> 0]
  /\ readers = [l \in Locks |-> [t \in Threads |-> 0]]
  /\ writer = [l \in Locks |-> None]
  /\ pending = [l \in Locks |-> None]

Ops(t) == Program[handler[t]][client[t]]
Running(t) == handler[t] # None /\ at[t] <= Len(Ops(t))
NextOp(t, op) == Running(t) /\ Ops(t)[at[t]][1] = op
LockOf(t) == Ops(t)[at[t]][2]
Advance(t) == at' = [at EXCEPT ![t] = @ + 1] /\ UNCHANGED <<handler, client, runs>>

\* A goroutine takes up a request; the hub retires a connection only when its
\* reader has ended.
Start(t, k, c) ==
  /\ handler[t] = None
  /\ runs[t] < MaxRuns
  /\ k \in Requests[t]
  /\ t # HubRun => c \in Clients /\ t \in {Readers[c], Writers[c]}
  /\ k = "unregister" => handler[Readers[c]] = None
  /\ handler' = [handler EXCEPT ![t] = k]
  /\ client' = [client EXCEPT ![t] = c]
  /\ at' = [at EXCEPT ![t] = 1]
  /\ runs' = [u \in Threads |->
                IF u = t THEN runs[u] + 1
                ELSE IF k = "unregister" /\ u = Readers[c] THEN MaxRuns
                ELSE runs[u]]
  /\ UNCHANGED <<readers, writer, pending>>

Free(l) == writer[l] = None /\ pending[l] = None
Unread(l) == \A t \in Threads : readers[l][t] = 0

RLock(t) ==
  /\ NextOp(t, "RLock")
  /\ Free(LockOf(t))
  /\ readers' = [readers EXCEPT ![LockOf(t)][t] = @ + 1]
  /\ Advance(t)
  /\ UNCHANGED <<writer, pending>>

RUnlock(t) ==
  /\ NextOp(t, "RUnlock")
  /\ readers' = [readers EXCEPT ![LockOf(t)][t] = @ - 1]
  /\ Advance(t)
  /\ UNCHANGED <<writer, pending>>

\* Lock announces itself, which blocks new readers ...
Announce(t) ==
  /\ NextOp(t, "Lock")
  /\ Free(LockOf(t))
  /\ pending' = [pending EXCEPT ![LockOf(t)] = t]
  /\ UNCHANGED <<handler, client, at, runs, readers, writer>>

\* ... and waits until the last one has left.
Lock(t) ==
  /\ NextOp(t, "Lock")
  /\ pending[LockOf(t)] = t
  /\ Unread(LockOf(t))
  /\ pending' = [pending EXCEPT ![LockOf(t)] = None]
  /\ writer' = [writer EXCEPT ![LockOf(t)] = t]
  /\ Advance(t)
  /\ UNCHANGED readers

Unlock(t) ==
  /\ NextOp(t, "Unlock")
  /\ writer' = [writer EXCEPT ![LockOf(t)] = None]
  /\ Advance(t)
  /\ UNCHANGED <<readers, pending>>

Finish(t) ==
  /\ handler[t] # None
  /\ at[t] > Len(Ops(t))
  /\ handler' = [handler EXCEPT ![t] = None]
  /\ client' = [client EXCEPT ![t] = None]
  /\ at' = [at EXCEPT ![t] = 0]
  /\ UNCHANGED <<runs, readers, writer, pending>>

Step(t) ==
  RLock(t) \/ RUnlock(t) \/ Announce(t) \/ Lock(t) \/ Unlock(t) \/ Finish(t)

Next ==
  \E t \in Threads :
    \/ Step(t)
    \/ \E k \in Kinds, c \in Clients : Start(t, k, c)

Spec == Init /\ [][Next]_vars

-----------------------------------------------------------------------------
(* Properties *)

\* The locks are held by goroutines.
TypeOK ==
  /\ handler \in [Threads -> Kinds \cup {None}]
  /\ client \in [Threads -> Clients \cup {None}]
  /\ at \in [Threads -> Nat]
  /\ runs \in [Threads -> 0..MaxRuns]
  /\ readers \in [Locks -> [Threads -> Nat]]
  /\ writer \in [Locks -> Threads \cup {None}]
  /\ pending \in [Locks -> Threads \cup {None}]

\* Goroutine t waits for a lock it cannot have now.
Blocked(t) ==
  \/ NextOp(t, "RLock") /\ ~Free(LockOf(t))
  \/ NextOp(t, "Lock") /\ IF pending[LockOf(t)] = t
                             THEN ~Unread(LockOf(t)) ELSE ~Free(LockOf(t))

Waiting == {t \in Threads : handler[t] # None}

\* The handlers take the locks in one order, h.mu, room.mu, vc.mu, client.mu,
\* and never one of them twice, so that they cannot wait for each other in a
\* circle: whenever nobody gets on, a RegisterBlePeer is among those that wait
\* (hub.go:344-367, 422-437, 434-492, 532-563, room.go:289-310, 498-531).
OnlyRegistrationDeadlocks ==
  Waiting # {} /\ (\A t \in Waiting : Blocked(t))
    => \E t \in Waiting : handler[t] = "register_ble_peer"
=============================================================================
