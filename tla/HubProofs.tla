----------------------------- MODULE HubProofs -----------------------------
(***************************************************************************)
(* Theorems about Hub and HubLocks for any number of connections, people   *)
(* and rooms; those about HubLocks are in the second half.                 *)
(*                                                                         *)
(* NoGhostMember is not inductive: a step that closes a channel preserves  *)
(* it only because the hub goroutine has walked through client.rooms, and  *)
(* that walk is complete only because client.rooms covers the memberships  *)
(* and because the handler that could add to them has ended.  The          *)
(* strengthening HubInv says these things, one conjunct each.              *)
(***************************************************************************)
EXTENDS Hub, FiniteSetTheorems, SequenceTheorems, TLAPS

\* What a handler holds while it is at a label.
HandlerArgs ==
  \A c \in Clients :
    /\ pc[c] # "idle" => conn[c] = "live"
    /\ pc[c] \in {"join_check", "join_add", "join_announce", "join_mesh"}
         => cur[c] \in exists
    /\ pc[c] \in {"dm_flag", "dm_self", "dm_target", "dm_record", "dm_notify",
                  "rejoin", "rejoin_add"}
         => cur[c] \in DMs
    /\ pc[c] \in {"dm_find", "dm_create", "dm_flag", "dm_self", "dm_target",
                  "dm_record", "dm_notify"}
         => peer[c] \in Clients

\* A connection is retired once, by the hub goroutine, after its reader ended.
Lifecycle ==
  /\ hub # "idle" => /\ leaving \in Clients
                     /\ conn[leaving] = "gone"
                     /\ leaving \notin closed
  /\ hub \in {"forget", "announce"} => hroom \in Rooms \ htodo
  /\ \A c \in closed : conn[c] = "gone" /\ c \notin registered

\* Public rooms are in h.rooms while somebody is in them, and client.rooms
\* covers the memberships of public rooms.
PublicMembership ==
  \A r \in Names : \A c \in members[r] : r \in exists /\ r \in rooms[c]

\* While the hub goroutine walks through client.rooms, the public rooms the
\* connection is still in are the ones ahead of it.
Walk ==
  \A r \in Names :
    /\ hub \in {"leave", "forget", "announce"} /\ leaving \in members[r]
         => r \in htodo
    /\ hub = "close" => leaving \notin members[r]

HubInv ==
  /\ TypeOK
  /\ HandlerArgs
  /\ Lifecycle
  /\ PublicMembership
  /\ Walk
  /\ NoGhostMember
  /\ PanicsOnlyUnlocked

\* The server starts with empty maps (hub.go:31-41).
LEMMA InitHubInv == Init => HubInv
BY HubAssumption DEF Init, HubInv, TypeOK, HandlerArgs, Lifecycle, PublicMembership, Walk,
             NoGhostMember, PanicsOnlyUnlocked,
             Rooms, None, PCs, HubPCs, Sends, connVars, roomVars, taskVars, hubVars,
             vars

\* No critical section of the hub goroutine or of a handler breaks HubInv, one
\* step per action (hub.go:42-123, 175-259, 532-563, 925-1108).
LEMMA StepHubInv == HubInv /\ [Next]_vars => HubInv'
<1> SUFFICES ASSUME HubInv, [Next]_vars PROVE HubInv'
  OBVIOUS
<1> USE HubAssumption
    DEF HubInv, TypeOK, HandlerArgs, Lifecycle, PublicMembership, Walk,
             NoGhostMember, PanicsOnlyUnlocked,
             Rooms, None, PCs, HubPCs, Sends, connVars, roomVars, taskVars, hubVars,
             vars
<1>1. CASE SnapshotRooms
  BY <1>1 DEF SnapshotRooms
<1>2. ASSUME NEW r \in Rooms, LeaveRoom(r) PROVE HubInv'
  BY <1>2 DEF LeaveRoom
<1>3. CASE ForgetRoom
  BY <1>3 DEF ForgetRoom
<1>4. CASE AnnounceLeave
  BY <1>4 DEF AnnounceLeave, SendTo, KindOf
<1>5. CASE AllRoomsLeft
  BY <1>5 DEF AllRoomsLeft
<1>6. CASE CloseSend
  BY <1>6 DEF CloseSend
<1>7. ASSUME NEW r \in Rooms, MeshTick(r) PROVE HubInv'
  BY <1>7 DEF MeshTick, SendTo, KindOf
<1>8. ASSUME NEW c \in Clients, Unregister(c) PROVE HubInv'
  BY <1>8 DEF Unregister
<1>9. ASSUME NEW c \in Clients, Register(c) PROVE HubInv'
  BY <1>9 DEF Register, Goto
<1>10. ASSUME NEW c \in Clients, Disconnect(c) PROVE HubInv'
  BY <1>10 DEF Disconnect, Ready
<1>11. ASSUME NEW c \in Clients, ListRooms(c) PROVE HubInv'
  BY <1>11 DEF ListRooms, Ready, Listed
<1>12. ASSUME NEW c \in Clients, SetTransport(c) PROVE HubInv'
  BY <1>12 DEF SetTransport, Ready, SendTo, KindOf
<1>13. ASSUME NEW c \in Clients, NEW r \in Rooms, JoinRoom(c, r) PROVE HubInv'
  BY <1>13 DEF JoinRoom, Ready
<1>14. ASSUME NEW c \in Clients, NEW r \in Rooms, SendMessage(c, r) PROVE HubInv'
  BY <1>14 DEF SendMessage, Ready, SendTo, KindOf
<1>15. ASSUME NEW c \in Clients, NEW t \in Clients, StartDM(c, t) PROVE HubInv'
  BY <1>15 DEF StartDM, Ready
<1>16. ASSUME NEW c \in Clients, NEW d \in DMs, JoinDM(c, d) PROVE HubInv'
  BY <1>16 DEF JoinDM, Ready
<1>17. ASSUME NEW c \in Clients, Greet(c) PROVE HubInv'
  BY <1>17 DEF Greet, Goto, Listed
<1>18. ASSUME NEW c \in Clients, JoinCheck(c) PROVE HubInv'
  BY <1>18 DEF JoinCheck, Goto, Done
<1>19. ASSUME NEW c \in Clients, JoinAdd(c) PROVE HubInv'
  BY <1>19 DEF JoinAdd, AddSelf, Goto
<1>20. ASSUME NEW c \in Clients, JoinAnnounce(c) PROVE HubInv'
  BY <1>20 DEF JoinAnnounce, Goto, SendTo, KindOf
<1>21. ASSUME NEW c \in Clients, CopyMembers(c) PROVE HubInv'
  BY <1>21 DEF CopyMembers
<1>22. ASSUME NEW c \in Clients, SendToCopied(c) PROVE HubInv'
  BY <1>22 DEF SendToCopied, SendTo
<1>23. ASSUME NEW c \in Clients, CopiedServed(c) PROVE HubInv'
  BY <1>23 DEF CopiedServed, Goto
<1>24. ASSUME NEW c \in Clients, BroadcastRoomList(c) PROVE HubInv'
  BY <1>24 DEF BroadcastRoomList, SendTo, Done, Listed
<1>25. ASSUME NEW c \in Clients, FindDM(c) PROVE HubInv'
  BY <1>25 DEF FindDM, Goto
<1>26. ASSUME NEW c \in Clients, CreateDM(c) PROVE HubInv'
  BY <1>26 DEF CreateDM, FreshDMs
<1>27. ASSUME NEW c \in Clients, FlagDM(c) PROVE HubInv'
  BY <1>27 DEF FlagDM, Goto
<1>28. ASSUME NEW c \in Clients, DMAddSelf(c) PROVE HubInv'
  BY <1>28 DEF DMAddSelf, AddSelf, Goto
<1>29. ASSUME NEW c \in Clients, DMAddTarget(c) PROVE HubInv'
  BY <1>29 DEF DMAddTarget, Goto
<1>30. ASSUME NEW c \in Clients, DMRecordTarget(c) PROVE HubInv'
  BY <1>30 DEF DMRecordTarget, Goto
<1>31. ASSUME NEW c \in Clients, DMNotify(c) PROVE HubInv'
  BY <1>31 DEF DMNotify, SendTo, Done
<1>32. ASSUME NEW c \in Clients, JoinDMCheck(c) PROVE HubInv'
  BY <1>32 DEF JoinDMCheck, Goto, Done
<1>33. ASSUME NEW c \in Clients, JoinDMAdd(c) PROVE HubInv'
  BY <1>33 DEF JoinDMAdd, Done
<1>34. CASE UNCHANGED vars
  BY <1>34
<1> QED
  BY <1>1, <1>2, <1>3, <1>4, <1>5, <1>6, <1>7, <1>8, <1>9, <1>10, <1>11, <1>12, <1>13, <1>14, <1>15, <1>16, <1>17, <1>18, <1>19, <1>20, <1>21, <1>22, <1>23, <1>24, <1>25, <1>26, <1>27, <1>28, <1>29, <1>30, <1>31, <1>32, <1>33, <1>34
     DEF Next, HubStep, Continue, Request

\* HubInv holds of every behaviour of the hub.
LEMMA SpecHubInv == Spec => []HubInv
<1>1. Init => HubInv
  BY InitHubInv
<1>2. HubInv /\ [Next]_vars => HubInv'
  BY StepHubInv
<1> QED
  BY <1>1, <1>2, PTL DEF Spec

\* The shared maps keep the shape of their Go types (hub.go:18-30, 42-123).
THEOREM HubTypeCorrect == Spec => []TypeOK
BY SpecHubInv, PTL DEF HubInv

\* No public room keeps a member whose channel is closed (hub.go:52-95).
THEOREM HubNoGhostMember == Spec => []NoGhostMember
BY SpecHubInv, PTL DEF HubInv

\* Only a copied member list or a direct message can meet a closed channel:
\* the sends under room.mu or h.mu cannot (hub.go:158-167, room.go:273-286).
THEOREM HubPanicsOnlyUnlocked == Spec => []PanicsOnlyUnlocked
BY SpecHubInv, PTL DEF HubInv

\* client.rooms covers the memberships, but for a target that StartDM has added
\* and not yet recorded, and for a direct message opened to a connection that is
\* being retired: the hub goroutine forgets a room only after it has taken the
\* connection out of it (hub.go:86-95, 241-246, 966-978).
LEMMA StepCovers ==
  ASSUME HubInv, RoomsCoverMembers, [Next]_vars
  PROVE  RoomsCoverMembers'
<1> USE HubAssumption
    DEF HubInv, TypeOK, RoomsCoverMembers, Rooms, None, PCs, HubPCs,
        connVars, roomVars, taskVars, hubVars, vars
<1>1. ASSUME NEW r \in Rooms, LeaveRoom(r) PROVE RoomsCoverMembers'
  BY <1>1 DEF LeaveRoom
<1>2. CASE ForgetRoom
  BY <1>2 DEF ForgetRoom, Lifecycle, Walk
<1>3. ASSUME NEW c \in Clients, Unregister(c) \/ Register(c) \/ Disconnect(c)
      PROVE  RoomsCoverMembers'
  BY <1>3 DEF Unregister, Register, Disconnect, Ready, Goto, HandlerArgs
<1>4. ASSUME NEW c \in Clients, JoinAdd(c) \/ DMAddSelf(c)
      PROVE  RoomsCoverMembers'
  BY <1>4 DEF JoinAdd, DMAddSelf, AddSelf, Goto, HandlerArgs
<1>5. ASSUME NEW c \in Clients, DMAddTarget(c) PROVE RoomsCoverMembers'
  BY <1>5 DEF DMAddTarget, Goto, HandlerArgs
<1>6. ASSUME NEW c \in Clients, DMRecordTarget(c) PROVE RoomsCoverMembers'
  BY <1>6 DEF DMRecordTarget, Goto, HandlerArgs
<1>7. ASSUME NEW c \in Clients, JoinDMAdd(c) PROVE RoomsCoverMembers'
  BY <1>7 DEF JoinDMAdd, Done, HandlerArgs
<1>8. ASSUME UNCHANGED <<members, rooms, conn>>,
             \A d \in Clients : pc[d] = "dm_record" =>
                pc'[d] = pc[d] /\ peer'[d] = peer[d] /\ cur'[d] = cur[d]
      PROVE  RoomsCoverMembers'
  BY <1>8
<1>9. ASSUME \/ SnapshotRooms \/ AnnounceLeave \/ AllRoomsLeft \/ CloseSend
             \/ \E r \in Rooms : MeshTick(r)
      PROVE  RoomsCoverMembers'
  BY <1>9, <1>8 DEF SnapshotRooms, AnnounceLeave, AllRoomsLeft, CloseSend, MeshTick
<1>10. ASSUME NEW c \in Clients,
              \/ ListRooms(c) \/ SetTransport(c)
              \/ \E r \in Rooms : JoinRoom(c, r) \/ SendMessage(c, r)
              \/ \E t \in Clients : StartDM(c, t)
              \/ \E r \in DMs : JoinDM(c, r)
       PROVE  RoomsCoverMembers'
  BY <1>10, <1>8 DEF ListRooms, SetTransport, JoinRoom, SendMessage, StartDM, JoinDM,
                     Ready
<1>11. ASSUME NEW c \in Clients,
              \/ Greet(c) \/ JoinCheck(c) \/ JoinAnnounce(c) \/ CopyMembers(c)
              \/ SendToCopied(c) \/ CopiedServed(c) \/ BroadcastRoomList(c)
       PROVE  RoomsCoverMembers'
  BY <1>11, <1>8 DEF Greet, JoinCheck, JoinAnnounce, CopyMembers, SendToCopied,
                     CopiedServed, BroadcastRoomList, Goto, Done
<1>12. ASSUME NEW c \in Clients,
              FindDM(c) \/ CreateDM(c) \/ FlagDM(c) \/ DMNotify(c) \/ JoinDMCheck(c)
       PROVE  RoomsCoverMembers'
  BY <1>12, <1>8 DEF FindDM, CreateDM, FlagDM, DMNotify, JoinDMCheck, Goto, Done
<1>13. CASE UNCHANGED vars
  BY <1>13
<1>14. CASE HubStep \/ \E r \in Rooms : MeshTick(r)
  BY <1>14, <1>1, <1>2, <1>9 DEF HubStep
<1>15. ASSUME NEW c \in Clients, Unregister(c) \/ Continue(c) \/ Request(c)
       PROVE  RoomsCoverMembers'
  BY <1>15, <1>3, <1>4, <1>5, <1>6, <1>7, <1>10, <1>11, <1>12 DEF Continue, Request
<1> QED
  BY <1>13, <1>14, <1>15 DEF Next

\* The list a connection is retired by is complete, for any number of
\* connections, people and rooms (hub.go:86-95, 241-246, 966-978).
THEOREM HubRoomsCoverMembers == Spec => []RoomsCoverMembers
<1>1. Init => RoomsCoverMembers
  BY DEF Init, RoomsCoverMembers, Rooms
<1>2. HubInv /\ RoomsCoverMembers /\ [Next]_vars => RoomsCoverMembers'
  BY StepCovers
<1> QED
  BY <1>1, <1>2, SpecHubInv, PTL DEF Spec

-----------------------------------------------------------------------------
(* The hub implements PublicRooms *)

in == [r \in Names |-> members[r]]
departed == {c \in Clients : conn[c] = "gone"}

\* The empty server is the empty membership of PublicRooms.
LEMMA InitImplements == Init => Membership!Init
BY DEF Init, Membership!Init, Rooms

\* Four kinds of step move the abstract state (AddMember, RemoveMember, the
\* unregister rendezvous and the close); for all others it stands still.
LEMMA StepImplements ==
  ASSUME HubInv, [Next]_vars
  PROVE  [Membership!Next]_(Membership!vars)
<1> DEFINE Still == UNCHANGED <<in, departed, closed>>
<1> USE HubAssumption
    DEF HubInv, TypeOK, Rooms, connVars, roomVars, taskVars, hubVars
<1>1. Still => UNCHANGED Membership!vars
  BY DEF in, departed, Membership!vars
<1>2. ASSUME NEW r \in Rooms, LeaveRoom(r)
      PROVE Still \/ (r \in Names /\ Membership!Leave(leaving, r))
  <2>1. CASE r \in DMs
    BY <1>2, <2>1 DEF LeaveRoom, in, departed
  <2>2. CASE r \in Names
    BY <1>2, <2>2 DEF LeaveRoom, Lifecycle, Membership!Leave
  <2> QED BY <2>1, <2>2
<1>3. ASSUME CloseSend
      PROVE Still \/ Membership!Retire(leaving)
  BY <1>3 DEF CloseSend, Lifecycle, Walk, in, departed, Membership!Retire
<1>4. ASSUME NEW c \in Clients, Unregister(c)
      PROVE Membership!Depart(c)
  BY <1>4 DEF Unregister, Membership!Depart
<1>5. ASSUME NEW c \in Clients, JoinAdd(c)
      PROVE Still \/ (cur[c] \in Names /\ Membership!Enter(c, cur[c]))
  <2>1. CASE cur[c] \in Names
    BY <1>5, <2>1 DEF JoinAdd, AddSelf, HandlerArgs, Membership!Enter
  <2>2. CASE cur[c] \in DMs
    BY <1>5, <2>2 DEF JoinAdd, AddSelf, in, departed
  <2>3. cur[c] \in Rooms
    BY <1>5 DEF JoinAdd, AddSelf, HandlerArgs
  <2> QED BY <2>1, <2>2, <2>3
<1>6. ASSUME NEW c \in Clients, DMAddSelf(c) \/ DMAddTarget(c) \/ JoinDMAdd(c)
      PROVE Still
  BY <1>6 DEF DMAddSelf, AddSelf, DMAddTarget, JoinDMAdd, HandlerArgs, in,
              departed
<1>7. ASSUME NEW c \in Clients, Register(c) \/ Disconnect(c)
      PROVE Still
  BY <1>7 DEF Register, Disconnect, Ready, in, departed
<1>8. ASSUME UNCHANGED <<members, conn, closed>>
      PROVE Still
  BY <1>8 DEF in, departed
<1>9. ASSUME \/ SnapshotRooms \/ ForgetRoom \/ AnnounceLeave \/ AllRoomsLeft
             \/ \E r \in Rooms : MeshTick(r)
      PROVE UNCHANGED <<members, conn, closed>>
  BY <1>9 DEF SnapshotRooms, ForgetRoom, AnnounceLeave, AllRoomsLeft, MeshTick
<1>10. ASSUME NEW c \in Clients,
              \/ ListRooms(c) \/ SetTransport(c)
              \/ \E r \in Rooms : JoinRoom(c, r) \/ SendMessage(c, r)
              \/ \E t \in Clients : StartDM(c, t)
              \/ \E r \in DMs : JoinDM(c, r)
       PROVE UNCHANGED <<members, conn, closed>>
  BY <1>10 DEF ListRooms, SetTransport, JoinRoom, SendMessage, StartDM, JoinDM
<1>11. ASSUME NEW c \in Clients,
              \/ Greet(c) \/ JoinCheck(c) \/ JoinAnnounce(c) \/ CopyMembers(c)
              \/ SendToCopied(c) \/ CopiedServed(c) \/ BroadcastRoomList(c)
              \/ FindDM(c) \/ CreateDM(c) \/ FlagDM(c) \/ DMRecordTarget(c)
              \/ DMNotify(c) \/ JoinDMCheck(c)
       PROVE UNCHANGED <<members, conn, closed>>
  BY <1>11 DEF Greet, JoinCheck, JoinAnnounce, CopyMembers, SendToCopied,
               CopiedServed, BroadcastRoomList, FindDM, CreateDM, FlagDM,
               DMRecordTarget, DMNotify, JoinDMCheck
<1>12. CASE UNCHANGED vars
  BY <1>1, <1>8, <1>12 DEF vars
<1>13. CASE Next
  <2>1. CASE HubStep \/ \E r \in Rooms : MeshTick(r)
    BY <2>1, <1>1, <1>2, <1>3, <1>8, <1>9
       DEF HubStep, CloseSend, Lifecycle, LeaveRoom, Membership!Next
  <2>2. ASSUME NEW c \in Clients, Unregister(c)
        PROVE Membership!Next
    BY <2>2, <1>4 DEF Membership!Next
  <2>3. ASSUME NEW c \in Clients, Continue(c)
        PROVE Still \/ Membership!Next
    <3>1. CASE JoinAdd(c)
      BY <3>1, <1>5 DEF Membership!Next, Membership!Enter
    <3>2. CASE DMAddSelf(c) \/ DMAddTarget(c) \/ JoinDMAdd(c)
      BY <3>2, <1>6
    <3>3. CASE \/ Greet(c) \/ JoinCheck(c) \/ JoinAnnounce(c)
               \/ CopyMembers(c) \/ SendToCopied(c) \/ CopiedServed(c)
               \/ BroadcastRoomList(c) \/ FindDM(c) \/ CreateDM(c)
               \/ FlagDM(c) \/ DMRecordTarget(c) \/ DMNotify(c)
               \/ JoinDMCheck(c)
      BY <3>3, <1>8, <1>11
    <3> QED BY <2>3, <3>1, <3>2, <3>3 DEF Continue
  <2>4. ASSUME NEW c \in Clients, Request(c)
        PROVE Still
    BY <2>4, <1>7, <1>8, <1>10 DEF Request
  <2> QED BY <1>13, <2>1, <2>2, <2>3, <2>4, <1>1 DEF Next
<1> QED BY <1>12, <1>13

\* The hub implements the membership promise of PublicRooms for any number
\* of connections and rooms (hub.go:42-123, 175-259, 532-563).
THEOREM HubImplementsPublicRooms == Spec => ImplementsPublicRooms
<1>1. Init => Membership!Init
  BY InitImplements
<1>2. HubInv /\ [Next]_vars => [Membership!Next]_(Membership!vars)
  BY StepImplements
<1> QED
  BY <1>1, <1>2, SpecHubInv, PTL
     DEF Spec, ImplementsPublicRooms, Membership!Spec

-----------------------------------------------------------------------------
(***************************************************************************)
(* The locks of the server: HubLocks.                                      *)
(*                                                                         *)
(* First that every handler gives back what it takes and, RegisterBlePeer  *)
(* apart, takes the locks in one order (HeldIs): from the part that reads  *)
(* one connection up to the whole handler, by induction over the           *)
(* connections a part goes through.  Then LockInv, that a goroutine holds  *)
(* at every moment what its handler says.  A circle of waiting goroutines  *)
(* would need a lock above the highest one (NoCircle).                     *)
(***************************************************************************)

CONSTANTS Readers, Writers, HubRun, Requests, MaxRuns
VARIABLES handler, client, at, runs, readers, writer, pending

L == INSTANCE HubLocks

LocksAssumption == L!HubLocksAssumption

Operations == {"RLock", "RUnlock", "Lock", "Unlock"} \X L!Locks

\* What a goroutine holds: how often each lock for reading, and which for writing.
Reads == [L!Locks -> Nat]
NoReads == [l \in L!Locks |-> 0]
Plus(r, l) == [r EXCEPT ![l] = @ + 1]

\* The order of the locks.
Level(l) == IF l = "h.mu" THEN 1 ELSE IF l = "room.mu" THEN 2 ELSE IF l = "vc.mu" THEN 3 ELSE 4

\* An operation of a goroutine that holds r and w, after which it holds r2 and w2.
Effect(op, r, w, r2, w2) ==
  /\ op[1] = "RLock" => r2 = Plus(r, op[2]) /\ w2 = w
  /\ op[1] = "RUnlock" => r[op[2]] # 0 /\ r2 = [r EXCEPT ![op[2]] = @ - 1] /\ w2 = w
  /\ op[1] = "Lock" => r2 = r /\ w2 = w \cup {op[2]}
  /\ op[1] = "Unlock" => op[2] \in w /\ r2 = r /\ w2 = w \ {op[2]}

\* What it takes is above n and above all it holds.
Ascends(op, r, w, n) ==
  op[1] \in {"RLock", "Lock"} =>
    Level(op[2]) > n /\ \A l \in L!Locks : r[l] # 0 \/ l \in w => Level(l) < Level(op[2])

Legal(op, r, w, r2, w2, ordered, n) ==
  Effect(op, r, w, r2, w2) /\ (ordered => Ascends(op, r, w, n))

\* r and w tell what a goroutine holds before each operation of s, and at the end.
Tells(s, r, w, ordered, n) ==
  /\ r \in [1..(Len(s) + 1) -> Reads] /\ w \in [1..(Len(s) + 1) -> SUBSET L!Locks]
  /\ r[1] = NoReads /\ w[1] = {} /\ r[Len(s) + 1] = NoReads /\ w[Len(s) + 1] = {}
  /\ \A i \in 1..Len(s) : Legal(s[i], r[i], w[i], r[i + 1], w[i + 1], ordered, n)

\* A sequence of operations that gives back what it takes.
Fits(s, ordered, n) == s \in Seq(Operations) /\ \E r, w : Tells(s, r, w, ordered, n)

\* Induction over numbers, as the statement that a set contains them all.
LEMMA NumbersIn ==
  ASSUME NEW T, 0 \in T, \A n \in Nat : n \in T => n + 1 \in T
  PROVE  Nat \subseteq T
<1> DEFINE U == Nat \ T
           R == OpToRel(<, Nat)
<1>1. IsWellFoundedOn(R, Nat)
  BY NatLessThanWellFounded
<1>2. \A a, b \in Nat : a < b => <<a, b>> \in R
  BY DEF OpToRel
<1> HIDE DEF R
<1>3. U # {} => \E x \in U : \A y \in U : <<y, x>> \notin R
  BY <1>1, WFMin
<1>4. ASSUME NEW x \in U, \A y \in U : <<y, x>> \notin R
      PROVE  FALSE
  <2>1. x # 0 /\ x - 1 \in Nat /\ x - 1 < x /\ x = (x - 1) + 1
    BY <1>4
  <2>2. x - 1 \in U
    BY <1>4, <2>1
  <2>3. QED
    BY <1>2, <1>4, <2>1, <2>2
<1>5. QED
  BY <1>3, <1>4

LEMMA FitsEmpty == \A ordered, n : Fits(<<>>, ordered, n)
<1> SUFFICES ASSUME NEW ordered, NEW n
             PROVE  Fits(<<>>, ordered, n)
  OBVIOUS
<1>1. <<>> \in Seq(Operations) /\ Len(<<>>) = 0
  BY EmptySeq
<1> DEFINE r == [i \in 1..1 |-> NoReads]
           w == [i \in 1..1 |-> {}]
<1>2. Tells(<<>>, r, w, ordered, n)
  BY <1>1 DEF Tells, NoReads, Reads
<1>3. QED
  BY <1>1, <1>2 DEF Fits

LEMMA FitsConcat ==
  ASSUME NEW s, NEW t, NEW ordered, NEW n, Fits(s, ordered, n), Fits(t, ordered, n)
  PROVE  Fits(s \o t, ordered, n)
<1> DEFINE u == s \o t
           a == Len(s)
           b == Len(t)
<1>1. s \in Seq(Operations) /\ t \in Seq(Operations) /\ a \in Nat /\ b \in Nat
  BY LenProperties DEF Fits
<1>2. /\ u \in Seq(Operations) /\ Len(u) = a + b
      /\ \A i \in 1..a : u[i] = s[i]
      /\ \A j \in 1..b : u[a + j] = t[j]
  <2>1. /\ u \in Seq(Operations) /\ Len(u) = a + b
        /\ \A i \in 1..(a + b) : u[i] = IF i <= a THEN s[i] ELSE t[i - a]
    BY <1>1, ConcatProperties
  <2>2. \A j \in 1..b : a + j \in 1..(a + b) /\ ~(a + j <= a) /\ (a + j) - a = j
    BY <1>1
  <2>3. \A i \in 1..a : i \in 1..(a + b) /\ i <= a
    BY <1>1
  <2> HIDE DEF u, a, b
  <2>4. QED
    BY <2>1, <2>2, <2>3
<1>3. PICK r1, w1 : Tells(s, r1, w1, ordered, n)
  BY DEF Fits
<1>4. PICK r2, w2 : Tells(t, r2, w2, ordered, n)
  BY DEF Fits
<1> HIDE DEF u, a, b
<1> DEFINE D == 1..(a + b + 1)
           r == [i \in D |-> IF i <= a THEN r1[i] ELSE r2[i - a]]
           w == [i \in D |-> IF i <= a THEN w1[i] ELSE w2[i - a]]
<1>5. /\ r1 \in [1..(a + 1) -> Reads] /\ w1 \in [1..(a + 1) -> SUBSET L!Locks]
      /\ r1[1] = NoReads /\ w1[1] = {} /\ r1[a + 1] = NoReads /\ w1[a + 1] = {}
      /\ r2 \in [1..(b + 1) -> Reads] /\ w2 \in [1..(b + 1) -> SUBSET L!Locks]
      /\ r2[1] = NoReads /\ w2[1] = {} /\ r2[b + 1] = NoReads /\ w2[b + 1] = {}
  BY <1>3, <1>4 DEF Tells, a, b
<1>6. \A i \in 1..(a + 1) : i \in D /\ r[i] = r1[i] /\ w[i] = w1[i]
  <2> SUFFICES ASSUME NEW i \in 1..(a + 1)
               PROVE  i \in D /\ r[i] = r1[i] /\ w[i] = w1[i]
    OBVIOUS
  <2>1. i \in D /\ (i <= a \/ (i = a + 1 /\ ~(i <= a) /\ i - a = 1))
    BY <1>1
  <2>2. QED
    BY <1>5, <2>1
<1>7. \A j \in 1..(b + 1) : a + j \in D /\ r[a + j] = r2[j] /\ w[a + j] = w2[j]
  <2> SUFFICES ASSUME NEW j \in 1..(b + 1)
               PROVE  a + j \in D /\ r[a + j] = r2[j] /\ w[a + j] = w2[j]
    OBVIOUS
  <2>1. a + j \in D /\ ~(a + j <= a) /\ (a + j) - a = j
    BY <1>1
  <2>2. QED
    BY <2>1
<1>8. \A i \in D : i \in 1..(a + 1) \/ \E j \in 1..(b + 1) : i = a + j
  <2> SUFFICES ASSUME NEW i \in D, i \notin 1..(a + 1)
               PROVE  \E j \in 1..(b + 1) : i = a + j
    OBVIOUS
  <2>1. i - a \in 1..(b + 1) /\ i = a + (i - a)
    BY <1>1
  <2>2. QED
    BY <2>1
<1>9. r \in [D -> Reads] /\ w \in [D -> SUBSET L!Locks]
  <2>1. \A i \in D : r[i] \in Reads /\ w[i] \in SUBSET L!Locks
    <3> HIDE DEF r, w, D
    <3>1. QED
      BY <1>5, <1>6, <1>7, <1>8
  <2>2. QED
    BY <2>1
<1>10. r[1] = NoReads /\ w[1] = {} /\ r[a + b + 1] = NoReads /\ w[a + b + 1] = {}
  <2>1. 1 \in 1..(a + 1) /\ b + 1 \in 1..(b + 1) /\ a + b + 1 = a + (b + 1)
    BY <1>1
  <2> HIDE DEF r, w, D
  <2>2. QED
    BY <1>5, <1>6, <1>7, <2>1
<1> HIDE DEF r, w
<1>11. ASSUME NEW i \in 1..(a + b)
       PROVE  Legal(u[i], r[i], w[i], r[i + 1], w[i + 1], ordered, n)
  <2>1. CASE i <= a
    <3>1. i \in 1..a /\ i \in 1..(a + 1) /\ i + 1 \in 1..(a + 1)
      BY <1>1, <2>1
    <3>2. Legal(s[i], r1[i], w1[i], r1[i + 1], w1[i + 1], ordered, n)
      BY <1>3, <3>1 DEF Tells, a
    <3>3. QED
      BY <1>2, <1>6, <3>1, <3>2
  <2>2. CASE ~(i <= a)
    <3> DEFINE j == i - a
    <3>1. j \in 1..b /\ j \in 1..(b + 1) /\ j + 1 \in 1..(b + 1) /\ i = a + j /\ i + 1 = a + (j + 1)
      BY <1>1, <2>2
    <3> HIDE DEF j
    <3>2. Legal(t[j], r2[j], w2[j], r2[j + 1], w2[j + 1], ordered, n)
      BY <1>4, <3>1 DEF Tells, b
    <3>3. QED
      BY <1>2, <1>7, <3>1, <3>2
  <2>3. QED
    BY <2>1, <2>2
<1>12. Tells(u, r, w, ordered, n)
  BY <1>2, <1>9, <1>10, <1>11 DEF Tells
<1>13. QED
  BY <1>2, <1>12 DEF Fits, u

LEMMA LocksAre ==
  ASSUME LocksAssumption
  PROVE  /\ \A c \in Clients : c \in L!Locks /\ Level(c) = 4
         /\ "h.mu" \in L!Locks /\ "room.mu" \in L!Locks /\ "vc.mu" \in L!Locks
         /\ Level("h.mu") = 1 /\ Level("room.mu") = 2 /\ Level("vc.mu") = 3
         /\ \A l \in L!Locks : Level(l) \in 1..4
BY DEF LocksAssumption, L!HubLocksAssumption, L!Locks, Level

\* A lower bound may be given up, and the order altogether.
LEMMA FitsWeaker ==
  ASSUME NEW s, NEW ordered, NEW n \in Nat, NEW m \in Nat, Fits(s, ordered, n), m <= n
  PROVE  Fits(s, ordered, m) /\ Fits(s, FALSE, m)
<1>1. PICK r, w : Tells(s, r, w, ordered, n)
  BY DEF Fits
<1>2. s \in Seq(Operations) /\ Len(s) \in Nat /\ \A i \in 1..Len(s) : s[i] \in Operations
  BY ElementOfSeq, LenProperties DEF Fits
<1>3. ASSUME NEW i \in 1..Len(s)
      PROVE  /\ Legal(s[i], r[i], w[i], r[i + 1], w[i + 1], ordered, m)
             /\ Legal(s[i], r[i], w[i], r[i + 1], w[i + 1], FALSE, m)
  <2>1. Legal(s[i], r[i], w[i], r[i + 1], w[i + 1], ordered, n)
    BY <1>1 DEF Tells
  <2>2. Level(s[i][2]) \in Nat
    BY DEF Level
  <2>3. QED
    BY <2>1, <2>2 DEF Legal, Ascends
<1>4. Tells(s, r, w, ordered, m) /\ Tells(s, r, w, FALSE, m)
  BY <1>1, <1>3 DEF Tells
<1>5. QED
  BY <1>2, <1>4 DEF Fits

LEMMA PlusIs ==
  ASSUME NEW r \in Reads, NEW l \in L!Locks
  PROVE  /\ Plus(r, l) \in Reads
         /\ \A k \in L!Locks : Plus(r, l)[k] = IF k = l THEN r[k] + 1 ELSE r[k]
BY DEF Plus, Reads

\* What goes on inside a section of l, seen from outside.
LEMMA LegalInside ==
  ASSUME NEW op \in Operations, NEW r \in Reads, NEW r2 \in Reads, NEW w \in SUBSET L!Locks, NEW w2,
         NEW ordered, NEW n \in Nat, NEW m \in Nat, NEW l \in L!Locks,
         Legal(op, r, w, r2, w2, ordered, m), ordered => n < Level(l) /\ Level(l) <= m
  PROVE  Legal(op, Plus(r, l), w, Plus(r2, l), w2, ordered, n)
<1> DEFINE k == op[2]
<1>1. k \in L!Locks /\ op[1] \in {"RLock", "RUnlock", "Lock", "Unlock"}
  BY DEF Operations
<1>2. /\ Plus(r, l) \in Reads /\ Plus(r2, l) \in Reads
      /\ \A j \in L!Locks : /\ Plus(r, l)[j] = IF j = l THEN r[j] + 1 ELSE r[j]
                            /\ Plus(r2, l)[j] = IF j = l THEN r2[j] + 1 ELSE r2[j]
      /\ \A j \in L!Locks : r[j] \in Nat /\ r2[j] \in Nat
  BY PlusIs DEF Reads
<1>3. \A f, g \in Reads : (\A j \in L!Locks : f[j] = g[j]) => f = g
  BY DEF Reads
<1>4. Effect(op, r, w, r2, w2)
  BY DEF Legal
<1>5. op[1] = "RLock" => Plus(r2, l) = Plus(Plus(r, l), k)
  <2>0. Plus(r, l) \in Reads /\ k \in L!Locks
    BY <1>1, <1>2
  <2>1. ASSUME op[1] = "RLock", NEW j \in L!Locks
        PROVE  Plus(r2, l)[j] = Plus(Plus(r, l), k)[j]
    <3>1. r2 = Plus(r, k) /\ r2[j] = IF j = k THEN r[j] + 1 ELSE r[j]
      BY <1>1, <1>4, <2>1, PlusIs DEF Effect
    <3>2. Plus(Plus(r, l), k)[j] = IF j = k THEN Plus(r, l)[j] + 1 ELSE Plus(r, l)[j]
      <4> DEFINE p == Plus(r, l)
      <4>1. p \in Reads /\ k \in L!Locks
        BY <2>0
      <4> HIDE DEF p, k
      <4>2. Plus(p, k)[j] = IF j = k THEN p[j] + 1 ELSE p[j]
        BY <4>1, PlusIs
      <4>3. QED
        BY <4>2 DEF p
    <3>3. QED
      BY <1>2, <3>1, <3>2
  <2>2. Plus(Plus(r, l), k) \in Reads
    BY <1>1, <1>2, PlusIs
  <2>3. QED
    BY <1>2, <1>3, <2>1, <2>2
<1>6. op[1] = "RUnlock" => Plus(r, l)[k] # 0 /\ Plus(r2, l) = [Plus(r, l) EXCEPT ![k] = @ - 1]
  <2> DEFINE f == [Plus(r, l) EXCEPT ![k] = @ - 1]
  <2>1. ASSUME op[1] = "RUnlock"
        PROVE  Plus(r, l)[k] # 0 /\ Plus(r2, l) = f
    <3>1. r[k] # 0 /\ r2 = [r EXCEPT ![k] = @ - 1] /\ r[k] \in Nat
      BY <1>1, <1>2, <1>4, <2>1 DEF Effect
    <3>2. \A j \in L!Locks : r2[j] = IF j = k THEN r[j] - 1 ELSE r[j]
      BY <1>1, <3>1 DEF Reads
    <3>3. Plus(r, l)[k] # 0 /\ Plus(r, l)[k] - 1 \in Nat
      BY <1>1, <1>2, <3>1
    <3>4. f \in Reads /\ \A j \in L!Locks : f[j] = IF j = k THEN Plus(r, l)[j] - 1 ELSE Plus(r, l)[j]
      BY <1>1, <1>2, <3>3 DEF Reads
    <3>5. \A j \in L!Locks : Plus(r2, l)[j] = f[j]
      BY <1>2, <3>2, <3>4
    <3>6. QED
      BY <1>2, <1>3, <3>3, <3>4, <3>5
  <2>2. QED
    BY <2>1
<1>7. Effect(op, Plus(r, l), w, Plus(r2, l), w2)
  <2>1. op[1] = "Lock" \/ op[1] = "Unlock" => r2 = r
    BY <1>4 DEF Effect
  <2>2. QED
    BY <1>4, <1>5, <1>6, <2>1 DEF Effect
<1>8. ordered => Ascends(op, Plus(r, l), w, n)
  <2>1. Level(k) \in Nat /\ \A j : Level(j) \in Nat
    BY DEF Level
  <2>2. ASSUME ordered, op[1] \in {"RLock", "Lock"}
        PROVE  Level(k) > n /\ \A j \in L!Locks : Plus(r, l)[j] # 0 \/ j \in w => Level(j) < Level(k)
    <3>1. Level(k) > m /\ \A j \in L!Locks : r[j] # 0 \/ j \in w => Level(j) < Level(k)
      BY <2>2 DEF Legal, Ascends
    <3>2. Level(l) < Level(k) /\ Level(k) > n
      BY <2>1, <2>2, <3>1
    <3>3. QED
      BY <1>2, <3>1, <3>2
  <2>3. QED
    BY <2>2 DEF Ascends
<1>9. QED
  BY <1>7, <1>8 DEF Legal

LEMMA NoReadsIs == NoReads \in Reads /\ \A l \in L!Locks : NoReads[l] = 0
BY DEF NoReads, Reads

LEMMA OneOp ==
  ASSUME NEW e \in Operations, NEW f \in Operations
  PROVE  /\ <<e>> \in Seq(Operations) /\ Len(<<e>>) = 1 /\ <<e>>[1] = e
         /\ <<e>> \o <<>> = <<e>> /\ <<e>> \o <<f>> = <<e, f>>
         /\ <<e, f>> \in Seq(Operations) /\ Len(<<e, f>>) = 2
         /\ <<e, f>>[1] = e /\ <<e, f>>[2] = f
<1>1. <<e>> \in Seq(Operations) /\ Len(<<e>>) = 1 /\ <<e>>[1] = e
  OBVIOUS
<1>2. <<e>> \o <<>> = <<e>>
  BY <1>1, ConcatEmptySeq
<1>3. /\ <<e, f>> \in Seq(Operations) /\ Len(<<e, f>>) = 2
      /\ <<e, f>>[1] = e /\ <<e, f>>[2] = f
  OBVIOUS
<1>4. <<e>> \o <<f>> = <<e, f>>
  <2> DEFINE x == <<e>>
             y == <<f>>
             z == <<e, f>>
  <2>1. /\ x \in Seq(Operations) /\ Len(x) = 1 /\ x[1] = e
        /\ y \in Seq(Operations) /\ Len(y) = 1 /\ y[1] = f
    OBVIOUS
  <2>2. z \in Seq(Operations) /\ Len(z) = 2 /\ z[1] = e /\ z[2] = f
    BY <1>3
  <2> HIDE DEF x, y, z
  <2>3. /\ x \o y \in Seq(Operations) /\ Len(x \o y) = Len(x) + Len(y)
        /\ \A i \in 1..(Len(x) + Len(y)) : (x \o y)[i] = IF i <= Len(x) THEN x[i] ELSE y[i - Len(x)]
    BY <2>1, ConcatProperties
  <2>4. Len(x \o y) = 2 /\ (x \o y)[1] = e /\ (x \o y)[2] = f
    BY <2>1, <2>3
  <2>5. Len(x \o y) = Len(z) /\ \A i \in 1..Len(x \o y) : (x \o y)[i] = z[i]
    <3>1. \A i \in 1..2 : i = 1 \/ i = 2
      OBVIOUS
    <3>2. QED
      BY <2>2, <2>4, <3>1
  <2>6. x \o y = z
    BY <2>2, <2>3, <2>5, SeqEqual
  <2>7. QED
    BY <2>6 DEF x, y, z
<1>5. QED
  BY <1>1, <1>2, <1>3, <1>4

LEMMA ReadingIs ==
  ASSUME NEW s \in Seq(Operations), NEW l \in L!Locks
  PROVE  /\ L!Reading(l, s) \in Seq(Operations) /\ Len(L!Reading(l, s)) = Len(s) + 2
         /\ L!Reading(l, s)[1] = <<"RLock", l>>
         /\ \A i \in 1..Len(s) : L!Reading(l, s)[i + 1] = s[i]
         /\ L!Reading(l, s)[Len(s) + 2] = <<"RUnlock", l>>
<1> DEFINE x == <<<<"RLock", l>>>>
           y == <<<<"RUnlock", l>>>>
           a == Len(s)
<1>1. /\ x \in Seq(Operations) /\ Len(x) = 1 /\ x[1] = <<"RLock", l>>
      /\ y \in Seq(Operations) /\ Len(y) = 1 /\ y[1] = <<"RUnlock", l>>
  <2>1. <<"RLock", l>> \in Operations /\ <<"RUnlock", l>> \in Operations
    BY DEF Operations
  <2> DEFINE e == <<"RLock", l>>
             f == <<"RUnlock", l>>
  <2>2. e \in Operations /\ f \in Operations
    BY <2>1
  <2> HIDE DEF e, f
  <2>3. /\ <<e>> \in Seq(Operations) /\ Len(<<e>>) = 1 /\ <<e>>[1] = e
        /\ <<f>> \in Seq(Operations) /\ Len(<<f>>) = 1 /\ <<f>>[1] = f
    BY <2>2, OneOp
  <2>4. QED
    BY <2>3 DEF e, f
<1>2. a \in Nat
  BY LenProperties
<1> HIDE DEF x, y, a
<1>3. /\ x \o s \in Seq(Operations) /\ Len(x \o s) = 1 + a
      /\ \A i \in 1..(1 + a) : (x \o s)[i] = IF i <= 1 THEN x[i] ELSE s[i - 1]
  <2>1. /\ x \o s \in Seq(Operations) /\ Len(x \o s) = Len(x) + Len(s)
        /\ \A i \in 1..(Len(x) + Len(s)) : (x \o s)[i] = IF i <= Len(x) THEN x[i] ELSE s[i - Len(x)]
    BY <1>1, ConcatProperties
  <2>2. QED
    BY <1>1, <2>1 DEF a
<1>4. /\ (x \o s) \o y \in Seq(Operations) /\ Len((x \o s) \o y) = (1 + a) + 1
      /\ \A i \in 1..((1 + a) + 1) :
           ((x \o s) \o y)[i] = IF i <= 1 + a THEN (x \o s)[i] ELSE y[i - (1 + a)]
  <2> DEFINE z == x \o s
  <2>1. z \in Seq(Operations) /\ Len(z) = 1 + a
    BY <1>3
  <2> HIDE DEF z
  <2>2. /\ z \o y \in Seq(Operations) /\ Len(z \o y) = Len(z) + Len(y)
        /\ \A i \in 1..(Len(z) + Len(y)) : (z \o y)[i] = IF i <= Len(z) THEN z[i] ELSE y[i - Len(z)]
    BY <1>1, <2>1, ConcatProperties
  <2>3. QED
    BY <1>1, <2>1, <2>2 DEF z
<1> DEFINE u == (x \o s) \o y
<1>5. L!Reading(l, s) = u
  BY DEF L!Reading, x, y
<1>6. u[1] = <<"RLock", l>>
  <2>1. 1 \in 1..((1 + a) + 1) /\ 1 \in 1..(1 + a) /\ 1 <= 1 + a
    BY <1>2
  <2>2. QED
    BY <1>1, <1>3, <1>4, <2>1
<1>7. ASSUME NEW i \in 1..a
      PROVE  u[i + 1] = s[i]
  <2>1. /\ i + 1 \in 1..((1 + a) + 1) /\ i + 1 \in 1..(1 + a) /\ i + 1 <= 1 + a /\ ~(i + 1 <= 1)
        /\ (i + 1) - 1 = i
    BY <1>2
  <2>2. QED
    BY <1>3, <1>4, <2>1
<1>8. u[a + 2] = <<"RUnlock", l>>
  <2>1. /\ a + 2 \in 1..((1 + a) + 1) /\ ~(a + 2 <= 1 + a) /\ (a + 2) - (1 + a) = 1
    BY <1>2
  <2>2. QED
    BY <1>1, <1>4, <2>1
<1>9. u \in Seq(Operations) /\ Len(u) = a + 2
  BY <1>2, <1>4
<1> HIDE DEF u
<1>10. QED
  BY <1>5, <1>6, <1>7, <1>8, <1>9 DEF a

LEMMA FitsReading ==
  ASSUME NEW s, NEW l \in L!Locks, NEW ordered, NEW n \in Nat, NEW m \in Nat,
         Fits(s, ordered, m), ordered => n < Level(l) /\ Level(l) <= m
  PROVE  Fits(L!Reading(l, s), ordered, n)
<1> DEFINE u == L!Reading(l, s)
           a == Len(s)
<1>1. PICK r1, w1 : Tells(s, r1, w1, ordered, m)
  BY DEF Fits
<1>2. s \in Seq(Operations) /\ a \in Nat /\ \A i \in 1..a : s[i] \in Operations
  BY LenProperties, ElementOfSeq DEF Fits
<1>3. /\ u \in Seq(Operations) /\ Len(u) = a + 2
      /\ u[1] = <<"RLock", l>> /\ u[a + 2] = <<"RUnlock", l>>
      /\ \A i \in 1..a : u[i + 1] = s[i]
  BY <1>2, ReadingIs
<1> HIDE DEF u, a
<1>4. /\ r1 \in [1..(a + 1) -> Reads] /\ w1 \in [1..(a + 1) -> SUBSET L!Locks]
      /\ r1[1] = NoReads /\ w1[1] = {} /\ r1[a + 1] = NoReads /\ w1[a + 1] = {}
      /\ \A i \in 1..a : Legal(s[i], r1[i], w1[i], r1[i + 1], w1[i + 1], ordered, m)
  BY <1>1 DEF Tells, a
<1> DEFINE D == 1..(a + 3)
           r == [i \in D |-> IF i = 1 \/ i = a + 3 THEN NoReads ELSE Plus(r1[i - 1], l)]
           w == [i \in D |-> IF i = 1 \/ i = a + 3 THEN {} ELSE w1[i - 1]]
<1>5. \A i \in 1..(a + 1) : i + 1 \in D /\ r[i + 1] = Plus(r1[i], l) /\ w[i + 1] = w1[i]
  <2> SUFFICES ASSUME NEW i \in 1..(a + 1)
               PROVE  i + 1 \in D /\ r[i + 1] = Plus(r1[i], l) /\ w[i + 1] = w1[i]
    OBVIOUS
  <2>1. i + 1 \in D /\ i + 1 # 1 /\ i + 1 # a + 3 /\ (i + 1) - 1 = i
    BY <1>2
  <2>2. QED
    BY <2>1
<1>6. /\ 1 \in D /\ a + 3 \in D
      /\ r[1] = NoReads /\ w[1] = {} /\ r[a + 3] = NoReads /\ w[a + 3] = {}
  BY <1>2
<1>7. \A i \in D : i = 1 \/ i = a + 3 \/ \E j \in 1..(a + 1) : i = j + 1
  <2> SUFFICES ASSUME NEW i \in D, i # 1, i # a + 3
               PROVE  \E j \in 1..(a + 1) : i = j + 1
    OBVIOUS
  <2>1. i - 1 \in 1..(a + 1) /\ i = (i - 1) + 1
    BY <1>2
  <2>2. QED
    BY <2>1
<1>8. r \in [D -> Reads] /\ w \in [D -> SUBSET L!Locks]
  <2>1. \A i \in D : r[i] \in Reads /\ w[i] \in SUBSET L!Locks
    <3> HIDE DEF r, w, D
    <3>1. QED
      BY <1>4, <1>5, <1>6, <1>7, NoReadsIs, PlusIs
  <2>2. QED
    BY <2>1
<1> HIDE DEF r, w
<1>9. Legal(u[1], r[1], w[1], r[2], w[2], ordered, n)
  <2>1. 1 \in 1..(a + 1) /\ 1 + 1 = 2
    BY <1>2
  <2>2. r[2] = Plus(NoReads, l) /\ w[2] = {}
    BY <1>4, <1>5, <2>1
  <2>3. Legal(<<"RLock", l>>, NoReads, {}, Plus(NoReads, l), {}, ordered, n)
    BY NoReadsIs DEF Legal, Effect, Ascends
  <2>4. QED
    BY <1>3, <1>6, <2>2, <2>3
<1>10. Legal(u[a + 2], r[a + 2], w[a + 2], r[a + 3], w[a + 3], ordered, n)
  <2>1. a + 1 \in 1..(a + 1) /\ (a + 1) + 1 = a + 2
    BY <1>2
  <2>2. r[a + 2] = Plus(NoReads, l) /\ w[a + 2] = {}
    BY <1>4, <1>5, <2>1
  <2>3. NoReads = [Plus(NoReads, l) EXCEPT ![l] = @ - 1] /\ Plus(NoReads, l)[l] # 0
    BY DEF NoReads, Plus
  <2>4. Legal(<<"RUnlock", l>>, Plus(NoReads, l), {}, NoReads, {}, ordered, n)
    BY <2>3 DEF Legal, Effect, Ascends
  <2>5. QED
    BY <1>3, <1>6, <2>2, <2>4
<1>11. ASSUME NEW j \in 1..a
       PROVE  Legal(u[j + 1], r[j + 1], w[j + 1], r[(j + 1) + 1], w[(j + 1) + 1], ordered, n)
  <2>1. j \in 1..(a + 1) /\ j + 1 \in 1..(a + 1)
    BY <1>2
  <2>2. /\ s[j] \in Operations /\ r1[j] \in Reads /\ r1[j + 1] \in Reads /\ w1[j] \in SUBSET L!Locks
        /\ Legal(s[j], r1[j], w1[j], r1[j + 1], w1[j + 1], ordered, m)
    BY <1>2, <1>4, <2>1
  <2>3. Legal(s[j], Plus(r1[j], l), w1[j], Plus(r1[j + 1], l), w1[j + 1], ordered, n)
    BY <2>2, LegalInside
  <2>4. QED
    BY <1>3, <1>5, <2>1, <2>3
<1>12. \A i \in 1..(a + 2) : Legal(u[i], r[i], w[i], r[i + 1], w[i + 1], ordered, n)
  <2> SUFFICES ASSUME NEW i \in 1..(a + 2)
               PROVE  Legal(u[i], r[i], w[i], r[i + 1], w[i + 1], ordered, n)
    OBVIOUS
  <2>1. CASE i = 1
    <3>1. i + 1 = 2
      BY <2>1
    <3>2. QED
      BY <1>9, <2>1, <3>1
  <2>2. CASE i = a + 2
    <3>1. i + 1 = a + 3
      BY <1>2, <2>2
    <3>2. QED
      BY <1>10, <2>2, <3>1
  <2>3. CASE i # 1 /\ i # a + 2
    <3> DEFINE j == i - 1
    <3>1. j \in 1..a /\ i = j + 1
      BY <1>2, <2>3
    <3> HIDE DEF j
    <3>2. QED
      BY <1>11, <3>1
  <2>4. QED
    BY <2>1, <2>2, <2>3
<1>13. Len(u) + 1 = a + 3
  BY <1>2, <1>3
<1>14. Tells(u, r, w, ordered, n)
  BY <1>3, <1>6, <1>8, <1>12, <1>13 DEF Tells
<1>15. QED
  BY <1>3, <1>14 DEF Fits, u

LEMMA FitsWrite ==
  ASSUME NEW l \in L!Locks, NEW ordered, NEW n \in Nat, ordered => n < Level(l)
  PROVE  Fits(L!Write(l), ordered, n)
<1> DEFINE u == <<<<"Lock", l>>, <<"Unlock", l>>>>
           r == [i \in 1..3 |-> NoReads]
           w == [i \in 1..3 |-> IF i = 2 THEN {l} ELSE {}]
<1>0. <<"Lock", l>> \in Operations /\ <<"Unlock", l>> \in Operations
  BY DEF Operations
<1>1. u \in Seq(Operations) /\ Len(u) = 2 /\ u[1] = <<"Lock", l>> /\ u[2] = <<"Unlock", l>>
  BY <1>0, OneOp
<1>2. L!Write(l) = u
  <2>1. /\ <<<<"Lock", l>>>> \o <<>> = <<<<"Lock", l>>>>
        /\ <<<<"Lock", l>>>> \o <<<<"Unlock", l>>>> = u
    BY <1>0, OneOp
  <2>2. QED
    BY <2>1 DEF L!Write, L!Writing
<1>3. /\ r \in [1..3 -> Reads] /\ w \in [1..3 -> SUBSET L!Locks]
      /\ r[1] = NoReads /\ r[2] = NoReads /\ r[3] = NoReads
      /\ w[1] = {} /\ w[2] = {l} /\ w[3] = {}
  BY NoReadsIs
<1> HIDE DEF u, r, w
<1>4. Legal(<<"Lock", l>>, NoReads, {}, NoReads, {l}, ordered, n)
  BY NoReadsIs DEF Legal, Effect, Ascends
<1>5. Legal(<<"Unlock", l>>, NoReads, {l}, NoReads, {}, ordered, n)
  BY DEF Legal, Effect, Ascends
<1>6. \A i \in 1..2 : Legal(u[i], r[i], w[i], r[i + 1], w[i + 1], ordered, n)
  <2>1. Legal(u[1], r[1], w[1], r[2], w[2], ordered, n) /\ Legal(u[2], r[2], w[2], r[3], w[3], ordered, n)
    BY <1>1, <1>3, <1>4, <1>5
  <2>2. 1 + 1 = 2 /\ 2 + 1 = 3 /\ \A i \in 1..2 : i = 1 \/ i = 2
    OBVIOUS
  <2>3. QED
    BY <2>1, <2>2
<1>7. Len(u) + 1 = 3
  BY <1>1
<1>8. Tells(u, r, w, ordered, n)
  BY <1>1, <1>3, <1>6, <1>7 DEF Tells
<1>9. QED
  BY <1>1, <1>2, <1>8 DEF Fits

\* The concatenation of n sequences, one after the other.
Joined(s, g, n) == g = [i \in 1..n |-> IF i = 1 THEN s[i] ELSE g[i - 1] \o s[i]]

LEMMA JoinedExists ==
  ASSUME NEW s, NEW n \in Nat
  PROVE  \E g : Joined(s, g, n + 1)
<1> DEFINE T == {k \in Nat : \E g : Joined(s, g, k + 1)}
           Part(g, i) == IF i = 1 THEN s[i] ELSE g[i - 1] \o s[i]
<1>1. 0 \in T
  <2> DEFINE g == [i \in 1..1 |-> s[i]]
  <2>1. g = [i \in 1..1 |-> Part(g, i)]
    OBVIOUS
  <2>2. Joined(s, g, 0 + 1)
    BY <2>1 DEF Joined
  <2>3. QED
    BY <2>2
<1>2. ASSUME NEW k \in Nat, k \in T
      PROVE  k + 1 \in T
  <2> DEFINE n1 == k + 1
             n2 == (k + 1) + 1
  <2>1. PICK g : Joined(s, g, n1)
    BY <1>2
  <2>2. n1 \in Nat /\ n1 # 0 /\ n2 = n1 + 1 /\ \A i \in 1..n2 : i \in 1..n1 \/ i = n2
    OBVIOUS
  <2> HIDE DEF n1, n2
  <2>3. g = [i \in 1..n1 |-> Part(g, i)]
    BY <2>1 DEF Joined
  <2> HIDE DEF Part
  <2> DEFINE h == [i \in 1..n2 |-> IF i = n2 THEN g[n1] \o s[i] ELSE g[i]]
  <2>4. \A i \in 1..n1 : i \in 1..n2 /\ h[i] = g[i] /\ g[i] = Part(g, i)
    <3>1. \A i \in 1..n1 : i \in 1..n2 /\ i # n2
      BY <2>2
    <3>2. \A i \in 1..n1 : h[i] = g[i]
      BY <3>1, Zenon
    <3> HIDE DEF h
    <3>3. \A i \in 1..n1 : g[i] = Part(g, i)
      BY <2>3, Zenon
    <3>4. QED
      BY <3>1, <3>2, <3>3
  <2>5. n2 \in 1..n2 /\ n2 # 1 /\ n2 - 1 = n1 /\ n1 \in 1..n1 /\ h[n2] = g[n1] \o s[n2]
    <3>1. n2 \in 1..n2 /\ n2 # 1 /\ n2 - 1 = n1 /\ n1 \in 1..n1
      BY <2>2
    <3>2. QED
      BY <3>1, Zenon
  <2>6. \A i \in 1..n1 : i # 1 => i - 1 \in 1..n1
    BY <2>2
  <2>7. h = [i \in 1..n2 |-> h[i]]
    OBVIOUS
  <2> HIDE DEF h
  <2>8. \A i \in 1..n2 : h[i] = Part(h, i)
    <3>1. h[n2] = Part(h, n2)
      BY <2>4, <2>5 DEF Part
    <3>2. \A i \in 1..n1 : h[i] = Part(h, i)
      BY <2>4, <2>6 DEF Part
    <3>3. QED
      BY <2>2, <3>1, <3>2
  <2>9. h = [i \in 1..n2 |-> Part(h, i)]
    BY <2>7, <2>8
  <2>10. Joined(s, h, n2)
    BY <2>9 DEF Joined, Part
  <2>11. QED
    BY <2>10 DEF n1, n2
<1> HIDE DEF T
<1>3. Nat \subseteq T
  BY <1>1, <1>2, NumbersIn
<1>4. QED
  BY <1>3 DEF T

LEMMA FlattenIs ==
  ASSUME NEW s, \E g : Joined(s, g, Len(s)), Len(s) # 0
  PROVE  \E g : Joined(s, g, Len(s)) /\ L!FlattenSeq(s) = g[Len(s)]
<1>1. \E g : g = [i \in 1..Len(s) |-> IF i = 1 THEN s[i] ELSE g[i - 1] \o s[i]]
  BY Zenon DEF Joined
<1>2. \E g : /\ g = [i \in 1..Len(s) |-> IF i = 1 THEN s[i] ELSE g[i - 1] \o s[i]]
             /\ L!FlattenSeq(s) = g[Len(s)]
  BY <1>1, Zenon DEF L!FlattenSeq
<1>3. QED
  BY <1>2, Zenon DEF Joined

LEMMA FitsFlatten ==
  ASSUME NEW s, NEW n \in Nat, NEW m, NEW ordered, s \in [1..n -> Seq(Operations)],
         \A i \in 1..n : Fits(s[i], ordered, m)
  PROVE  Fits(L!FlattenSeq(s), ordered, m)
<1>1. s \in Seq(Seq(Operations)) /\ Len(s) = n
  OBVIOUS
<1>2. CASE n = 0
  <2>1. s = <<>>
    BY <1>1, <1>2, EmptySeq
  <2>2. L!FlattenSeq(s) = s
    BY <1>1, <1>2, Zenon DEF L!FlattenSeq
  <2>3. QED
    BY <2>1, <2>2, FitsEmpty
<1>3. CASE n # 0
  <2>1. n - 1 \in Nat /\ (n - 1) + 1 = n /\ (n - 1) + 1 <= n
    BY <1>3
  <2>2. PICK g : Joined(s, g, n) /\ L!FlattenSeq(s) = g[n]
    <3>1. \E g : Joined(s, g, (n - 1) + 1)
      BY <2>1, JoinedExists
    <3>2. \E g : Joined(s, g, Len(s))
      BY <1>1, <2>1, <3>1
    <3>3. QED
      BY <1>1, <1>3, <3>2, FlattenIs
  <2>3. g = [i \in 1..n |-> IF i = 1 THEN s[i] ELSE g[i - 1] \o s[i]]
    BY <2>2 DEF Joined
  <2> DEFINE T == {k \in Nat : k + 1 <= n => Fits(g[k + 1], ordered, m)}
  <2>4. 0 \in T
    <3>1. 1 \in 1..n /\ g[1] = s[1] /\ 0 + 1 = 1
      BY <1>3, <2>3
    <3>2. QED
      BY <3>1
  <2>5. ASSUME NEW k \in Nat, k \in T
        PROVE  k + 1 \in T
    <3> SUFFICES ASSUME (k + 1) + 1 <= n
                 PROVE  Fits(g[(k + 1) + 1], ordered, m)
      OBVIOUS
    <3>1. /\ (k + 1) + 1 \in 1..n /\ (k + 1) + 1 # 1 /\ ((k + 1) + 1) - 1 = k + 1 /\ k + 1 <= n
      OBVIOUS
    <3>2. Fits(g[k + 1], ordered, m) /\ Fits(s[(k + 1) + 1], ordered, m)
      BY <2>5, <3>1
    <3>3. g[(k + 1) + 1] = g[k + 1] \o s[(k + 1) + 1]
      BY <2>3, <3>1
    <3>4. QED
      BY <3>2, <3>3, FitsConcat
  <2>6. Nat \subseteq T
    <3> HIDE DEF T
    <3>1. QED
      BY <2>4, <2>5, NumbersIn
  <2>7. Fits(g[n], ordered, m)
    BY <2>1, <2>6
  <2>8. QED
    BY <2>2, <2>7
<1>4. QED
  BY <1>2, <1>3

LEMMA SameSets ==
  \A S : /\ L!IsFiniteSet(S) = IsFiniteSet(S) /\ L!Cardinality(S) = Cardinality(S)
BY Zenon DEF L!IsFiniteSet, IsFiniteSet, L!Cardinality, Cardinality

LEMMA OrderIs ==
  ASSUME NEW S, IsFiniteSet(S)
  PROVE  /\ Cardinality(S) \in Nat /\ L!SetToSeq(S) \in [1..Cardinality(S) -> S]
         /\ Len(L!SetToSeq(S)) = Cardinality(S)
<1>1. Cardinality(S) \in Nat /\ ExistsBijection(1..Cardinality(S), S)
  BY FS_CardinalityType
<1>2. PICK f \in [1..Cardinality(S) -> S] : \A a, b \in 1..Cardinality(S) : f[a] = f[b] => a = b
  BY <1>1, Zenon DEF ExistsBijection, Bijection, Injection, IsInjective
<1>3. L!SetToSeq(S) \in [1..Cardinality(S) -> S]
  <2>1. /\ f \in [1..L!Cardinality(S) -> S] /\ DOMAIN f = 1..Cardinality(S)
        /\ L!Cardinality(S) = Cardinality(S)
    BY SameSets
  <2>2. L!IsInjective(f)
    BY <1>2, <2>1, Zenon DEF L!IsInjective
  <2>3. L!SetToSeq(S) \in [1..L!Cardinality(S) -> S]
    BY <2>1, <2>2, Zenon DEF L!SetToSeq
  <2>4. QED
    BY <2>1, <2>3
<1>4. QED
  BY <1>1, <1>3

LEMMA FitsEach ==
  ASSUME NEW S, IsFiniteSet(S), NEW f, NEW ordered, NEW m,
         f = [i \in 1..Len(L!SetToSeq(S)) |-> f[i]],
         \A i \in 1..Len(L!SetToSeq(S)) : Fits(f[i], ordered, m)
  PROVE  Fits(L!FlattenSeq(f), ordered, m)
<1>1. Cardinality(S) \in Nat /\ Len(L!SetToSeq(S)) = Cardinality(S)
  BY OrderIs
<1>2. f \in [1..Cardinality(S) -> Seq(Operations)]
  BY <1>1 DEF Fits
<1>3. QED
  BY <1>1, <1>2, FitsFlatten

LEMMA FitsRead ==
  ASSUME NEW l \in L!Locks, NEW ordered, NEW n \in Nat, n < Level(l)
  PROVE  Fits(L!Read(l), ordered, n)
<1>1. Fits(<<>>, ordered, Level(l))
  BY FitsEmpty
<1>2. Level(l) \in Nat /\ Level(l) <= Level(l)
  BY DEF Level
<1>3. Fits(L!Reading(l, <<>>), ordered, n)
  BY <1>1, <1>2, FitsReading
<1>4. QED
  BY <1>3 DEF L!Read

LEMMA Finite ==
  ASSUME LocksAssumption, NEW S \in SUBSET Clients
  PROVE  /\ IsFiniteSet(S)
         /\ \A i \in 1..Len(L!SetToSeq(S)) :
              L!SetToSeq(S)[i] \in S /\ L!SetToSeq(S)[i] \in L!Locks /\ Level(L!SetToSeq(S)[i]) = 4
<1>1. IsFiniteSet(S)
  BY SameSets, FS_Subset DEF LocksAssumption, L!HubLocksAssumption
<1>2. \A i \in 1..Len(L!SetToSeq(S)) : L!SetToSeq(S)[i] \in S
  BY <1>1, OrderIs
<1>3. \A c \in S : c \in L!Locks /\ Level(c) = 4
  BY LocksAre
<1>4. QED
  BY <1>1, <1>2, <1>3

LEMMA FitsReads ==
  ASSUME LocksAssumption, NEW S \in SUBSET Clients, NEW ordered
  PROVE  Fits(L!ForEach(S, L!Read), ordered, 3)
<1> DEFINE f == [i \in 1..Len(L!SetToSeq(S)) |-> L!Read(L!SetToSeq(S)[i])]
<1>1. \A i \in 1..Len(L!SetToSeq(S)) : Fits(f[i], ordered, 3)
  <2>1. \A i \in 1..Len(L!SetToSeq(S)) : Fits(L!Read(L!SetToSeq(S)[i]), ordered, 3)
    BY Finite, FitsRead
  <2>2. QED
    BY <2>1, Zenon
<1>2. Fits(L!FlattenSeq(f), ordered, 3)
  <2>1. f = [i \in 1..Len(L!SetToSeq(S)) |-> f[i]]
    BY Zenon
  <2> HIDE DEF f
  <2>2. QED
    BY <1>1, <2>1, Finite, FitsEach
<1>3. QED
  BY <1>2, Zenon DEF L!ForEach

LEMMA FitsGetMeshPeers ==
  ASSUME LocksAssumption, NEW c, NEW ordered
  PROVE  Fits(L!GetMeshPeers(c), ordered, 1)
<1>1. Fits(L!ForEach(Clients \ {c}, L!Read), ordered, 3)
  BY FitsReads
<1>2. "room.mu" \in L!Locks /\ 1 < Level("room.mu") /\ Level("room.mu") <= 3
  BY LocksAre
<1>3. Fits(L!Reading("room.mu", L!ForEach(Clients \ {c}, L!Read)), ordered, 1)
  <2> HIDE DEF L!ForEach
  <2>1. QED
    BY <1>1, <1>2, FitsReading
<1>4. QED
  BY <1>3, Zenon DEF L!GetMeshPeers

LEMMA FitsGetCotContacts ==
  ASSUME LocksAssumption, NEW S \in SUBSET Clients, NEW ordered
  PROVE  Fits(L!GetCotContacts(S), ordered, 1)
<1>1. Fits(L!ForEach(S, L!Read), ordered, 3)
  BY FitsReads
<1>2. "room.mu" \in L!Locks /\ 1 < Level("room.mu") /\ Level("room.mu") <= 3
  BY LocksAre
<1>3. Fits(L!Reading("room.mu", L!ForEach(S, L!Read)), ordered, 1)
  <2> HIDE DEF L!ForEach
  <2>1. QED
    BY <1>1, <1>2, FitsReading
<1>4. QED
  BY <1>3, Zenon DEF L!GetCotContacts

LEMMA FitsGetVoiceState ==
  ASSUME LocksAssumption, NEW ordered
  PROVE  Fits(L!GetVoiceState, ordered, 1)
<1>1. Fits(L!ForEach(Clients, L!Read), ordered, 3)
  BY FitsReads
<1>2. /\ "room.mu" \in L!Locks /\ 1 < Level("room.mu") /\ Level("room.mu") <= 2
      /\ "vc.mu" \in L!Locks /\ 2 < Level("vc.mu") /\ Level("vc.mu") <= 3
  BY LocksAre
<1>3. Fits(L!Reading("vc.mu", L!ForEach(Clients, L!Read)), ordered, 2)
  BY <1>1, <1>2, FitsReading
<1>4. Fits(L!Reading("room.mu", L!Reading("vc.mu", L!ForEach(Clients, L!Read))), ordered, 1)
  BY <1>2, <1>3, FitsReading
<1>5. QED
  BY <1>4, Zenon DEF L!GetVoiceState

LEMMA FitsMeshState ==
  ASSUME LocksAssumption, NEW ordered
  PROVE  Fits(L!broadcastMeshState, ordered, 1)
<1> DEFINE order == L!SetToSeq(Clients)
           f == [i \in 1..Len(order) |-> L!GetMeshPeers(order[i])]
<1>1. \A i \in 1..Len(order) : Fits(f[i], ordered, 1)
  BY FitsGetMeshPeers, Zenon
<1>2. Fits(L!FlattenSeq(f), ordered, 1)
  <2>1. f = [i \in 1..Len(order) |-> f[i]]
    BY Zenon
  <2> HIDE DEF f
  <2>2. QED
    BY <1>1, <2>1, Finite, FitsEach
<1>3. QED
  BY <1>2, Zenon DEF L!broadcastMeshState, L!ForEach

LEMMA FitsMeshStateLocked ==
  ASSUME LocksAssumption, NEW ordered
  PROVE  Fits(L!broadcastMeshStateLocked, ordered, 1)
<1> DEFINE order == L!SetToSeq(Clients)
           f == [i \in 1..Len(order) |-> L!GetMeshPeers(order[i]) \o L!Read(order[i])]
<1>1. \A i \in 1..Len(order) : Fits(f[i], ordered, 1)
  <2>1. ASSUME NEW i \in 1..Len(order)
        PROVE  Fits(L!GetMeshPeers(order[i]) \o L!Read(order[i]), ordered, 1)
    <3>1. Fits(L!GetMeshPeers(order[i]), ordered, 1)
      BY FitsGetMeshPeers
    <3>2. order[i] \in L!Locks /\ 1 < Level(order[i])
      BY Finite
    <3>3. Fits(L!Read(order[i]), ordered, 1)
      BY <3>2, FitsRead
    <3>4. QED
      BY <3>1, <3>3, FitsConcat
  <2>2. QED
    BY <2>1, Zenon
<1>2. Fits(L!FlattenSeq(f), ordered, 1)
  <2>1. f = [i \in 1..Len(order) |-> f[i]]
    BY Zenon
  <2> HIDE DEF f
  <2>2. QED
    BY <1>1, <2>1, Finite, FitsEach
<1>3. "room.mu" \in L!Locks /\ 1 < Level("room.mu")
  BY LocksAre
<1>4. Fits(L!Read("room.mu"), ordered, 1)
  BY <1>3, FitsRead
<1> HIDE DEF f
<1>5. Fits(L!Read("room.mu") \o L!FlattenSeq(f), ordered, 1)
  BY <1>2, <1>4, FitsConcat
<1>6. QED
  BY <1>5, Zenon DEF L!broadcastMeshStateLocked, L!ForEach, f

LEMMA FitsCotState ==
  ASSUME LocksAssumption, NEW ordered
  PROVE  Fits(L!broadcastCotState, ordered, 1)
<1> DEFINE order == L!SetToSeq(Clients)
           f == [i \in 1..Len(order) |-> L!GetCotContacts(Clients \ {order[i]})]
<1>1. \A i \in 1..Len(order) : Fits(f[i], ordered, 1)
  <2>1. ASSUME NEW i \in 1..Len(order)
        PROVE  Fits(L!GetCotContacts(Clients \ {order[i]}), ordered, 1)
    <3>1. Clients \ {order[i]} \in SUBSET Clients
      BY Zenon
    <3>2. QED
      BY <3>1, FitsGetCotContacts
  <2>2. QED
    BY <2>1, Zenon
<1>2. Fits(L!FlattenSeq(f), ordered, 1)
  <2>1. f = [i \in 1..Len(order) |-> f[i]]
    BY Zenon
  <2> HIDE DEF f
  <2>2. QED
    BY <1>1, <2>1, Finite, FitsEach
<1>3. QED
  BY <1>2, Zenon DEF L!broadcastCotState, L!ForEach

\* StartDM's two connections are written to in turn.
LEMMA FitsWrites ==
  ASSUME LocksAssumption, NEW ordered
  PROVE  Fits(L!ForEach(Clients, L!Write), ordered, 0)
<1> DEFINE order == L!SetToSeq(Clients)
           f == [i \in 1..Len(order) |-> L!Write(order[i])]
<1>1. \A i \in 1..Len(order) : Fits(f[i], ordered, 0)
  <2>1. ASSUME NEW i \in 1..Len(order)
        PROVE  Fits(L!Write(order[i]), ordered, 0)
    <3>1. order[i] \in L!Locks /\ 0 < Level(order[i])
      BY Finite
    <3>2. QED
      BY <3>1, FitsWrite
  <2>2. QED
    BY <2>1, Zenon
<1>2. Fits(L!FlattenSeq(f), ordered, 0)
  <2>1. f = [i \in 1..Len(order) |-> f[i]]
    BY Zenon
  <2> HIDE DEF f
  <2>2. QED
    BY <1>1, <2>1, Finite, FitsEach
<1>3. QED
  BY <1>2, Zenon DEF L!ForEach

LEMMA FitsParts ==
  ASSUME LocksAssumption, NEW ordered
  PROVE  /\ \A l \in L!Locks : Fits(L!Read(l), ordered, 0) /\ Fits(L!Write(l), ordered, 0)
         /\ \A S \in SUBSET Clients : Fits(L!GetCotContacts(S), ordered, 0)
         /\ Fits(L!GetVoiceState, ordered, 0) /\ Fits(L!broadcastMeshState, ordered, 0)
         /\ Fits(L!broadcastCotState, ordered, 0)
         /\ Fits(L!buildRoomList, ordered, 0)
         /\ Fits(L!Reading("h.mu", L!broadcastMeshStateLocked), ordered, 0)
<1>1. ASSUME NEW s, Fits(s, ordered, 1)
      PROVE  Fits(s, ordered, 0)
  <2>1. 0 \in Nat /\ 1 \in Nat /\ 0 <= 1
    OBVIOUS
  <2>2. QED
    BY <1>1, <2>1, FitsWeaker, Zenon
<1>2. \A l \in L!Locks : 0 < Level(l)
  BY LocksAre
<1>3. \A l \in L!Locks : Fits(L!Read(l), ordered, 0) /\ Fits(L!Write(l), ordered, 0)
  BY <1>2, FitsRead, FitsWrite
<1>4. /\ "h.mu" \in L!Locks /\ 0 < Level("h.mu") /\ Level("h.mu") <= 1
      /\ "room.mu" \in L!Locks /\ 1 < Level("room.mu")
  BY LocksAre
<1>5. Fits(L!Read("room.mu"), ordered, 1)
  BY <1>4, FitsRead
<1>6. Fits(L!buildRoomList, ordered, 0)
  <2>1. Fits(L!Reading("h.mu", L!Read("room.mu")), ordered, 0)
    BY <1>4, <1>5, FitsReading
  <2>2. QED
    BY <2>1, Zenon DEF L!buildRoomList
<1>7. Fits(L!Reading("h.mu", L!broadcastMeshStateLocked), ordered, 0)
  <2>1. Fits(L!broadcastMeshStateLocked, ordered, 1)
    BY FitsMeshStateLocked
  <2>2. QED
    BY <1>4, <2>1, FitsReading
<1>8. QED
  BY <1>1, <1>3, <1>6, <1>7, FitsGetCotContacts, FitsGetVoiceState, FitsMeshState, FitsCotState

\* Every handler but RegisterBlePeer takes the locks in their order.
Orderly == L!Kinds \ {"register_ble_peer"}

LEMMA FitsOrderly ==
  ASSUME LocksAssumption, NEW k \in Orderly, NEW c \in Clients, NEW ordered
  PROVE  Fits(L!Program[k][c], ordered, 0)
<1>1. /\ c \in L!Locks /\ "h.mu" \in L!Locks /\ "room.mu" \in L!Locks /\ "vc.mu" \in L!Locks
      /\ Clients \ {c} \in SUBSET Clients
      /\ 0 < Level("h.mu") /\ Level("h.mu") <= 1 /\ 1 < Level("room.mu")
  BY LocksAre
<1>2. /\ Fits(L!Write("h.mu"), ordered, 0) /\ Fits(L!Write("room.mu"), ordered, 0)
      /\ Fits(L!Write("vc.mu"), ordered, 0) /\ Fits(L!Write(c), ordered, 0)
      /\ Fits(L!GetVoiceState, ordered, 0) /\ Fits(L!GetCotContacts(Clients \ {c}), ordered, 0)
      /\ Fits(L!broadcastMeshState, ordered, 0) /\ Fits(L!broadcastCotState, ordered, 0)
      /\ Fits(L!buildRoomList, ordered, 0)
      /\ Fits(L!Reading("h.mu", L!broadcastMeshStateLocked), ordered, 0)
  BY <1>1, FitsParts
<1>3. Fits(L!Reading("h.mu", L!Read("room.mu")), ordered, 0)
  <2>1. Fits(L!Read("room.mu"), ordered, 1)
    BY <1>1, FitsRead
  <2>2. QED
    BY <1>1, <2>1, FitsReading
<1>4. Fits(L!ForEach(Clients, L!Write), ordered, 0)
  BY FitsWrites
<1>5. Fits(L!JoinRoom(c), ordered, 0)
  BY <1>2, FitsConcat DEF L!JoinRoom
<1>6. Fits(L!SetTransport(c), ordered, 0)
  BY <1>2, FitsConcat DEF L!SetTransport
<1>7. Fits(L!SendMessage(c), ordered, 0)
  BY <1>2 DEF L!SendMessage
<1>8. Fits(L!JoinVoice(c), ordered, 0)
  BY <1>2, FitsConcat DEF L!JoinVoice
<1>9. Fits(L!StartDM(c), ordered, 0)
  <2> DEFINE each == L!ForEach(Clients, L!Write)
  <2>1. Fits(each, ordered, 0)
    BY <1>4
  <2> HIDE DEF each
  <2>2. Fits(L!Reading("h.mu", L!Read("room.mu")) \o L!Write("h.mu") \o L!Write("room.mu") \o each, ordered, 0)
    BY <1>2, <1>3, <2>1, FitsConcat
  <2>3. QED
    BY <2>2, Zenon DEF L!StartDM, each
<1>10. Fits(L!UnregisterBlePeer(c), ordered, 0)
  BY <1>2, FitsConcat DEF L!UnregisterBlePeer
<1>11. Fits(L!Ping(c), ordered, 0)
  BY <1>2 DEF L!Ping
<1>12. Fits(L!Register, ordered, 0)
  BY <1>2 DEF L!Register
<1>13. Fits(L!Unregister(c), ordered, 0)
  BY <1>2, FitsConcat DEF L!Unregister
<1>14. Fits(L!MeshTick, ordered, 0)
  BY <1>2, FitsConcat DEF L!MeshTick
<1>15. /\ k = "join_room" => L!Program[k][c] = L!JoinRoom(c)
       /\ k = "set_transport" => L!Program[k][c] = L!SetTransport(c)
       /\ k = "send_message" => L!Program[k][c] = L!SendMessage(c)
       /\ k = "join_voice" => L!Program[k][c] = L!JoinVoice(c)
       /\ k = "start_dm" => L!Program[k][c] = L!StartDM(c)
       /\ k = "unregister_ble_peer" => L!Program[k][c] = L!UnregisterBlePeer(c)
       /\ k = "ping" => L!Program[k][c] = L!Ping(c)
       /\ k = "register" => L!Program[k][c] = L!Register
       /\ k = "unregister" => L!Program[k][c] = L!Unregister(c)
       /\ k = "tick" => L!Program[k][c] = L!MeshTick
  BY DEF L!Program, L!Kinds, Orderly
<1>16. k \in {"join_room", "set_transport", "send_message", "join_voice", "start_dm",
              "unregister_ble_peer", "ping", "register", "unregister", "tick"}
  BY DEF L!Kinds, Orderly
<1>17. QED
  BY <1>5, <1>6, <1>7, <1>8, <1>9, <1>10, <1>11, <1>12, <1>13, <1>14, <1>15, <1>16

\* RegisterBlePeer gives back what it takes as well, in another order.
LEMMA FitsRegistration ==
  ASSUME LocksAssumption, NEW c \in Clients
  PROVE  Fits(L!Program["register_ble_peer"][c], FALSE, 0)
<1>1. c \in L!Locks /\ "h.mu" \in L!Locks /\ "room.mu" \in L!Locks /\ "vc.mu" \in L!Locks
  BY LocksAre
<1> DEFINE ordered == FALSE
<1>2. ~ordered
  OBVIOUS
<1> HIDE DEF ordered
<1>3. /\ Fits(L!Write("h.mu"), ordered, 0) /\ Fits(L!Write("room.mu"), ordered, 0)
      /\ Fits(L!Write("vc.mu"), ordered, 0) /\ Fits(L!Read("room.mu"), ordered, 0)
      /\ Fits(L!GetVoiceState, ordered, 0)
  BY <1>1, FitsParts
<1>4. ASSUME NEW s, NEW l \in L!Locks, Fits(s, ordered, 0)
      PROVE  Fits(L!Reading(l, s), ordered, 0)
  <2>1. 0 \in Nat
    OBVIOUS
  <2>2. QED
    BY <1>2, <1>4, <2>1, FitsReading, Zenon
<1>5. Fits(L!broadcastMeshStateLocked, ordered, 0)
  <2>1. 0 \in Nat /\ 1 \in Nat /\ 0 <= 1
    OBVIOUS
  <2>2. Fits(L!broadcastMeshStateLocked, ordered, 1)
    BY FitsMeshStateLocked
  <2>3. QED
    BY <2>1, <2>2, FitsWeaker, Zenon
<1>6. Fits(L!PromoteBlePeer, ordered, 0)
  BY <1>3, FitsConcat DEF L!PromoteBlePeer
<1>7. Fits(L!UpdateBlePeerName, ordered, 0)
  BY <1>1, <1>3, <1>4 DEF L!UpdateBlePeerName
<1>8. Fits(L!RegisterBlePeer(c), ordered, 0)
  <2>1. Fits(L!Reading("h.mu", L!PromoteBlePeer \o L!UpdateBlePeerName), ordered, 0)
    BY <1>1, <1>4, <1>6, <1>7, FitsConcat
  <2>2. Fits(L!broadcastMeshStateLocked \o L!Read("room.mu") \o L!GetVoiceState, ordered, 0)
    BY <1>3, <1>5, FitsConcat
  <2>3. Fits(L!Reading("h.mu", L!broadcastMeshStateLocked \o L!Read("room.mu") \o L!GetVoiceState), ordered, 0)
    BY <1>1, <1>4, <2>2
  <2>4. /\ Fits(L!Reading(c, L!Reading("h.mu", L!PromoteBlePeer \o L!UpdateBlePeerName)), ordered, 0)
        /\ Fits(L!Reading(c, L!Reading("h.mu", L!broadcastMeshStateLocked
                                                 \o L!Read("room.mu") \o L!GetVoiceState)), ordered, 0)
    BY <1>1, <1>4, <2>1, <2>3
  <2>5. QED
    BY <1>3, <2>4, FitsConcat DEF L!RegisterBlePeer
<1>9. L!Program["register_ble_peer"][c] = L!RegisterBlePeer(c)
  BY DEF L!Program, L!Kinds
<1>10. QED
  BY <1>8, <1>9 DEF ordered

\* What a goroutine that runs handler k for connection c holds before its i-th operation.
Certified(k, c, r, w) ==
  LET s == L!Program[k][c]
  IN  /\ s \in Seq(Operations)
      /\ r \in [1..(Len(s) + 1) -> Reads] /\ w \in [1..(Len(s) + 1) -> SUBSET L!Locks]
      /\ r[1] = NoReads /\ w[1] = {} /\ r[Len(s) + 1] = NoReads /\ w[Len(s) + 1] = {}
      /\ \A i \in 1..Len(s) : /\ Effect(s[i], r[i], w[i], r[i + 1], w[i + 1])
                              /\ k \in Orderly => Ascends(s[i], r[i], w[i], 0)

Held(k, c) == CHOOSE p : Certified(k, c, p[1], p[2])
ReadAt(k, c, i) == Held(k, c)[1][i]
WrittenAt(k, c, i) == Held(k, c)[2][i]
Length(k, c) == Len(L!Program[k][c])

LEMMA HeldIs ==
  ASSUME LocksAssumption, NEW k \in L!Kinds, NEW c \in Clients
  PROVE  Certified(k, c, Held(k, c)[1], Held(k, c)[2])
<1>1. \E r, w : Certified(k, c, r, w)
  <2>1. CASE k \in Orderly
    <3> DEFINE ordered == TRUE
    <3>1. ordered
      OBVIOUS
    <3> HIDE DEF ordered
    <3>2. Fits(L!Program[k][c], ordered, 0)
      BY <2>1, FitsOrderly
    <3>3. QED
      BY <3>1, <3>2 DEF Fits, Tells, Legal, Certified
  <2>2. CASE k \notin Orderly
    <3> DEFINE ordered == FALSE
    <3>1. Fits(L!Program["register_ble_peer"][c], ordered, 0)
      BY FitsRegistration
    <3> HIDE DEF ordered
    <3>2. k = "register_ble_peer"
      BY <2>2 DEF Orderly
    <3>3. QED
      BY <2>2, <3>1, <3>2 DEF Fits, Tells, Legal, Certified
  <2>3. QED
    BY <2>1, <2>2
<1>2. PICK r, w : Certified(k, c, r, w)
  BY <1>1
<1>3. <<r, w>>[1] = r /\ <<r, w>>[2] = w
  OBVIOUS
<1>4. Certified(k, c, <<r, w>>[1], <<r, w>>[2])
  BY <1>2, <1>3
<1>5. QED
  BY <1>4, Zenon DEF Held

LEMMA HeldAt ==
  ASSUME LocksAssumption, NEW k \in L!Kinds, NEW c \in Clients
  PROVE  /\ Length(k, c) \in Nat
         /\ ReadAt(k, c, 1) = NoReads /\ WrittenAt(k, c, 1) = {}
         /\ ReadAt(k, c, Length(k, c) + 1) = NoReads /\ WrittenAt(k, c, Length(k, c) + 1) = {}
         /\ \A i \in 1..(Length(k, c) + 1) : ReadAt(k, c, i) \in Reads /\ WrittenAt(k, c, i) \in SUBSET L!Locks
         /\ \A i \in 1..Length(k, c) :
              /\ L!Program[k][c][i][1] \in {"RLock", "RUnlock", "Lock", "Unlock"}
              /\ L!Program[k][c][i][2] \in L!Locks
              /\ Effect(L!Program[k][c][i], ReadAt(k, c, i), WrittenAt(k, c, i),
                        ReadAt(k, c, i + 1), WrittenAt(k, c, i + 1))
              /\ k \in Orderly => Ascends(L!Program[k][c][i], ReadAt(k, c, i), WrittenAt(k, c, i), 0)
<1> DEFINE s == L!Program[k][c]
           r == Held(k, c)[1]
           w == Held(k, c)[2]
<1>1. /\ s \in Seq(Operations)
      /\ r \in [1..(Len(s) + 1) -> Reads] /\ w \in [1..(Len(s) + 1) -> SUBSET L!Locks]
      /\ r[1] = NoReads /\ w[1] = {} /\ r[Len(s) + 1] = NoReads /\ w[Len(s) + 1] = {}
      /\ \A i \in 1..Len(s) : /\ Effect(s[i], r[i], w[i], r[i + 1], w[i + 1])
                              /\ k \in Orderly => Ascends(s[i], r[i], w[i], 0)
  BY HeldIs DEF Certified
<1> HIDE DEF s, r, w
<1>2. Len(s) \in Nat /\ \A i \in 1..Len(s) : s[i] \in Operations
  BY <1>1, LenProperties, ElementOfSeq
<1>3. \A e \in Operations : e[1] \in {"RLock", "RUnlock", "Lock", "Unlock"} /\ e[2] \in L!Locks
  BY DEF Operations
<1>4. \A i \in 1..(Len(s) + 1) : r[i] \in Reads /\ w[i] \in SUBSET L!Locks
  BY <1>1
<1>5. QED
  BY <1>1, <1>2, <1>3, <1>4 DEF s, r, w, Length, ReadAt, WrittenAt

\* A goroutine holds what its handler has taken and not yet given back.
Goroutine(t) ==
  /\ handler[t] = L!None => \A l \in L!Locks : readers[l][t] = 0 /\ writer[l] # t
  /\ handler[t] # L!None =>
       /\ client[t] \in Clients /\ at[t] \in 1..(Length(handler[t], client[t]) + 1)
       /\ \A l \in L!Locks :
            /\ readers[l][t] = ReadAt(handler[t], client[t], at[t])[l]
            /\ writer[l] = t <=> l \in WrittenAt(handler[t], client[t], at[t])

\* A goroutine that waits for the readers of l is at a Lock of l, and nobody has l for writing.
Announced(l) ==
  pending[l] # L!None =>
    /\ writer[l] = L!None
    /\ L!NextOp(pending[l], "Lock") /\ L!LockOf(pending[l]) = l

LockInv ==
  /\ L!TypeOK
  /\ \A t \in L!Threads : Goroutine(t)
  /\ \A l \in L!Locks : Announced(l)

LEMMA RunningIs ==
  ASSUME LocksAssumption, LockInv, NEW t \in L!Threads, L!Running(t)
  PROVE  LET k == handler[t]
             c == client[t]
             i == at[t]
             op == L!Program[k][c][i]
         IN  /\ k \in L!Kinds /\ k # L!None /\ c \in Clients
             /\ i \in 1..Length(k, c) /\ i + 1 \in 1..(Length(k, c) + 1)
             /\ L!LockOf(t) = op[2] /\ op[2] \in L!Locks
             /\ op[1] \in {"RLock", "RUnlock", "Lock", "Unlock"}
             /\ \A o : L!NextOp(t, o) <=> op[1] = o
             /\ ReadAt(k, c, i) \in Reads /\ WrittenAt(k, c, i) \in SUBSET L!Locks
             /\ \A l \in L!Locks : /\ readers[l][t] = ReadAt(k, c, i)[l]
                                   /\ writer[l] = t <=> l \in WrittenAt(k, c, i)
             /\ Effect(op, ReadAt(k, c, i), WrittenAt(k, c, i), ReadAt(k, c, i + 1), WrittenAt(k, c, i + 1))
             /\ k \in Orderly => Ascends(op, ReadAt(k, c, i), WrittenAt(k, c, i), 0)
<1> DEFINE k == handler[t]
           c == client[t]
           i == at[t]
           op == L!Program[k][c][i]
<1>1. k # L!None /\ i <= Length(k, c)
  BY DEF L!Running, L!Ops, Length
<1>2. k \in L!Kinds
  BY <1>1 DEF LockInv, L!TypeOK
<1>3. /\ c \in Clients /\ i \in 1..(Length(k, c) + 1)
      /\ \A l \in L!Locks : /\ readers[l][t] = ReadAt(k, c, i)[l]
                            /\ writer[l] = t <=> l \in WrittenAt(k, c, i)
  BY <1>1 DEF LockInv, Goroutine
<1>4. Length(k, c) \in Nat
  BY <1>2, <1>3, HeldAt
<1>5. i \in 1..Length(k, c) /\ i + 1 \in 1..(Length(k, c) + 1)
  BY <1>1, <1>3, <1>4
<1>6. /\ op[1] \in {"RLock", "RUnlock", "Lock", "Unlock"} /\ op[2] \in L!Locks
      /\ ReadAt(k, c, i) \in Reads /\ WrittenAt(k, c, i) \in SUBSET L!Locks
      /\ Effect(op, ReadAt(k, c, i), WrittenAt(k, c, i), ReadAt(k, c, i + 1), WrittenAt(k, c, i + 1))
      /\ k \in Orderly => Ascends(op, ReadAt(k, c, i), WrittenAt(k, c, i), 0)
  BY <1>2, <1>3, <1>5, HeldAt
<1>7. L!LockOf(t) = op[2] /\ \A o : L!NextOp(t, o) <=> op[1] = o
  BY DEF L!LockOf, L!NextOp, L!Ops
<1>8. QED
  BY <1>1, <1>2, <1>3, <1>5, <1>6, <1>7

\* What a goroutine that is left alone holds.
LEMMA GoroutineKeeps ==
  ASSUME NEW u, Goroutine(u), handler'[u] = handler[u], client'[u] = client[u], at'[u] = at[u],
         \A l \in L!Locks : readers'[l][u] = readers[l][u] /\ (writer'[l] = u <=> writer[l] = u)
  PROVE  Goroutine(u)'
BY DEF Goroutine

\* The goroutine that gets on holds what its handler says.
LEMMA GoroutineAdvances ==
  ASSUME LocksAssumption, LockInv, NEW t \in L!Threads, L!Running(t), L!Advance(t),
         \A l \in L!Locks :
           /\ readers'[l][t] = ReadAt(handler[t], client[t], at[t] + 1)[l]
           /\ writer'[l] = t <=> l \in WrittenAt(handler[t], client[t], at[t] + 1),
         \A l \in L!Locks, u \in L!Threads \ {t} :
           readers'[l][u] = readers[l][u] /\ (writer'[l] = u <=> writer[l] = u)
  PROVE  (\A u \in L!Threads : Goroutine(u))' /\ at' \in [L!Threads -> Nat]
<1>1. at \in [L!Threads -> Nat] /\ at' = [at EXCEPT ![t] = @ + 1] /\ handler' = handler /\ client' = client
  BY DEF LockInv, L!TypeOK, L!Advance
<1>2. at'[t] = at[t] + 1 /\ at' \in [L!Threads -> Nat] /\ \A u \in L!Threads \ {t} : at'[u] = at[u]
  BY <1>1
<1>3. Goroutine(t)'
  BY <1>1, <1>2, RunningIs DEF Goroutine
<1>4. ASSUME NEW u \in L!Threads \ {t}
      PROVE  Goroutine(u)'
  BY <1>1, <1>2, GoroutineKeeps DEF LockInv
<1>5. QED
  <2>1. L!Threads' = L!Threads
    BY DEF L!Threads
  <2>2. QED
    BY <1>2, <1>3, <1>4, <2>1

LEMMA LocksInit ==
  ASSUME LocksAssumption, L!Init
  PROVE  LockInv
<1>1. L!TypeOK
  <2>1. MaxRuns \in Nat /\ 0 \in 0..MaxRuns
    BY DEF LocksAssumption, L!HubLocksAssumption
  <2>2. QED
    BY <2>1 DEF L!Init, L!TypeOK
<1>2. \A t \in L!Threads : Goroutine(t)
  BY DEF LocksAssumption, L!HubLocksAssumption, L!Init, Goroutine
<1>3. \A l \in L!Locks : Announced(l)
  BY DEF L!Init, Announced
<1>4. QED
  BY <1>1, <1>2, <1>3 DEF LockInv

\* The Lock that waits stays where it is while another goroutine gets on.
LEMMA AnnouncedKeeps ==
  ASSUME NEW l, Announced(l), pending'[l] = pending[l], pending[l] # L!None => writer'[l] = L!None,
         pending[l] # L!None => /\ handler'[pending[l]] = handler[pending[l]]
                                /\ client'[pending[l]] = client[pending[l]]
                                /\ at'[pending[l]] = at[pending[l]]
  PROVE  Announced(l)'
BY DEF Announced, L!NextOp, L!Running, L!LockOf, L!Ops

LEMMA LocksStart ==
  ASSUME LocksAssumption, LockInv, NEW t \in L!Threads, NEW k \in L!Kinds, NEW c \in Clients,
         L!Start(t, k, c)
  PROVE  LockInv'
<1>1. L!TypeOK
  BY DEF LockInv
<1>2. /\ handler[t] = L!None /\ handler' = [handler EXCEPT ![t] = k]
      /\ client' = [client EXCEPT ![t] = c] /\ at' = [at EXCEPT ![t] = 1]
      /\ readers' = readers /\ writer' = writer /\ pending' = pending
  BY DEF L!Start
<1>3. runs' \in [L!Threads -> 0..MaxRuns]
  <2>1. MaxRuns \in Nat /\ runs \in [L!Threads -> 0..MaxRuns] /\ runs[t] < MaxRuns
    BY <1>1 DEF LocksAssumption, L!HubLocksAssumption, L!TypeOK, L!Start
  <2>2. \A u \in L!Threads : runs[u] \in 0..MaxRuns /\ MaxRuns \in 0..MaxRuns /\ runs[t] + 1 \in 0..MaxRuns
    BY <2>1
  <2>3. QED
    BY <2>2 DEF L!Start
<1>4. L!TypeOK'
  BY <1>1, <1>2, <1>3 DEF L!TypeOK
<1>5. /\ handler'[t] = k /\ client'[t] = c /\ at'[t] = 1
      /\ \A u \in L!Threads \ {t} : handler'[u] = handler[u] /\ client'[u] = client[u] /\ at'[u] = at[u]
  BY <1>1, <1>2 DEF L!TypeOK
<1>6. Goroutine(t)'
  <2>1. k # L!None
    BY DEF L!Kinds, L!None
  <2>2. \A l \in L!Locks : readers[l][t] = 0 /\ writer[l] # t
    BY <1>2 DEF LockInv, Goroutine
  <2>3. /\ Length(k, c) \in Nat /\ 1 \in 1..(Length(k, c) + 1)
        /\ ReadAt(k, c, 1) = NoReads /\ WrittenAt(k, c, 1) = {}
    BY HeldAt
  <2>4. QED
    BY <1>2, <1>5, <2>1, <2>2, <2>3, NoReadsIs DEF Goroutine
<1>7. \A u \in L!Threads \ {t} : Goroutine(u)'
  BY <1>2, <1>5, GoroutineKeeps DEF LockInv
<1>8. ASSUME NEW l \in L!Locks
      PROVE  Announced(l)'
  <2>1. Announced(l) /\ pending[l] \in L!Threads \cup {L!None}
    BY <1>1 DEF LockInv, L!TypeOK
  <2>2. pending[l] # t
    BY <1>2, <2>1 DEF Announced, L!NextOp, L!Running, LocksAssumption, L!HubLocksAssumption
  <2>3. QED
    BY <1>2, <1>5, <2>1, <2>2, AnnouncedKeeps DEF Announced
<1>9. QED
  BY <1>4, <1>6, <1>7, <1>8 DEF LockInv, L!Threads, L!Locks

LEMMA LocksFinish ==
  ASSUME LocksAssumption, LockInv, NEW t \in L!Threads, L!Finish(t)
  PROVE  LockInv'
<1>1. L!TypeOK
  BY DEF LockInv
<1>2. /\ handler[t] # L!None /\ at[t] > Length(handler[t], client[t])
      /\ handler' = [handler EXCEPT ![t] = L!None]
      /\ client' = [client EXCEPT ![t] = L!None] /\ at' = [at EXCEPT ![t] = 0]
      /\ runs' = runs /\ readers' = readers /\ writer' = writer /\ pending' = pending
  BY DEF L!Finish, L!Ops, Length
<1>3. L!TypeOK'
  BY <1>1, <1>2 DEF L!TypeOK
<1>4. /\ handler'[t] = L!None
      /\ \A u \in L!Threads \ {t} : handler'[u] = handler[u] /\ client'[u] = client[u] /\ at'[u] = at[u]
  BY <1>1, <1>2 DEF L!TypeOK
<1>5. \A l \in L!Locks : readers[l][t] = 0 /\ writer[l] # t
  <2> DEFINE k == handler[t]
             c == client[t]
  <2>1. k \in L!Kinds /\ c \in Clients /\ at[t] \in 1..(Length(k, c) + 1)
    BY <1>1, <1>2 DEF LockInv, L!TypeOK, Goroutine
  <2>2. /\ Length(k, c) \in Nat
        /\ ReadAt(k, c, Length(k, c) + 1) = NoReads /\ WrittenAt(k, c, Length(k, c) + 1) = {}
    BY <2>1, HeldAt
  <2>3. at[t] = Length(k, c) + 1
    BY <1>2, <2>1, <2>2
  <2>4. QED
    BY <1>2, <2>2, <2>3, NoReadsIs DEF LockInv, Goroutine
<1>6. Goroutine(t)'
  BY <1>2, <1>4, <1>5 DEF Goroutine
<1>7. \A u \in L!Threads \ {t} : Goroutine(u)'
  BY <1>2, <1>4, GoroutineKeeps DEF LockInv
<1>8. ASSUME NEW l \in L!Locks
      PROVE  Announced(l)'
  <2>1. Announced(l) /\ pending[l] \in L!Threads \cup {L!None}
    BY <1>1 DEF LockInv, L!TypeOK
  <2>2. pending[l] # t
    <3>1. ASSUME pending[l] = t
          PROVE  FALSE
      <4>1. t # L!None
        BY DEF LocksAssumption, L!HubLocksAssumption
      <4>2. L!Running(t)
        BY <2>1, <3>1, <4>1 DEF Announced, L!NextOp
      <4>3. at[t] \in 1..Length(handler[t], client[t])
        BY <4>2, RunningIs
      <4> DEFINE n == Length(handler[t], client[t])
      <4>4. n \in Nat
        <5>1. handler[t] \in L!Kinds /\ client[t] \in Clients
          BY <4>2, RunningIs
        <5>2. QED
          BY <5>1, HeldAt
      <4>5. at[t] > n /\ at[t] \in 1..n
        BY <1>2, <4>3
      <4> HIDE DEF n
      <4>6. QED
        BY <4>4, <4>5
    <3>2. QED
      BY <3>1
  <2>3. QED
    BY <1>2, <1>4, <2>1, <2>2, AnnouncedKeeps DEF Announced
<1>9. QED
  BY <1>3, <1>6, <1>7, <1>8 DEF LockInv, L!Threads, L!Locks

\* A goroutine that gets on with anything but a Lock is none of those that wait for readers.
LEMMA OthersAnnounced ==
  ASSUME LocksAssumption, LockInv, NEW t \in L!Threads, NEW o, o # "Lock", L!NextOp(t, o), L!Advance(t),
         pending' = pending, \A l \in L!Locks : writer'[l] = writer[l] \/ writer'[l] = L!None
  PROVE  \A l \in L!Locks : Announced(l)'
<1> SUFFICES ASSUME NEW l \in L!Locks
             PROVE  Announced(l)'
  OBVIOUS
<1>1. /\ Announced(l) /\ pending[l] \in L!Threads \cup {L!None} /\ at \in [L!Threads -> Nat]
  BY DEF LockInv, L!TypeOK
<1>2. pending[l] # t \/ pending[l] = L!None
  BY <1>1 DEF Announced, L!NextOp
<1>3. /\ handler' = handler /\ client' = client
      /\ pending[l] # L!None => at'[pending[l]] = at[pending[l]]
  <2>1. t # L!None
    BY DEF LocksAssumption, L!HubLocksAssumption
  <2>2. QED
    BY <1>1, <1>2, <2>1 DEF L!Advance
<1>4. pending'[l] = pending[l] /\ (pending[l] # L!None => writer'[l] = L!None)
  BY <1>1 DEF Announced
<1>5. QED
  BY <1>1, <1>3, <1>4, AnnouncedKeeps

LEMMA LocksRLock ==
  ASSUME LocksAssumption, LockInv, NEW t \in L!Threads, L!RLock(t)
  PROVE  LockInv'
<1> DEFINE k == handler[t]
           c == client[t]
           i == at[t]
           m == L!LockOf(t)
<1>1. L!TypeOK /\ L!Running(t) /\ L!NextOp(t, "RLock") /\ L!Advance(t)
  BY DEF LockInv, L!RLock, L!NextOp
<1>2. /\ m \in L!Locks /\ ReadAt(k, c, i) \in Reads
      /\ ReadAt(k, c, i + 1) = Plus(ReadAt(k, c, i), m) /\ WrittenAt(k, c, i + 1) = WrittenAt(k, c, i)
      /\ \A l \in L!Locks : /\ readers[l][t] = ReadAt(k, c, i)[l]
                            /\ writer[l] = t <=> l \in WrittenAt(k, c, i)
  <2>1. L!Program[k][c][i][1] = "RLock"
    BY <1>1, RunningIs
  <2>2. /\ m = L!Program[k][c][i][2] /\ m \in L!Locks /\ ReadAt(k, c, i) \in Reads
        /\ Effect(L!Program[k][c][i], ReadAt(k, c, i), WrittenAt(k, c, i),
                  ReadAt(k, c, i + 1), WrittenAt(k, c, i + 1))
        /\ \A l \in L!Locks : /\ readers[l][t] = ReadAt(k, c, i)[l]
                              /\ writer[l] = t <=> l \in WrittenAt(k, c, i)
    BY <1>1, RunningIs
  <2> HIDE DEF m
  <2>3. QED
    BY <2>1, <2>2 DEF Effect
<1> HIDE DEF m
<1>3. readers' = [readers EXCEPT ![m][t] = @ + 1] /\ writer' = writer /\ pending' = pending
  BY DEF L!RLock, m
<1>4. /\ readers' \in [L!Locks -> [L!Threads -> Nat]]
      /\ \A l \in L!Locks, u \in L!Threads :
           readers'[l][u] = IF l = m /\ u = t THEN readers[l][u] + 1 ELSE readers[l][u]
  BY <1>1, <1>2, <1>3 DEF L!TypeOK
<1>5. \A l \in L!Locks : /\ readers'[l][t] = ReadAt(k, c, i + 1)[l]
                         /\ writer'[l] = t <=> l \in WrittenAt(k, c, i + 1)
  <2>1. \A l \in L!Locks : Plus(ReadAt(k, c, i), m)[l]
                             = IF l = m THEN ReadAt(k, c, i)[l] + 1 ELSE ReadAt(k, c, i)[l]
    BY <1>2, PlusIs
  <2>2. QED
    BY <1>2, <1>3, <1>4, <2>1
<1>6. (\A u \in L!Threads : Goroutine(u))' /\ at' \in [L!Threads -> Nat]
  BY <1>1, <1>3, <1>4, <1>5, GoroutineAdvances
<1>7. L!TypeOK'
  BY <1>1, <1>3, <1>4, <1>6 DEF L!TypeOK, L!Advance
<1>8. \A l \in L!Locks : Announced(l)'
  BY <1>1, <1>3, OthersAnnounced
<1>9. QED
  BY <1>6, <1>7, <1>8 DEF LockInv, L!Locks

LEMMA LocksRUnlock ==
  ASSUME LocksAssumption, LockInv, NEW t \in L!Threads, L!RUnlock(t)
  PROVE  LockInv'
<1> DEFINE k == handler[t]
           c == client[t]
           i == at[t]
           m == L!LockOf(t)
<1>1. L!TypeOK /\ L!Running(t) /\ L!NextOp(t, "RUnlock") /\ L!Advance(t)
  BY DEF LockInv, L!RUnlock, L!NextOp
<1>2. /\ m \in L!Locks /\ ReadAt(k, c, i) \in Reads /\ ReadAt(k, c, i)[m] # 0
      /\ ReadAt(k, c, i + 1) = [ReadAt(k, c, i) EXCEPT ![m] = @ - 1]
      /\ WrittenAt(k, c, i + 1) = WrittenAt(k, c, i)
      /\ \A l \in L!Locks : /\ readers[l][t] = ReadAt(k, c, i)[l]
                            /\ writer[l] = t <=> l \in WrittenAt(k, c, i)
  <2>1. L!Program[k][c][i][1] = "RUnlock"
    BY <1>1, RunningIs
  <2>2. /\ m = L!Program[k][c][i][2] /\ m \in L!Locks /\ ReadAt(k, c, i) \in Reads
        /\ Effect(L!Program[k][c][i], ReadAt(k, c, i), WrittenAt(k, c, i),
                  ReadAt(k, c, i + 1), WrittenAt(k, c, i + 1))
        /\ \A l \in L!Locks : /\ readers[l][t] = ReadAt(k, c, i)[l]
                              /\ writer[l] = t <=> l \in WrittenAt(k, c, i)
    BY <1>1, RunningIs
  <2> HIDE DEF m
  <2>3. QED
    BY <2>1, <2>2 DEF Effect
<1> HIDE DEF m
<1>3. readers' = [readers EXCEPT ![m][t] = @ - 1] /\ writer' = writer /\ pending' = pending
  BY DEF L!RUnlock, m
<1>4. readers[m][t] \in Nat /\ readers[m][t] # 0 /\ readers[m][t] - 1 \in Nat
  BY <1>1, <1>2 DEF L!TypeOK
<1>5. /\ readers' \in [L!Locks -> [L!Threads -> Nat]]
      /\ \A l \in L!Locks, u \in L!Threads :
           readers'[l][u] = IF l = m /\ u = t THEN readers[l][u] - 1 ELSE readers[l][u]
  BY <1>1, <1>2, <1>3, <1>4 DEF L!TypeOK
<1>6. \A l \in L!Locks : /\ readers'[l][t] = ReadAt(k, c, i + 1)[l]
                         /\ writer'[l] = t <=> l \in WrittenAt(k, c, i + 1)
  <2>1. \A l \in L!Locks : ReadAt(k, c, i + 1)[l]
                             = IF l = m THEN ReadAt(k, c, i)[l] - 1 ELSE ReadAt(k, c, i)[l]
    BY <1>2 DEF Reads
  <2>2. QED
    BY <1>2, <1>3, <1>5, <2>1
<1>7. (\A u \in L!Threads : Goroutine(u))' /\ at' \in [L!Threads -> Nat]
  BY <1>1, <1>3, <1>5, <1>6, GoroutineAdvances
<1>8. L!TypeOK'
  BY <1>1, <1>3, <1>5, <1>7 DEF L!TypeOK, L!Advance
<1>9. \A l \in L!Locks : Announced(l)'
  BY <1>1, <1>3, OthersAnnounced
<1>10. QED
  BY <1>7, <1>8, <1>9 DEF LockInv, L!Locks

LEMMA LocksAnnounce ==
  ASSUME LocksAssumption, LockInv, NEW t \in L!Threads, L!Announce(t)
  PROVE  LockInv'
<1>0. L!TypeOK /\ L!Running(t) /\ L!NextOp(t, "Lock")
  BY DEF LockInv, L!Announce, L!NextOp
<1>1. PICK m \in L!Locks : m = L!LockOf(t) /\ L!Free(m)
  BY <1>0, RunningIs DEF L!Announce
<1>3. /\ handler' = handler /\ client' = client /\ at' = at /\ runs' = runs
      /\ readers' = readers /\ writer' = writer
  BY DEF L!Announce
<1>4. /\ pending' = [pending EXCEPT ![m] = t]
      /\ pending' \in [L!Locks -> L!Threads \cup {L!None}] /\ pending'[m] = t
      /\ \A l \in L!Locks \ {m} : pending'[l] = pending[l]
  <2>1. pending' = [pending EXCEPT ![m] = t]
    BY <1>1 DEF L!Announce
  <2>2. QED
    BY <1>0, <1>1, <2>1 DEF L!TypeOK
<1>5. L!TypeOK'
  BY <1>0, <1>3, <1>4 DEF L!TypeOK
<1>6. \A u \in L!Threads : Goroutine(u)'
  BY <1>3, GoroutineKeeps DEF LockInv
<1>7. \A l \in L!Locks \ {m} : Announced(l)'
  <2> SUFFICES ASSUME NEW l \in L!Locks \ {m}
               PROVE  Announced(l)'
    OBVIOUS
  <2>1. Announced(l) /\ pending'[l] = pending[l]
    BY <1>4 DEF LockInv
  <2>2. QED
    BY <1>3, <2>1, AnnouncedKeeps DEF Announced
<1>8. Announced(m)'
  <2>1. writer[m] = L!None /\ L!NextOp(t, "Lock") /\ L!LockOf(t) = m
    BY <1>0, <1>1 DEF L!Free
  <2>2. L!NextOp(t, "Lock")' /\ L!LockOf(t)' = m /\ pending'[m] = t
    BY <1>3, <1>4, <2>1 DEF L!NextOp, L!Running, L!LockOf, L!Ops
  <2>3. QED
    BY <1>3, <2>1, <2>2 DEF Announced
<1>9. QED
  BY <1>5, <1>6, <1>7, <1>8 DEF LockInv, L!Threads, L!Locks

LEMMA LocksLock ==
  ASSUME LocksAssumption, LockInv, NEW t \in L!Threads, L!Lock(t)
  PROVE  LockInv'
<1> DEFINE k == handler[t]
           c == client[t]
           i == at[t]
           m == L!LockOf(t)
<1>1. L!TypeOK /\ L!Running(t) /\ L!NextOp(t, "Lock") /\ L!Advance(t) /\ pending[m] = t
  BY DEF LockInv, L!Lock, L!NextOp
<1>2. /\ m \in L!Locks /\ t # L!None
      /\ ReadAt(k, c, i + 1) = ReadAt(k, c, i) /\ WrittenAt(k, c, i + 1) = WrittenAt(k, c, i) \cup {m}
      /\ \A l \in L!Locks : /\ readers[l][t] = ReadAt(k, c, i)[l]
                            /\ writer[l] = t <=> l \in WrittenAt(k, c, i)
  <2>1. L!Program[k][c][i][1] = "Lock"
    BY <1>1, RunningIs
  <2>2. t # L!None
    BY DEF LocksAssumption, L!HubLocksAssumption
  <2>3. /\ m = L!Program[k][c][i][2] /\ m \in L!Locks /\ ReadAt(k, c, i) \in Reads
        /\ Effect(L!Program[k][c][i], ReadAt(k, c, i), WrittenAt(k, c, i),
                  ReadAt(k, c, i + 1), WrittenAt(k, c, i + 1))
        /\ \A l \in L!Locks : /\ readers[l][t] = ReadAt(k, c, i)[l]
                              /\ writer[l] = t <=> l \in WrittenAt(k, c, i)
    BY <1>1, RunningIs
  <2> HIDE DEF m
  <2>4. QED
    BY <2>1, <2>2, <2>3 DEF Effect
<1>3. /\ writer[m] = L!None
      /\ \A l \in L!Locks : pending[l] # L!None => L!LockOf(pending[l]) = l /\ writer[l] = L!None
  BY <1>1, <1>2 DEF LockInv, Announced
<1>4. \A l \in L!Locks : pending[l] = t => l = m
  BY <1>2, <1>3
<1> HIDE DEF m
<1>5. /\ readers' = readers /\ writer' = [writer EXCEPT ![m] = t]
      /\ pending' = [pending EXCEPT ![m] = L!None]
  BY DEF L!Lock, m
<1>6. /\ pending' \in [L!Locks -> L!Threads \cup {L!None}]
      /\ writer' \in [L!Locks -> L!Threads \cup {L!None}]
      /\ pending'[m] = L!None /\ writer'[m] = t
      /\ \A l \in L!Locks \ {m} : pending'[l] = pending[l] /\ writer'[l] = writer[l]
  BY <1>1, <1>2, <1>5 DEF L!TypeOK
<1>7. (\A u \in L!Threads : Goroutine(u))' /\ at' \in [L!Threads -> Nat]
  <2>1. \A l \in L!Locks : /\ readers'[l][t] = ReadAt(k, c, i + 1)[l]
                           /\ writer'[l] = t <=> l \in WrittenAt(k, c, i + 1)
    BY <1>2, <1>5, <1>6
  <2>2. \A l \in L!Locks, u \in L!Threads \ {t} :
          readers'[l][u] = readers[l][u] /\ (writer'[l] = u <=> writer[l] = u)
    <3>1. \A u \in L!Threads : u # L!None
      BY DEF LocksAssumption, L!HubLocksAssumption
    <3>2. QED
      BY <1>3, <1>5, <1>6, <3>1
  <2>3. QED
    BY <1>1, <2>1, <2>2, GoroutineAdvances
<1>8. L!TypeOK'
  BY <1>1, <1>5, <1>6, <1>7 DEF L!TypeOK, L!Advance
<1>9. ASSUME NEW l \in L!Locks
      PROVE  Announced(l)'
  <2>1. CASE l = m
    BY <1>6, <2>1 DEF Announced
  <2>2. CASE l # m
    <3>1. /\ Announced(l) /\ pending[l] \in L!Threads \cup {L!None}
          /\ pending'[l] = pending[l] /\ writer'[l] = writer[l] /\ pending[l] # t
      BY <1>1, <1>4, <1>6, <2>2 DEF LockInv, L!TypeOK
    <3>2. pending[l] # L!None => at'[pending[l]] = at[pending[l]]
      BY <1>1, <3>1 DEF L!Advance, L!TypeOK
    <3>3. QED
      BY <1>1, <3>1, <3>2, AnnouncedKeeps DEF Announced, L!Advance
  <2>3. QED
    BY <2>1, <2>2
<1>10. QED
  BY <1>7, <1>8, <1>9 DEF LockInv, L!Locks

LEMMA LocksUnlock ==
  ASSUME LocksAssumption, LockInv, NEW t \in L!Threads, L!Unlock(t)
  PROVE  LockInv'
<1> DEFINE k == handler[t]
           c == client[t]
           i == at[t]
           m == L!LockOf(t)
<1>1. L!TypeOK /\ L!Running(t) /\ L!NextOp(t, "Unlock") /\ L!Advance(t)
  BY DEF LockInv, L!Unlock, L!NextOp
<1>2. /\ m \in L!Locks /\ t # L!None /\ m \in WrittenAt(k, c, i)
      /\ ReadAt(k, c, i + 1) = ReadAt(k, c, i) /\ WrittenAt(k, c, i + 1) = WrittenAt(k, c, i) \ {m}
      /\ \A l \in L!Locks : /\ readers[l][t] = ReadAt(k, c, i)[l]
                            /\ writer[l] = t <=> l \in WrittenAt(k, c, i)
  <2>1. L!Program[k][c][i][1] = "Unlock"
    BY <1>1, RunningIs
  <2>2. t # L!None
    BY DEF LocksAssumption, L!HubLocksAssumption
  <2>3. /\ m = L!Program[k][c][i][2] /\ m \in L!Locks /\ ReadAt(k, c, i) \in Reads
        /\ Effect(L!Program[k][c][i], ReadAt(k, c, i), WrittenAt(k, c, i),
                  ReadAt(k, c, i + 1), WrittenAt(k, c, i + 1))
        /\ \A l \in L!Locks : /\ readers[l][t] = ReadAt(k, c, i)[l]
                              /\ writer[l] = t <=> l \in WrittenAt(k, c, i)
    BY <1>1, RunningIs
  <2> HIDE DEF m
  <2>4. QED
    BY <2>1, <2>2, <2>3 DEF Effect
<1> HIDE DEF m
<1>3. readers' = readers /\ writer' = [writer EXCEPT ![m] = L!None] /\ pending' = pending
  BY DEF L!Unlock, m
<1>4. /\ writer' \in [L!Locks -> L!Threads \cup {L!None}]
      /\ writer[m] = t /\ writer'[m] = L!None
      /\ \A l \in L!Locks \ {m} : writer'[l] = writer[l]
  BY <1>1, <1>2, <1>3 DEF L!TypeOK
<1>5. (\A u \in L!Threads : Goroutine(u))' /\ at' \in [L!Threads -> Nat]
  <2>1. \A l \in L!Locks : /\ readers'[l][t] = ReadAt(k, c, i + 1)[l]
                           /\ writer'[l] = t <=> l \in WrittenAt(k, c, i + 1)
    BY <1>2, <1>3, <1>4
  <2>2. \A l \in L!Locks, u \in L!Threads \ {t} :
          readers'[l][u] = readers[l][u] /\ (writer'[l] = u <=> writer[l] = u)
    <3>1. \A u \in L!Threads : u # L!None
      BY DEF LocksAssumption, L!HubLocksAssumption
    <3>2. QED
      BY <1>3, <1>4, <3>1
  <2>3. QED
    BY <1>1, <2>1, <2>2, GoroutineAdvances
<1>6. L!TypeOK'
  BY <1>1, <1>3, <1>4, <1>5 DEF L!TypeOK, L!Advance
<1>7. \A l \in L!Locks : Announced(l)'
  <2>1. \A l \in L!Locks : writer'[l] = writer[l] \/ writer'[l] = L!None
    BY <1>4
  <2>2. QED
    BY <1>1, <1>3, <2>1, OthersAnnounced
<1>8. QED
  BY <1>5, <1>6, <1>7 DEF LockInv, L!Locks

LEMMA LocksStep ==
  ASSUME LocksAssumption, LockInv, [L!Next]_L!vars
  PROVE  LockInv'
<1>1. ASSUME NEW t \in L!Threads, L!Step(t)
      PROVE  LockInv'
  BY <1>1, LocksRLock, LocksRUnlock, LocksAnnounce, LocksLock, LocksUnlock, LocksFinish DEF L!Step
<1>2. ASSUME NEW t \in L!Threads, NEW k \in L!Kinds, NEW c \in Clients, L!Start(t, k, c)
      PROVE  LockInv'
  BY <1>2, LocksStart
<1>3. CASE UNCHANGED L!vars
  <2>1. /\ handler' = handler /\ client' = client /\ at' = at /\ runs' = runs
        /\ readers' = readers /\ writer' = writer /\ pending' = pending
    BY <1>3 DEF L!vars
  <2>2. L!TypeOK'
    BY <2>1 DEF LockInv, L!TypeOK
  <2>3. (\A t \in L!Threads : Goroutine(t)) /\ (\A l \in L!Locks : Announced(l))
    BY DEF LockInv
  <2>4. \A t \in L!Threads : Goroutine(t)'
    BY <2>1, <2>3, GoroutineKeeps
  <2>5. \A l \in L!Locks : Announced(l)'
    BY <2>1, <2>3, AnnouncedKeeps DEF Announced
  <2>6. QED
    BY <2>2, <2>4, <2>5 DEF LockInv, L!Threads, L!Locks
<1>4. QED
  BY <1>1, <1>2, <1>3 DEF L!Next

\* A goroutine that holds l and cannot get on wants a lock above l.
LEMMA HolderWantsMore ==
  ASSUME LocksAssumption, LockInv, NEW u \in L!Threads, NEW l \in L!Locks,
         readers[l][u] # 0 \/ writer[l] = u,
         handler[u] # L!None => L!Blocked(u), handler[u] # "register_ble_peer"
  PROVE  /\ handler[u] # L!None /\ L!LockOf(u) \in L!Locks
         /\ Level(l) < Level(L!LockOf(u))
<1>1. handler[u] # L!None
  BY DEF LockInv, Goroutine
<1>2. L!Running(u) /\ (L!NextOp(u, "RLock") \/ L!NextOp(u, "Lock"))
  BY <1>1 DEF L!Blocked, L!NextOp
<1>3. handler[u] \in Orderly
  BY <1>1 DEF LockInv, L!TypeOK, Orderly
<1>4. PICK op, r, w :
        /\ L!LockOf(u) = op[2] /\ op[2] \in L!Locks /\ op[1] \in {"RLock", "Lock"}
        /\ readers[l][u] = r[l] /\ (writer[l] = u <=> l \in w)
        /\ Ascends(op, r, w, 0)
  <2> DEFINE k == handler[u]
             c == client[u]
             i == at[u]
             op == L!Program[k][c][i]
             r == ReadAt(k, c, i)
             w == WrittenAt(k, c, i)
  <2>1. /\ L!LockOf(u) = op[2] /\ op[2] \in L!Locks /\ Ascends(op, r, w, 0)
        /\ readers[l][u] = r[l] /\ (writer[l] = u <=> l \in w)
        /\ \A o : L!NextOp(u, o) <=> op[1] = o
    BY <1>2, <1>3, RunningIs
  <2> HIDE DEF op, r, w
  <2>2. op[1] \in {"RLock", "Lock"}
    BY <1>2, <2>1
  <2>3. QED
    BY <2>1, <2>2
<1>5. r[l] # 0 \/ l \in w
  BY <1>4
<1>6. Level(l) < Level(op[2])
  <2>1. \A j \in L!Locks : r[j] # 0 \/ j \in w => Level(j) < Level(op[2])
    BY <1>4 DEF Ascends
  <2>2. QED
    BY <1>5, <2>1
<1>7. L!LockOf(u) = op[2] /\ op[2] \in L!Locks
  BY <1>4
<1>8. QED
  BY <1>1, <1>6, <1>7, Zenon

\* Nobody waits for the goroutine that wants the highest lock.
LEMMA NoCircle ==
  ASSUME LocksAssumption, LockInv
  PROVE  L!OnlyRegistrationDeadlocks
<1> SUFFICES ASSUME NEW t0 \in L!Waiting, \A t \in L!Waiting : L!Blocked(t),
                    \A t \in L!Waiting : handler[t] # "register_ble_peer"
             PROVE  FALSE
  BY DEF L!OnlyRegistrationDeadlocks
<1>1. \A t : t \in L!Waiting <=> t \in L!Threads /\ handler[t] # L!None
  BY DEF L!Waiting
<1>2. ASSUME NEW u \in L!Threads, NEW l \in L!Locks, readers[l][u] # 0 \/ writer[l] = u
      PROVE  u \in L!Waiting /\ Level(l) < Level(L!LockOf(u))
  <2>1. handler[u] # L!None
    BY <1>2 DEF LockInv, Goroutine
  <2>2. u \in L!Waiting /\ L!Blocked(u) /\ handler[u] # "register_ble_peer"
    BY <1>1, <2>1
  <2>3. QED
    BY <1>2, <2>2, HolderWantsMore
<1>3. ASSUME NEW u \in L!Threads, NEW l \in L!Locks, pending[l] = u
      PROVE  \E v \in L!Waiting : Level(l) < Level(L!LockOf(v))
  <2>1. u # L!None
    BY DEF LocksAssumption, L!HubLocksAssumption
  <2>2. L!NextOp(u, "Lock") /\ L!LockOf(u) = l /\ L!Running(u) /\ u \in L!Waiting
    BY <1>1, <1>3, <2>1 DEF LockInv, Announced, L!NextOp, L!Running
  <2>3. ~L!NextOp(u, "RLock")
    BY <2>2, RunningIs
  <2>4. ~L!Unread(l)
    BY <1>3, <2>2, <2>3 DEF L!Blocked
  <2>5. PICK v \in L!Threads : readers[l][v] # 0
    BY <2>4 DEF L!Unread
  <2>6. QED
    BY <1>2, <2>5
<1>4. ASSUME NEW t \in L!Waiting
      PROVE  /\ Level(L!LockOf(t)) \in 1..4
             /\ \E u \in L!Waiting : Level(L!LockOf(t)) < Level(L!LockOf(u))
  <2>1. t \in L!Threads /\ L!Running(t)
    BY <1>1 DEF L!Blocked, L!NextOp
  <2>2. PICK l \in L!Locks : l = L!LockOf(t)
    BY <2>1, RunningIs
  <2>3. Level(l) \in 1..4 /\ writer[l] \in L!Threads \cup {L!None} /\ pending[l] \in L!Threads \cup {L!None}
    BY LocksAre DEF LockInv, L!TypeOK
  <2>4. pending[l] = t \/ writer[l] # L!None \/ pending[l] # L!None
    BY <2>2 DEF L!Blocked, L!Free
  <2>5. CASE writer[l] # L!None
    BY <1>2, <2>2, <2>3, <2>5
  <2>6. CASE pending[l] # L!None
    BY <1>3, <2>2, <2>3, <2>6
  <2>7. t # L!None
    BY <2>1 DEF LocksAssumption, L!HubLocksAssumption
  <2>8. QED
    BY <2>2, <2>3, <2>4, <2>5, <2>6, <2>7
<1>5. QED
  <2>1. \E t \in L!Waiting : Level(L!LockOf(t)) > 1
    BY <1>4
  <2>2. \E t \in L!Waiting : Level(L!LockOf(t)) > 2
    BY <1>4, <2>1
  <2>3. \E t \in L!Waiting : Level(L!LockOf(t)) > 3
    BY <1>4, <2>2
  <2>4. \E t \in L!Waiting : Level(L!LockOf(t)) > 4
    BY <1>4, <2>3
  <2>5. QED
    BY <1>4, <2>4

LEMMA LocksHold ==
  ASSUME LocksAssumption
  PROVE  L!Spec => []LockInv
<1>1. L!Init => LockInv
  BY LocksInit
<1>2. LockInv /\ [L!Next]_L!vars => LockInv'
  BY LocksStep
<1>3. QED
  BY <1>1, <1>2, PTL DEF L!Spec

\* The state of the server's locks has its type in every run of HubLocks, with any number of
\* connections: a lock is given back only by a goroutine that holds it (readers never falls below 0).
THEOREM LocksTypeCorrect ==
  ASSUME L!HubLocksAssumption
  PROVE  L!Spec => []L!TypeOK
<1>1. LocksAssumption
  BY DEF LocksAssumption
<1>2. L!Spec => []LockInv
  BY <1>1, LocksHold
<1>3. LockInv => L!TypeOK
  BY DEF LockInv
<1>4. QED
  BY <1>2, <1>3, PTL

\* Whatever the number of connections and of goroutines, and whatever they are asked for: when
\* nobody gets on, a RegisterBlePeer is among those that wait (hub.go:344-367, 434-492, 532-563,
\* room.go:289-310, 498-531).
THEOREM OnlyRegistrationEverDeadlocks ==
  ASSUME L!HubLocksAssumption
  PROVE  L!Spec => []L!OnlyRegistrationDeadlocks
<1>1. LocksAssumption
  BY DEF LocksAssumption
<1>2. L!Spec => []LockInv
  BY <1>1, LocksHold
<1>3. LockInv => L!OnlyRegistrationDeadlocks
  BY <1>1, NoCircle
<1>4. QED
  BY <1>2, <1>3, PTL
=============================================================================
