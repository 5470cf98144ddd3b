------------------------------ MODULE RoomLog ------------------------------
(***************************************************************************)
(* The message log of one room and its replicas in the browsers:           *)
(* server/room.go and the message handlers of server/hub.go on one side,   *)
(* web/src/store/chatStore.ts on the other.                                *)
(*                                                                         *)
(* A handler changes the log under room.mu and publishes the change in a   *)
(* second critical section, where it holds room.mu for reading while it    *)
(* offers the event to one member after the other: several broadcasts may  *)
(* overlap, a writer waits for all of them.  Each connection has a bounded *)
(* channel that drops what does not fit.  A browser keeps its messages     *)
(* over a reconnect and merges the history it is sent into them.           *)
(***************************************************************************)
EXTENDS Naturals, Sequences, SequencesExt

CONSTANTS
  Clients,      \* connections, each an identity of its own
  Tabs,         \* browsers
  TabOf,        \* the browser of a connection
  Early,        \* connections that are in the room from the start
  Sent,         \* the messages Author has sent by then
  Author,
  Fragile,      \* connections that may break (a bound)
  Msgs,         \* message ids
  Relayed,      \* messages of BLE peers: any relay may send them, also again
  MaxMessages,  \* the log keeps that many
  Cap,          \* capacity of a send channel
  MaxOps,       \* bound on the changes of the log
  None          \* no connection

ASSUME RoomLogAssumption ==
  /\ TabOf \in [Clients -> Tabs]
  /\ None \notin Clients
  /\ Early \cup Fragile \subseteq Clients
  /\ \A c, d \in Early : TabOf[c] = TabOf[d] => c = d
  /\ Relayed \subseteq Msgs
  /\ Sent \in Seq(Msgs) /\ IsInjective(Sent) /\ Len(Sent) <= MaxMessages
  /\ Author \in Clients /\ ToSet(Sent) \cap Relayed = {}
  /\ MaxMessages \in Nat \ {0} /\ Cap \in Nat \ {0} /\ MaxOps \in Nat

VARIABLES
  log,      \* room.Messages: the ids, oldest first
  body,     \* room.Messages: what an id stands for
  from,     \* Sender, when it is the identity of a connection
  mapped,   \* messages whose Reactions map has been made
  members,  \* room.Members
  pc,       \* where the connection's handler is
  out,      \* the event it publishes
  todo,     \* members it has not offered the event to
  snap,     \* the result of its GetHistory
  queue,    \* client.send
  dropped,  \* connections that lost something to a full channel
  gone,     \* connections that broke
  open,     \* the browser has the room in its store
  view,     \* the browser's messages of the room
  ops       \* changes of the log so far

serverVars == <<log, body, from, mapped, ops>>
taskVars == <<pc, out, todo, snap>>
netVars == <<queue, dropped>>
tabVars == <<open, view>>
vars == <<serverVars, members, taskVars, netVars, gone, tabVars>>

PCs == {"idle", "publish", "sending", "joined", "snapshot", "history"}

\* A text is a number, 0 the empty one; every edit writes a new one.
Texts == 0..(MaxOps + 1)
Bodies == [text: Texts, deleted: BOOLEAN, pinned: BOOLEAN, likes: SUBSET Clients]
Fresh == [text |-> 1, deleted |-> FALSE, pinned |-> FALSE, likes |-> {}]

\* Some messages and what they stand for.
Stores == UNION {[S -> Bodies] : S \in SUBSET Msgs}
Nothing == [m \in {} |-> Fresh]

\* What is broadcast, what a browser is sent, and what a handler has to publish:
\* also a map of reactions that is not encoded yet.
Broadcasts ==
  [kind : {"message"}, id : Msgs, body : {Fresh}]
    \cup [kind : {"edited"}, id : Msgs, text : Texts \ {0}]
    \cup [kind : {"deleted", "pinned", "unpinned"}, id : Msgs]
    \cup [kind : {"reactions"}, id : Msgs, likes : SUBSET Clients]
Events == Broadcasts \cup [kind : {"room_joined"}] \cup [kind : {"history"}, messages : Stores]
NoEvent == [kind |-> "none"]
ToPublish == Broadcasts \cup [kind : {"live"}, id : Msgs]

InLog(m) == m \in ToSet(log)

Init ==
  /\ log = Sent /\ body = [m \in Msgs |-> Fresh]
  /\ from = [m \in Msgs |-> IF m \in ToSet(Sent) THEN Author ELSE None]
  /\ mapped = {} /\ ops = 0
  /\ members = Early
  /\ pc = [c \in Clients |-> "idle"]
  /\ out = [c \in Clients |-> NoEvent]
  /\ todo = [c \in Clients |-> {}]
  /\ snap = [c \in Clients |-> Nothing]
  /\ queue = [c \in Clients |-> <<>>] /\ dropped = {} /\ gone = {}
  /\ open = {TabOf[c] : c \in Early}
  /\ view = [t \in Tabs |->
               IF t \in open THEN [m \in ToSet(Sent) |-> Fresh] ELSE Nothing]

-----------------------------------------------------------------------------
(* The log: the first critical section of a handler *)

\* room.mu can be locked for writing.
Unlocked == \A d \in Clients : pc[d] # "sending"

Ready(c) == pc[c] = "idle" /\ c \in members \ gone /\ Unlocked

\* The user acts on a message of the log that the browser shows.
Sees(c, m) == InLog(m) /\ m \in DOMAIN view[TabOf[c]]

\* One change of the log by the handler of c, to be published as event e.
Publish(c, e) ==
  /\ ops < MaxOps
  /\ ops' = ops + 1
  /\ pc' = [pc EXCEPT ![c] = "publish"]
  /\ out' = [out EXCEPT ![c] = e]
  /\ UNCHANGED <<members, todo, snap, netVars, gone, tabVars>>

\* Mutant: the log is not cut.
Uncut(s) == s

Trimmed(s) == IF Len(s) > MaxMessages THEN Tail(s) ELSE s

\* AddMessage ignores an id it has; the message is broadcast all the same.
AddMessage(c, m) ==
  /\ Ready(c)
  /\ m \in Relayed \/ from[m] = None
  /\ IF InLog(m)
       THEN UNCHANGED <<log, body, from, mapped>>
       ELSE /\ log' = Trimmed(Append(log, m))
            /\ body' = [body EXCEPT ![m] = Fresh]
            /\ from' = [from EXCEPT ![m] = IF m \in Relayed THEN None ELSE c]
            /\ mapped' = mapped \ {m}
  /\ Publish(c, [kind |-> "message", id |-> m, body |-> Fresh])

\* Mutant: any member may edit.
EditByAnyone(c, m) ==
  /\ Ready(c)
  /\ Sees(c, m)
  /\ ~body[m].deleted
  /\ body' = [body EXCEPT ![m].text = ops + 2]
  /\ Publish(c, [kind |-> "edited", id |-> m, text |-> ops + 2])
  /\ UNCHANGED <<log, from, mapped>>

EditMessage(c, m) ==
  /\ Ready(c)
  /\ Sees(c, m)
  /\ from[m] = c
  /\ ~body[m].deleted
  /\ body' = [body EXCEPT ![m].text = ops + 2]
  /\ Publish(c, [kind |-> "edited", id |-> m, text |-> ops + 2])
  /\ UNCHANGED <<log, from, mapped>>

DeleteMessage(c, m) ==
  /\ Ready(c)
  /\ Sees(c, m)
  /\ from[m] = c
  /\ body' = [body EXCEPT ![m].deleted = TRUE, ![m].text = 0, ![m].pinned = FALSE]
  /\ Publish(c, [kind |-> "deleted", id |-> m])
  /\ UNCHANGED <<log, from, mapped>>

PinMessage(c, m) ==
  /\ Ready(c)
  /\ Sees(c, m)
  /\ ~body[m].deleted
  /\ body' = [body EXCEPT ![m].pinned = TRUE]
  /\ Publish(c, [kind |-> "pinned", id |-> m])
  /\ UNCHANGED <<log, from, mapped>>

UnpinMessage(c, m) ==
  /\ Ready(c)
  /\ Sees(c, m)
  /\ body' = [body EXCEPT ![m].pinned = FALSE]
  /\ Publish(c, [kind |-> "unpinned", id |-> m])
  /\ UNCHANGED <<log, from, mapped>>

\* A second reaction of the same sender returns the room's own map, which is
\* read when the event is encoded; a first one returns a copy.
AddReaction(c, m) ==
  /\ Ready(c)
  /\ Sees(c, m)
  /\ ~body[m].deleted
  /\ body' = [body EXCEPT ![m].likes = @ \cup {c}]
  /\ mapped' = mapped \cup {m}
  /\ Publish(c, IF c \in body[m].likes
                  THEN [kind |-> "live", id |-> m]
                  ELSE [kind |-> "reactions", id |-> m, likes |-> body'[m].likes])
  /\ UNCHANGED <<log, from>>

RemoveReaction(c, m) ==
  /\ Ready(c)
  /\ Sees(c, m)
  /\ c \in body[m].likes
  /\ body' = [body EXCEPT ![m].likes = @ \ {c}]
  /\ Publish(c, [kind |-> "reactions", id |-> m, likes |-> body'[m].likes])
  /\ UNCHANGED <<log, from, mapped>>

-----------------------------------------------------------------------------
(* Publishing: Room.Broadcast *)

\* The event is encoded and room.mu is locked for reading.
StartBroadcast(c) ==
  /\ pc[c] = "publish"
  /\ pc' = [pc EXCEPT ![c] = "sending"]
  /\ todo' = [todo EXCEPT ![c] = members]
  /\ out' = [out EXCEPT ![c] =
               IF @.kind = "live"
                 THEN [kind |-> "reactions", id |-> @.id, likes |-> body[@.id].likes]
                 ELSE @]
  /\ UNCHANGED <<serverVars, members, snap, netVars, gone, tabVars>>

\* The non-blocking send to one connection.
Enqueue(d, e) ==
  /\ queue' = IF d \notin gone /\ Len(queue[d]) < Cap
                THEN [queue EXCEPT ![d] = Append(@, e)] ELSE queue
  /\ dropped' = IF d \notin gone /\ Len(queue[d]) >= Cap
                  THEN dropped \cup {d} ELSE dropped

Send(c, d) ==
  /\ pc[c] = "sending"
  /\ d \in todo[c]
  /\ Enqueue(d, out[c])
  /\ todo' = [todo EXCEPT ![c] = @ \ {d}]
  /\ IF todo[c] = {d}
       THEN /\ pc' = [pc EXCEPT ![c] = "idle"]
            /\ out' = [out EXCEPT ![c] = NoEvent]
       ELSE UNCHANGED <<pc, out>>
  /\ UNCHANGED <<serverVars, members, snap, gone, tabVars>>

-----------------------------------------------------------------------------
(* Joining and leaving *)

\* JoinRoom: AddMember, once the browser has no other connection ...
JoinRoom(c) ==
  /\ pc[c] = "idle"
  /\ c \notin members \cup gone
  /\ \A d \in members \ gone : TabOf[d] # TabOf[c]
  /\ Unlocked
  /\ members' = members \cup {c}
  /\ pc' = [pc EXCEPT ![c] = "joined"]
  /\ UNCHANGED <<serverVars, out, todo, snap, netVars, gone, tabVars>>

\* ... then room_joined ...
SendJoined(c) ==
  /\ pc[c] = "joined"
  /\ Enqueue(c, [kind |-> "room_joined"])
  /\ pc' = [pc EXCEPT ![c] = "snapshot"]
  /\ UNCHANGED <<serverVars, members, out, todo, snap, gone, tabVars>>

\* Mutant: the copy misses the newest message.
HistoryTooShort(c) ==
  /\ pc[c] = "snapshot"
  /\ snap' = [snap EXCEPT ![c] =
                [m \in {log[i] : i \in 1..(Len(log) - 1)} |-> body[m]]]
  /\ pc' = [pc EXCEPT ![c] = "history"]
  /\ UNCHANGED <<serverVars, members, out, todo, netVars, gone, tabVars>>

\* ... GetHistory, which copies the messages under room.mu ...
GetHistory(c) ==
  /\ pc[c] = "snapshot"
  /\ snap' = [snap EXCEPT ![c] = [m \in ToSet(log) |-> body[m]]]
  /\ pc' = [pc EXCEPT ![c] = "history"]
  /\ UNCHANGED <<serverVars, members, out, todo, netVars, gone, tabVars>>

\* ... and room_history.  The copies share their reaction maps with the
\* room: what is encoded is what those hold now.
SendHistory(c) ==
  /\ pc[c] = "history"
  /\ Enqueue(c, [kind |-> "history",
                 messages |-> [m \in DOMAIN snap[c] |->
                                 IF m \in mapped
                                   THEN [snap[c][m] EXCEPT !.likes = body[m].likes]
                                   ELSE snap[c][m]]])
  /\ snap' = [snap EXCEPT ![c] = Nothing]
  /\ pc' = [pc EXCEPT ![c] = "idle"]
  /\ UNCHANGED <<serverVars, members, out, todo, gone, tabVars>>

\* The connection breaks; what is under way to the browser is lost.
Disconnect(c) ==
  /\ c \in (members \cap Fragile) \ gone
  /\ gone' = gone \cup {c}
  /\ queue' = [queue EXCEPT ![c] = <<>>]
  /\ UNCHANGED <<serverVars, members, taskVars, dropped, tabVars>>

\* The hub takes it out of the room when its handler has ended.
RemoveMember(c) ==
  /\ c \in members \cap gone
  /\ pc[c] = "idle"
  /\ Unlocked
  /\ members' = members \ {c}
  /\ UNCHANGED <<serverVars, taskVars, netVars, gone, tabVars>>

-----------------------------------------------------------------------------
(* The browser: chatStore *)

\* { ...prev, ...msg }: false flags and empty maps are not in the JSON.
Overlay(prev, msg) ==
  [text |-> msg.text,
   deleted |-> prev.deleted \/ msg.deleted,
   pinned |-> prev.pinned \/ msg.pinned,
   likes |-> IF msg.likes = {} THEN prev.likes ELSE msg.likes]

mergeMessages(v, h) ==
  [m \in DOMAIN v \cup DOMAIN h |->
     IF m \notin DOMAIN h THEN v[m]
     ELSE IF m \notin DOMAIN v THEN h[m]
     ELSE Overlay(v[m], h[m])]

\* What an event about a known message does to it.
Changed(b, e) ==
  CASE e.kind = "edited"    -> [b EXCEPT !.text = e.text]
    [] e.kind = "deleted"   -> [b EXCEPT !.deleted = TRUE, !.text = 0, !.pinned = FALSE]
    [] e.kind = "pinned"    -> [b EXCEPT !.pinned = TRUE]
    [] e.kind = "unpinned"  -> [b EXCEPT !.pinned = FALSE]
    [] e.kind = "reactions" -> [b EXCEPT !.likes = e.likes]

\* The messages of the room after event e; map() passes unknown ids over.
Applied(v, e) ==
  CASE e.kind = "message" -> mergeMessages(v, [m \in {e.id} |-> e.body])
    [] e.kind = "history" -> mergeMessages(v, e.messages)
    [] e.kind = "room_joined" -> v
    [] OTHER -> [m \in DOMAIN v |-> IF m = e.id THEN Changed(v[m], e) ELSE v[m]]

\* onmessage: nothing is stored for a room that is not in the store.
Deliver(c) ==
  /\ c \notin gone
  /\ queue[c] # <<>>
  /\ LET e == Head(queue[c])
         t == TabOf[c]
     IN  /\ open' = IF e.kind = "room_joined" THEN open \cup {t} ELSE open
         /\ view' = IF t \in open THEN [view EXCEPT ![t] = Applied(@, e)] ELSE view
  /\ queue' = [queue EXCEPT ![c] = Tail(@)]
  /\ UNCHANGED <<serverVars, members, taskVars, dropped, gone>>

-----------------------------------------------------------------------------

Change(c, m) ==
  \/ AddMessage(c, m)
  \/ EditMessage(c, m) \/ DeleteMessage(c, m)
  \/ PinMessage(c, m) \/ UnpinMessage(c, m)
  \/ AddReaction(c, m) \/ RemoveReaction(c, m)

Handler(c) ==
  \/ StartBroadcast(c)
  \/ \E d \in Clients : Send(c, d)
  \/ SendJoined(c) \/ GetHistory(c) \/ SendHistory(c)

Next ==
  \E c \in Clients :
    \/ \E m \in Msgs : Change(c, m)
    \/ Handler(c)
    \/ JoinRoom(c) \/ Disconnect(c) \/ RemoveMember(c)
    \/ Deliver(c)

Spec == Init /\ [][Next]_vars

-----------------------------------------------------------------------------
(* Properties *)

LogOK ==
  /\ log \in Seq(Msgs) /\ IsInjective(log) /\ Len(log) <= MaxMessages
  /\ body \in [Msgs -> Bodies]
  /\ from \in [Msgs -> Clients \cup {None}]
  /\ mapped \subseteq Msgs
  /\ members \subseteq Clients /\ gone \subseteq Clients
  /\ ops \in 0..MaxOps

HandlersOK ==
  /\ pc \in [Clients -> PCs]
  /\ out \in [Clients -> ToPublish \cup {NoEvent}]
  /\ \A c \in Clients : pc[c] \in {"publish", "sending"} <=> out[c] # NoEvent
  /\ \A c \in Clients : pc[c] = "sending" => out[c] \in Broadcasts
  /\ todo \in [Clients -> SUBSET Clients]
  /\ snap \in [Clients -> Stores]

ReplicasOK ==
  /\ queue \in [Clients -> Seq(Events)] /\ \A c \in Clients : Len(queue[c]) <= Cap
  /\ dropped \subseteq Clients
  /\ open \subseteq Tabs
  /\ view \in [Tabs -> Stores]

\* The log, the channels and the replicas hold what their types say; the log
\* never exceeds maxMessages and never holds an id twice.
TypeOK == LogOK /\ HandlersOK /\ ReplicasOK

\* No handler runs and nothing is under way to connection c, a member of the
\* room that never lost anything to a full channel.
UpToDate(c) ==
  /\ c \in members \ (gone \cup dropped)
  /\ queue[c] = <<>>
  /\ \A d \in Clients : pc[d] = "idle"

\* A browser that is up to date shows every message of the log, also one that
\* joined while messages were being sent or that came back after it lost some:
\* it is a member before its history is copied, and has the room in its store
\* before the first broadcast that history may miss (hub.go:190-208, 294-300,
\* room.go:85-105, web/src/store/chatStore.ts:4-11, 196-220).
NoMessageLost ==
  \A c \in Clients : UpToDate(c) => ToSet(log) \subseteq DOMAIN view[TabOf[c]]

\* A browser that was in the room all the time and is up to date shows the
\* text the log has, and shows as deleted what is deleted: edits and deletions
\* of a message come from one connection, so that their broadcasts cannot
\* overtake each other (room.go:109-147, hub.go:835-870, chatStore.ts:230-254).
ContentConverges ==
  \A c \in Early : UpToDate(c) =>
    \A m \in ToSet(log) :
      m \in DOMAIN view[TabOf[c]] =>
        /\ view[TabOf[c]][m].text = body[m].text
        /\ view[TabOf[c]][m].deleted = body[m].deleted
=============================================================================
