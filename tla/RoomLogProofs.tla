--------------------------- MODULE RoomLogProofs ---------------------------
(***************************************************************************)
(* Theorems about RoomLog for any connections, browsers and messages, any  *)
(* size of the log and of the channels, and any number of changes.         *)
(*                                                                         *)
(* What a browser shows is right only in the end.  LogInv says of every    *)
(* moment what is still to come: a message of the log is shown, or under   *)
(* way, or about to be sent; and of all that is under way about a message, *)
(* the last to arrive says what the log has.                               *)
(***************************************************************************)
EXTENDS RoomLog, FiniteSetTheorems, TLAPS

\* The connections that have lost nothing.
Served == members \ (gone \cup dropped)

\* The handler of d has yet to offer its event to c.
Pending(d, c) == pc[d] = "publish" \/ (pc[d] = "sending" /\ c \in todo[d])

-----------------------------------------------------------------------------
(* Membership *)

\* A handler that lets a connection in runs for a member, a broadcast goes to
\* members only, a browser has one connection at a time, and nothing is under way
\* to any other.
Membership ==
  /\ \A c \in Clients : pc[c] \in {"joined", "snapshot", "history"} => c \in members \ Early
  /\ \A c \in Clients : todo[c] # {} => pc[c] = "sending"
  /\ \A c \in Clients : todo[c] \subseteq members
  /\ \A c \in Clients : c \notin members \ gone => queue[c] = <<>>
  /\ \A c, d \in members \ gone : TabOf[c] = TabOf[d] => c = d
  /\ Early \subseteq members \cup gone

-----------------------------------------------------------------------------
(* No message is lost *)

\* The room is in the browser's store before the i-th event for c is handled.
Heard(c, i) ==
  TabOf[c] \in open \/ \E j \in 1..(i - 1) : queue[c][j].kind = "room_joined"

Brings(e, m) ==
  \/ e.kind = "message" /\ e.id = m
  \/ e.kind = "history" /\ m \in DOMAIN e.messages

\* Message m is shown in the browser of c, or it will be.
Coming(c, m) ==
  \/ m \in DOMAIN view[TabOf[c]]
  \/ \E i \in 1..Len(queue[c]) : Brings(queue[c][i], m) /\ Heard(c, i)
  \/ pc[c] = "history" /\ m \in DOMAIN snap[c]
  \/ \E d \in Clients : Pending(d, c) /\ Brings(out[d], m)

Announced == \A c \in Served : pc[c] # "joined" => Heard(c, Len(queue[c]) + 1)

\* Once its history is copied, a connection gets everything that is in the log.
Covered ==
  \A c \in Served : pc[c] \notin {"joined", "snapshot"} =>
    \A m \in ToSet(log) : Coming(c, m)

-----------------------------------------------------------------------------
(* The last to arrive is right *)

\* Event e says what the text of message m is.
Tells(e, m) == e.kind \in {"message", "edited", "deleted"} /\ e.id = m

TextOf(e) ==
  CASE e.kind = "message" -> Fresh.text
    [] e.kind = "edited"  -> e.text
    [] e.kind = "deleted" -> 0

\* Such an event is still to be offered to c.
Telling(c, m) == \E d \in Clients : Pending(d, c) /\ Tells(out[d], m)

\* A message of a BLE peer is never changed, any other by its author only, whose
\* handler publishes one change before it makes the next.
Authors ==
  /\ \A m \in Msgs : body[m].deleted <=> body[m].text = 0
  /\ \A m \in Relayed : from[m] = None
  /\ \A m \in Msgs : from[m] = None => body[m].text = Fresh.text
  /\ \A m \in ToSet(log) : m \in Relayed \/ from[m] # None
  /\ \A d \in Clients, m \in Msgs :
       out[d] # NoEvent /\ Tells(out[d], m) =>
         /\ TextOf(out[d]) = body[m].text
         /\ m \notin Relayed => from[m] = d

\* What an event under way to c may say of m.
Credible(e, m) ==
  /\ m \in Relayed => TextOf(e) = Fresh.text
  /\ m \notin Relayed => from[m] # None
  /\ e.kind = "deleted" => body[m].deleted

\* The channel of a connection that has been there all the time.
Channel(c) ==
  /\ \A i \in 1..Len(queue[c]) : queue[c][i].kind \notin {"room_joined", "history"}
  /\ \A i \in 1..Len(queue[c]), m \in Msgs :
       Tells(queue[c][i], m) =>
         /\ Credible(queue[c][i], m)
         /\ \/ TextOf(queue[c][i]) = body[m].text
            \/ Telling(c, m)
            \/ \E j \in 1..Len(queue[c]) : i < j /\ Tells(queue[c][j], m)

\* Its browser.
Replica(c) ==
  \A m \in DOMAIN view[TabOf[c]] : LET b == view[TabOf[c]][m] IN
    /\ m \in Relayed => b.text = Fresh.text
    /\ m \notin Relayed => from[m] # None
    /\ b.deleted => body[m].deleted
    /\ b.text = 0 => b.deleted
    /\ \/ b.text = body[m].text
       \/ Telling(c, m)
       \/ \E j \in 1..Len(queue[c]) : Tells(queue[c][j], m)

Faithful == \A c \in Early \cap Served : Channel(c) /\ Replica(c)

LogInv ==
  /\ TypeOK /\ Membership
  /\ Announced /\ Covered
  /\ Authors /\ Faithful

-----------------------------------------------------------------------------
(* Bodies, stores and events *)

LEMMA FreshIsBody == Fresh \in Bodies /\ Fresh.text = 1 /\ ~Fresh.deleted
BY RoomLogAssumption DEF Fresh, Bodies, Texts

LEMMA BodiesClosed ==
  ASSUME NEW b \in Bodies
  PROVE  /\ \A t \in Texts : [b EXCEPT !.text = t] \in Bodies
         /\ \A f \in BOOLEAN : [b EXCEPT !.deleted = f] \in Bodies
         /\ \A f \in BOOLEAN : [b EXCEPT !.pinned = f] \in Bodies
         /\ \A l \in SUBSET Clients : [b EXCEPT !.likes = l] \in Bodies
         /\ b.text \in Texts /\ b.deleted \in BOOLEAN /\ b.pinned \in BOOLEAN
         /\ b.likes \in SUBSET Clients
BY DEF Bodies

LEMMA TextsAre == 0 \in Texts /\ Texts \subseteq Nat /\ \A n \in 0..(MaxOps - 1) : n + 2 \in Texts
BY RoomLogAssumption DEF Texts

LEMMA StoreIs ==
  ASSUME NEW v \in Stores
  PROVE  /\ DOMAIN v \subseteq Msgs
         /\ v = [m \in DOMAIN v |-> v[m]]
         /\ \A m \in DOMAIN v : v[m] \in Bodies
BY DEF Stores

LEMMA AStore ==
  /\ \A S \in SUBSET Msgs, b \in Bodies : [m \in S |-> b] \in Stores
  /\ \A S \in SUBSET Msgs : \A v \in [S -> Bodies] : v \in Stores
BY DEF Stores

LEMMA NothingIsStore == Nothing \in Stores
BY FreshIsBody DEF Nothing, Stores

LEMMA EventsAre ==
  /\ \A m \in Msgs : /\ [kind |-> "message", id |-> m, body |-> Fresh] \in Broadcasts
                     /\ [kind |-> "deleted", id |-> m] \in Broadcasts
                     /\ [kind |-> "pinned", id |-> m] \in Broadcasts
                     /\ [kind |-> "unpinned", id |-> m] \in Broadcasts
                     /\ [kind |-> "live", id |-> m] \in ToPublish
                     /\ \A t \in Texts \ {0} :
                          [kind |-> "edited", id |-> m, text |-> t] \in Broadcasts
                     /\ \A l \in SUBSET Clients :
                          [kind |-> "reactions", id |-> m, likes |-> l] \in Broadcasts
  /\ [kind |-> "room_joined"] \in Events
  /\ \A h \in Stores : [kind |-> "history", messages |-> h] \in Events
  /\ Broadcasts \subseteq ToPublish /\ Broadcasts \subseteq Events
BY DEF Broadcasts, Events, ToPublish

LEMMA BroadcastIs ==
  ASSUME NEW e \in Broadcasts
  PROVE  /\ e.kind \in {"message", "edited", "deleted", "pinned", "unpinned", "reactions"}
         /\ e.id \in Msgs
         /\ e.kind = "message" => e.body = Fresh
         /\ e.kind = "edited" => e.text \in Texts \ {0}
         /\ e.kind = "reactions" => e.likes \in SUBSET Clients
BY DEF Broadcasts

LEMMA EventIs ==
  ASSUME NEW e \in Events
  PROVE  /\ e.kind \in {"message", "edited", "deleted", "pinned", "unpinned", "reactions",
                        "room_joined", "history"}
         /\ e.kind = "message" => e.id \in Msgs /\ e.body = Fresh
         /\ e.kind = "edited" => e.id \in Msgs /\ e.text \in Texts \ {0}
         /\ e.kind \in {"deleted", "pinned", "unpinned"} => e.id \in Msgs
         /\ e.kind = "reactions" => e.id \in Msgs /\ e.likes \in SUBSET Clients
         /\ e.kind = "history" => e.messages \in Stores
BY DEF Broadcasts, Events

LEMMA NoEventIs == NoEvent \notin ToPublish
BY DEF NoEvent, Broadcasts, ToPublish

LEMMA ToPublishIs ==
  ASSUME NEW e \in ToPublish
  PROVE  (e \in Broadcasts /\ e.kind # "live") \/ (e.kind = "live" /\ e.id \in Msgs)
BY BroadcastIs DEF ToPublish

-----------------------------------------------------------------------------
(* What an event does to a replica *)

Changes == {"edited", "deleted", "pinned", "unpinned", "reactions"}

LEMMA ChangedIs ==
  ASSUME NEW b \in Bodies, NEW e \in Events, e.kind \in Changes
  PROVE  /\ Changed(b, e) \in Bodies
         /\ e.kind \in {"edited", "deleted"} => Changed(b, e).text = TextOf(e)
         /\ e.kind \notin {"edited", "deleted"} => Changed(b, e).text = b.text
         /\ e.kind = "deleted" => Changed(b, e).deleted
         /\ e.kind # "deleted" => Changed(b, e).deleted = b.deleted
<1> USE EventIs, BodiesClosed, TextsAre DEF Changes, Changed, TextOf
<1>1. CASE e.kind = "edited"
  BY <1>1 DEF Bodies
<1>2. CASE e.kind = "deleted"
  BY <1>2 DEF Bodies
<1>3. CASE e.kind \in {"pinned", "unpinned"}
  BY <1>3 DEF Bodies
<1>4. CASE e.kind = "reactions"
  BY <1>4 DEF Bodies
<1> QED
  BY <1>1, <1>2, <1>3, <1>4

LEMMA OverlayIs ==
  ASSUME NEW b \in Bodies, NEW n \in Bodies
  PROVE  /\ Overlay(b, n) \in Bodies
         /\ Overlay(b, n).text = n.text
         /\ Overlay(b, n).deleted = (b.deleted \/ n.deleted)
BY DEF Overlay, Bodies

LEMMA MergeIs ==
  ASSUME NEW v \in Stores, NEW h \in Stores
  PROVE  /\ mergeMessages(v, h) \in Stores
         /\ DOMAIN mergeMessages(v, h) = DOMAIN v \cup DOMAIN h
         /\ \A m \in DOMAIN v \ DOMAIN h : mergeMessages(v, h)[m] = v[m]
         /\ \A m \in DOMAIN h \ DOMAIN v : mergeMessages(v, h)[m] = h[m]
         /\ \A m \in DOMAIN h \cap DOMAIN v : mergeMessages(v, h)[m] = Overlay(v[m], h[m])
<1>1. DOMAIN v \cup DOMAIN h \in SUBSET Msgs
  BY StoreIs
<1>2. \A m \in DOMAIN v \cup DOMAIN h :
        (IF m \notin DOMAIN h THEN v[m]
         ELSE IF m \notin DOMAIN v THEN h[m] ELSE Overlay(v[m], h[m])) \in Bodies
  BY StoreIs, OverlayIs
<1>3. mergeMessages(v, h) \in [DOMAIN v \cup DOMAIN h -> Bodies]
  BY <1>2 DEF mergeMessages
<1>4. mergeMessages(v, h) \in Stores
  BY <1>1, <1>3 DEF Stores
<1> QED
  BY <1>4 DEF mergeMessages

\* No event takes a message from a replica, and a message that is sent is in it.
LEMMA AppliedIs ==
  ASSUME NEW v \in Stores, NEW e \in Events
  PROVE  /\ Applied(v, e) \in Stores
         /\ DOMAIN v \subseteq DOMAIN Applied(v, e)
         /\ \A m : Brings(e, m) => m \in DOMAIN Applied(v, e)
<1>1. CASE e.kind = "message"
  <2> DEFINE h == [n \in {e.id} |-> e.body]
  <2>1. e.id \in Msgs /\ e.body \in Bodies
    BY <1>1, EventIs, FreshIsBody
  <2>2. h \in Stores /\ DOMAIN h = {e.id}
    BY <2>1, AStore
  <2>3. Applied(v, e) = mergeMessages(v, h)
    BY <1>1 DEF Applied
  <2>4. \A m : Brings(e, m) => m = e.id
    BY <1>1 DEF Brings
  <2> HIDE DEF h
  <2> QED
    <3>1. /\ mergeMessages(v, h) \in Stores
          /\ DOMAIN mergeMessages(v, h) = DOMAIN v \cup DOMAIN h
      BY <2>2, MergeIs, Zenon
    <3> QED
      BY <2>2, <2>3, <2>4, <3>1
<1>2. CASE e.kind = "history"
  <2>1. e.messages \in Stores
    BY <1>2, EventIs
  <2>2. Applied(v, e) = mergeMessages(v, e.messages)
    BY <1>2 DEF Applied
  <2>3. \A m : Brings(e, m) => m \in DOMAIN e.messages
    BY <1>2 DEF Brings
  <2> QED
    <3>1. /\ mergeMessages(v, e.messages) \in Stores
          /\ DOMAIN mergeMessages(v, e.messages) = DOMAIN v \cup DOMAIN e.messages
      BY <2>1, MergeIs, Zenon
    <3> QED
      BY <2>2, <2>3, <3>1
<1>3. CASE e.kind = "room_joined"
  BY <1>3 DEF Applied, Brings
<1>4. CASE e.kind \in Changes
  <2>1. Applied(v, e) = [m \in DOMAIN v |-> IF m = e.id THEN Changed(v[m], e) ELSE v[m]]
    BY <1>4 DEF Applied, Changes
  <2>2. Applied(v, e) \in [DOMAIN v -> Bodies]
    BY <1>4, <2>1, StoreIs, ChangedIs
  <2> QED
    BY <1>4, <2>1, <2>2, StoreIs, AStore DEF Brings, Changes
<1> QED
  BY <1>1, <1>2, <1>3, <1>4, EventIs DEF Changes

\* What becomes of text and deletion, a history aside.
LEMMA AppliedTells ==
  ASSUME NEW v \in Stores, NEW e \in Events, e.kind # "history"
  PROVE  \A m \in DOMAIN Applied(v, e) :
           /\ Tells(e, m) => Applied(v, e)[m].text = TextOf(e)
           /\ ~Tells(e, m) => m \in DOMAIN v /\ Applied(v, e)[m].text = v[m].text
           /\ Applied(v, e)[m].deleted <=>
                \/ m \in DOMAIN v /\ v[m].deleted
                \/ Tells(e, m) /\ e.kind = "deleted"
<1> SUFFICES ASSUME NEW m \in DOMAIN Applied(v, e)
             PROVE  /\ Tells(e, m) => Applied(v, e)[m].text = TextOf(e)
                    /\ ~Tells(e, m) => m \in DOMAIN v /\ Applied(v, e)[m].text = v[m].text
                    /\ Applied(v, e)[m].deleted <=>
                         \/ m \in DOMAIN v /\ v[m].deleted
                         \/ Tells(e, m) /\ e.kind = "deleted"
  OBVIOUS
<1>1. CASE e.kind = "message"
  <2> DEFINE h == [n \in {e.id} |-> e.body]
  <2>0. e.id \in Msgs /\ e.body = Fresh
    BY <1>1, EventIs
  <2>1. h \in Stores /\ DOMAIN h = {e.id} /\ h[e.id] = Fresh
    BY <2>0, FreshIsBody, AStore
  <2>2. Applied(v, e) = mergeMessages(v, h)
    BY <1>1 DEF Applied
  <2> HIDE DEF h
  <2>9. /\ DOMAIN mergeMessages(v, h) = DOMAIN v \cup {e.id}
        /\ \A n \in DOMAIN v \ {e.id} : mergeMessages(v, h)[n] = v[n]
        /\ e.id \notin DOMAIN v => mergeMessages(v, h)[e.id] = Fresh
        /\ e.id \in DOMAIN v => mergeMessages(v, h)[e.id] = Overlay(v[e.id], Fresh)
    <3>1. /\ DOMAIN mergeMessages(v, h) = DOMAIN v \cup DOMAIN h
          /\ \A n \in DOMAIN v \ DOMAIN h : mergeMessages(v, h)[n] = v[n]
          /\ \A n \in DOMAIN h \ DOMAIN v : mergeMessages(v, h)[n] = h[n]
          /\ \A n \in DOMAIN h \cap DOMAIN v : mergeMessages(v, h)[n] = Overlay(v[n], h[n])
      BY <2>1, MergeIs, Zenon
    <3> QED
      BY <2>1, <3>1
  <2>3. CASE m # e.id
    <3>1. m \in DOMAIN v /\ Applied(v, e)[m] = v[m]
      BY <2>2, <2>3, <2>9
    <3> QED
      BY <2>3, <3>1 DEF Tells
  <2>4. CASE m = e.id /\ m \notin DOMAIN v
    <3>1. Applied(v, e)[m] = Fresh
      BY <2>2, <2>4, <2>9
    <3> QED
      BY <1>1, <2>4, <3>1, FreshIsBody DEF Tells, TextOf
  <2>5. CASE m = e.id /\ m \in DOMAIN v
    <3>1. Applied(v, e)[m] = Overlay(v[m], Fresh) /\ v[m] \in Bodies
      BY <2>2, <2>5, <2>9, StoreIs
    <3>2. /\ Overlay(v[m], Fresh).text = Fresh.text
          /\ Overlay(v[m], Fresh).deleted = (v[m].deleted \/ Fresh.deleted)
      BY <3>1, FreshIsBody, OverlayIs
    <3>3. v[m].deleted \in BOOLEAN /\ ~Fresh.deleted
      BY <3>1, FreshIsBody, BodiesClosed
    <3>4. Overlay(v[m], Fresh).deleted = v[m].deleted
      BY <3>2, <3>3
    <3>5. Tells(e, m) /\ TextOf(e) = Fresh.text
      BY <1>1, <2>5 DEF Tells, TextOf
    <3> QED
      BY <1>1, <2>5, <3>1, <3>2, <3>4, <3>5
  <2> QED
    BY <2>3, <2>4, <2>5
<1>2. CASE e.kind = "room_joined"
  BY <1>2 DEF Applied, Tells
<1>3. CASE e.kind \in Changes
  <2>1. /\ m \in DOMAIN v
        /\ Applied(v, e)[m] = IF m = e.id THEN Changed(v[m], e) ELSE v[m]
    BY <1>3 DEF Applied, Changes
  <2>2. v[m] \in Bodies
    BY <2>1, StoreIs
  <2> QED
    BY <1>3, <2>1, <2>2, ChangedIs DEF Tells, Changes
<1> QED
  BY <1>1, <1>2, <1>3, EventIs DEF Changes

-----------------------------------------------------------------------------
(* Sequences *)

LEMMA AppendIs ==
  ASSUME NEW S, NEW q \in Seq(S), NEW e \in S
  PROVE  /\ Append(q, e) \in Seq(S) /\ Len(Append(q, e)) = Len(q) + 1
         /\ \A i \in 1..Len(q) : Append(q, e)[i] = q[i]
         /\ Append(q, e)[Len(q) + 1] = e
OBVIOUS

LEMMA TailIs ==
  ASSUME NEW S, NEW q \in Seq(S), q # <<>>
  PROVE  /\ Tail(q) \in Seq(S) /\ Len(Tail(q)) = Len(q) - 1 /\ Len(q) \in Nat \ {0}
         /\ Head(q) = q[1] /\ Head(q) \in S
         /\ \A i \in 1..(Len(q) - 1) : Tail(q)[i] = q[i + 1]
OBVIOUS

LEMMA ToSetIs ==
  ASSUME NEW S, NEW q \in Seq(S)
  PROVE  /\ \A m : m \in ToSet(q) <=> \E i \in 1..Len(q) : q[i] = m
         /\ ToSet(q) \subseteq S
         /\ IsInjective(q) <=> \A i, j \in 1..Len(q) : q[i] = q[j] => i = j
BY DEF ToSet, IsInjective

\* The log after a new message.
LEMMA TrimmedIs ==
  ASSUME NEW q \in Seq(Msgs), IsInjective(q), Len(q) <= MaxMessages,
         NEW m \in Msgs, m \notin ToSet(q)
  PROVE  /\ Trimmed(Append(q, m)) \in Seq(Msgs)
         /\ IsInjective(Trimmed(Append(q, m)))
         /\ Len(Trimmed(Append(q, m))) <= MaxMessages
         /\ ToSet(Trimmed(Append(q, m))) \subseteq ToSet(q) \cup {m}
<1> DEFINE a == Append(q, m)
<1>1. /\ a \in Seq(Msgs) /\ Len(a) = Len(q) + 1 /\ Len(q) \in Nat
      /\ \A i \in 1..Len(q) : a[i] = q[i]
      /\ a[Len(q) + 1] = m
  BY AppendIs
<1> HIDE DEF a
<1> SUFFICES /\ Trimmed(a) \in Seq(Msgs)
             /\ IsInjective(Trimmed(a))
             /\ Len(Trimmed(a)) <= MaxMessages
             /\ ToSet(Trimmed(a)) \subseteq ToSet(q) \cup {m}
  BY DEF a
<1>2. \A i \in 1..Len(q) : q[i] # m
  BY ToSetIs
<1>3. \A i, j \in 1..Len(q) : q[i] = q[j] => i = j
  BY ToSetIs
<1>4. \A i, j \in 1..Len(a) : a[i] = a[j] => i = j
  <2> SUFFICES ASSUME NEW i \in 1..Len(a), NEW j \in 1..Len(a), a[i] = a[j]
               PROVE  i = j
    OBVIOUS
  <2>1. (i \in 1..Len(q) \/ i = Len(q) + 1) /\ (j \in 1..Len(q) \/ j = Len(q) + 1)
    BY <1>1
  <2> QED
    BY <1>1, <1>2, <1>3, <2>1
<1>5. \A i \in 1..Len(a) : a[i] \in ToSet(q) \cup {m}
  <2> SUFFICES ASSUME NEW i \in 1..Len(a) PROVE a[i] \in ToSet(q) \cup {m}
    OBVIOUS
  <2>1. i \in 1..Len(q) \/ i = Len(q) + 1
    BY <1>1
  <2> QED
    BY <1>1, <2>1, ToSetIs
<1>6. CASE Len(a) <= MaxMessages
  <2>1. Trimmed(a) = a
    BY <1>1, <1>6, RoomLogAssumption DEF Trimmed
  <2> QED
    BY <1>1, <1>4, <1>5, <1>6, <2>1, ToSetIs
<1>7. CASE Len(a) > MaxMessages
  <2> DEFINE t == Tail(a)
  <2>1. Trimmed(a) = t
    BY <1>7 DEF Trimmed
  <2>2. a # <<>>
    BY <1>1
  <2>3. /\ t \in Seq(Msgs) /\ Len(t) = Len(a) - 1
        /\ \A i \in 1..(Len(a) - 1) : t[i] = a[i + 1]
    BY <1>1, <2>2, TailIs
  <2> HIDE DEF t
  <2>4. \A i, j \in 1..Len(t) : t[i] = t[j] => i = j
    <3> SUFFICES ASSUME NEW i \in 1..Len(t), NEW j \in 1..Len(t), t[i] = t[j]
                 PROVE  i = j
      OBVIOUS
    <3>1. i + 1 \in 1..Len(a) /\ j + 1 \in 1..Len(a) /\ a[i + 1] = a[j + 1]
      BY <1>1, <2>3
    <3> QED
      BY <1>4, <3>1
  <2>5. \A i \in 1..Len(t) : t[i] \in ToSet(q) \cup {m}
    <3> SUFFICES ASSUME NEW i \in 1..Len(t) PROVE t[i] \in ToSet(q) \cup {m}
      OBVIOUS
    <3>1. i + 1 \in 1..Len(a) /\ t[i] = a[i + 1]
      BY <1>1, <2>3
    <3> QED
      BY <1>5, <3>1
  <2>6. Len(t) <= MaxMessages
    BY <1>1, <2>3, RoomLogAssumption
  <2> QED
    BY <2>1, <2>3, <2>4, <2>5, <2>6, ToSetIs
<1> QED
  BY <1>1, <1>6, <1>7, RoomLogAssumption

-----------------------------------------------------------------------------
(* Sending, and changes of the log *)

LEMMA EnqueueIs ==
  ASSUME ReplicasOK, NEW d \in Clients, NEW e \in Events, Enqueue(d, e)
  PROVE  /\ queue' \in [Clients -> Seq(Events)] /\ \A c \in Clients : Len(queue'[c]) <= Cap
         /\ dropped' \subseteq Clients /\ dropped \subseteq dropped'
         /\ \A c \in Clients \ {d} : queue'[c] = queue[c]
         /\ queue'[d] = queue[d] \/ queue'[d] = Append(queue[d], e)
         /\ d \notin gone \cup dropped' => queue'[d] = Append(queue[d], e)
         /\ d \in gone => queue'[d] = queue[d]
<1> USE DEF ReplicasOK
<1>1. queue[d] \in Seq(Events) /\ Len(queue[d]) \in Nat
  OBVIOUS
<1>2. CASE d \notin gone /\ Len(queue[d]) < Cap
  <2>1. queue' = [queue EXCEPT ![d] = Append(queue[d], e)] /\ dropped' = dropped
    BY <1>1, <1>2, RoomLogAssumption DEF Enqueue
  <2>2. Append(queue[d], e) \in Seq(Events) /\ Len(Append(queue[d], e)) = Len(queue[d]) + 1
    BY <1>1, AppendIs
  <2> QED
    BY <1>1, <1>2, <2>1, <2>2, RoomLogAssumption
<1>3. CASE d \in gone \/ Len(queue[d]) >= Cap
  BY <1>1, <1>3, RoomLogAssumption DEF Enqueue
<1> QED
  BY <1>1, <1>2, <1>3, RoomLogAssumption

\* What all changes of the log have in common.
LEMMA ChangePublishes ==
  ASSUME TypeOK, NEW c \in Clients, NEW m \in Msgs, Change(c, m)
  PROVE  /\ Ready(c) /\ ops \in 0..(MaxOps - 1) /\ ops' = ops + 1
         /\ pc' = [pc EXCEPT ![c] = "publish"]
         /\ \E e \in ToPublish :
              /\ out' = [out EXCEPT ![c] = e]
              /\ m \in ToSet(log') \ ToSet(log) => Brings(e, m)
         /\ UNCHANGED <<members, todo, snap, netVars, gone, tabVars>>
         /\ ToSet(log') \subseteq ToSet(log) \cup {m}
         /\ log' \in Seq(Msgs) /\ IsInjective(log') /\ Len(log') <= MaxMessages
         /\ body' \in [Msgs -> Bodies]
         /\ from' \in [Msgs -> Clients \cup {None}]
         /\ mapped' \subseteq Msgs
<1> USE DEF TypeOK, LogOK
<1> DEFINE Published(e) ==
      /\ Ready(c) /\ ops \in 0..(MaxOps - 1) /\ ops' = ops + 1
      /\ pc' = [pc EXCEPT ![c] = "publish"]
      /\ out' = [out EXCEPT ![c] = e]
      /\ UNCHANGED <<members, todo, snap, netVars, gone, tabVars>>
<1>1. \A e : Ready(c) /\ Publish(c, e) => Published(e)
  BY RoomLogAssumption DEF Publish
<1>2. body[m] \in Bodies
  OBVIOUS
<1>3. CASE AddMessage(c, m)
  <2> DEFINE e == [kind |-> "message", id |-> m, body |-> Fresh]
  <2>1. Published(e)
    BY <1>1, <1>3 DEF AddMessage
  <2>2. e \in ToPublish /\ Brings(e, m)
    BY EventsAre DEF Brings
  <2>3. /\ ToSet(log') \subseteq ToSet(log) \cup {m}
        /\ log' \in Seq(Msgs) /\ IsInjective(log') /\ Len(log') <= MaxMessages
        /\ body' \in [Msgs -> Bodies]
        /\ from' \in [Msgs -> Clients \cup {None}]
        /\ mapped' \subseteq Msgs
    <3>1. CASE InLog(m)
      BY <1>3, <3>1 DEF AddMessage
    <3>2. CASE ~InLog(m)
      <4>1. m \notin ToSet(log)
        BY <3>2 DEF InLog
      <4>2. log' = Trimmed(Append(log, m))
        BY <1>3, <3>2 DEF AddMessage
      <4>3. /\ log' \in Seq(Msgs) /\ IsInjective(log') /\ Len(log') <= MaxMessages
            /\ ToSet(log') \subseteq ToSet(log) \cup {m}
        BY <4>1, <4>2, TrimmedIs
      <4>4. body' \in [Msgs -> Bodies] /\ from' \in [Msgs -> Clients \cup {None}]
        BY <1>3, <3>2, FreshIsBody DEF AddMessage
      <4>5. mapped' \subseteq Msgs
        BY <1>3, <3>2 DEF AddMessage
      <4> QED
        BY <4>3, <4>4, <4>5
    <3> QED
      BY <3>1, <3>2
  <2> HIDE DEF e
  <2> QED
    BY <2>1, <2>2, <2>3
<1>4. CASE EditMessage(c, m)
  <2> DEFINE e == [kind |-> "edited", id |-> m, text |-> ops + 2]
  <2>1. Published(e) /\ UNCHANGED <<log, from, mapped>>
    BY <1>1, <1>4 DEF EditMessage
  <2>2. ops + 2 \in Texts \ {0}
    BY <2>1, RoomLogAssumption DEF Texts
  <2>3. e \in ToPublish
    BY <2>2, EventsAre
  <2>4. body' \in [Msgs -> Bodies]
    BY <1>2, <1>4, <2>2, BodiesClosed DEF EditMessage
  <2> HIDE DEF e
  <2> QED
    BY <2>1, <2>3, <2>4
<1>5. CASE DeleteMessage(c, m)
  <2> DEFINE e == [kind |-> "deleted", id |-> m]
  <2>1. Published(e) /\ UNCHANGED <<log, from, mapped>>
    BY <1>1, <1>5 DEF DeleteMessage
  <2>2. e \in ToPublish
    BY EventsAre
  <2>3. body' \in [Msgs -> Bodies]
    BY <1>2, <1>5, TextsAre DEF DeleteMessage, Bodies
  <2> HIDE DEF e
  <2> QED
    BY <2>1, <2>2, <2>3
<1>6. CASE PinMessage(c, m)
  <2> DEFINE e == [kind |-> "pinned", id |-> m]
  <2>1. Published(e) /\ UNCHANGED <<log, from, mapped>>
    BY <1>1, <1>6 DEF PinMessage
  <2>2. e \in ToPublish
    BY EventsAre
  <2>3. body' \in [Msgs -> Bodies]
    BY <1>2, <1>6, BodiesClosed DEF PinMessage
  <2> HIDE DEF e
  <2> QED
    BY <2>1, <2>2, <2>3
<1>7. CASE UnpinMessage(c, m)
  <2> DEFINE e == [kind |-> "unpinned", id |-> m]
  <2>1. Published(e) /\ UNCHANGED <<log, from, mapped>>
    BY <1>1, <1>7 DEF UnpinMessage
  <2>2. e \in ToPublish
    BY EventsAre
  <2>3. body' \in [Msgs -> Bodies]
    BY <1>2, <1>7, BodiesClosed DEF UnpinMessage
  <2> HIDE DEF e
  <2> QED
    BY <2>1, <2>2, <2>3
<1>8. CASE AddReaction(c, m)
  <2> DEFINE e == IF c \in body[m].likes
                    THEN [kind |-> "live", id |-> m]
                    ELSE [kind |-> "reactions", id |-> m, likes |-> body'[m].likes]
  <2>1. Published(e) /\ UNCHANGED <<log, from>> /\ mapped' = mapped \cup {m}
    BY <1>1, <1>8 DEF AddReaction
  <2>2. body' \in [Msgs -> Bodies]
    BY <1>2, <1>8, BodiesClosed DEF AddReaction
  <2>3. body'[m].likes \in SUBSET Clients
    BY <2>2, BodiesClosed
  <2>4. e \in ToPublish
    BY <2>3, EventsAre
  <2> HIDE DEF e
  <2> QED
    BY <2>1, <2>2, <2>4
<1>9. CASE RemoveReaction(c, m)
  <2> DEFINE e == [kind |-> "reactions", id |-> m, likes |-> body'[m].likes]
  <2>1. Published(e) /\ UNCHANGED <<log, from, mapped>>
    BY <1>1, <1>9 DEF RemoveReaction
  <2>2. body' \in [Msgs -> Bodies]
    BY <1>2, <1>9, BodiesClosed DEF RemoveReaction
  <2>3. body'[m].likes \in SUBSET Clients
    BY <2>2, BodiesClosed
  <2>4. e \in ToPublish
    BY <2>3, EventsAre
  <2> HIDE DEF e
  <2> QED
    BY <2>1, <2>2, <2>4
<1> QED
  BY <1>3, <1>4, <1>5, <1>6, <1>7, <1>8, <1>9 DEF Change

LEMMA DeliverIs ==
  ASSUME TypeOK, NEW c \in Clients, Deliver(c)
  PROVE  /\ c \notin gone /\ TabOf[c] \in Tabs
         /\ queue[c] \in Seq(Events) /\ Len(queue[c]) \in Nat \ {0} /\ queue[c][1] \in Events
         /\ queue' \in [Clients -> Seq(Events)]
         /\ Len(queue'[c]) = Len(queue[c]) - 1
         /\ \A i \in 1..Len(queue'[c]) : queue'[c][i] = queue[c][i + 1]
         /\ \A d \in Clients \ {c} : queue'[d] = queue[d]
         /\ open \subseteq open' /\ open' \subseteq Tabs
         /\ queue[c][1].kind = "room_joined" => TabOf[c] \in open'
         /\ view' \in [Tabs -> Stores]
         /\ \A t \in Tabs : DOMAIN view[t] \subseteq DOMAIN view'[t]
         /\ \A t \in Tabs \ {TabOf[c]} : view'[t] = view[t]
         /\ TabOf[c] \notin open => view' = view
         /\ TabOf[c] \in open => view'[TabOf[c]] = Applied(view[TabOf[c]], queue[c][1])
<1> DEFINE e == queue[c][1]
           t == TabOf[c]
<1>1. queue[c] \in Seq(Events) /\ queue[c] # <<>> /\ c \notin gone
  BY DEF Deliver, TypeOK, ReplicasOK
<1>2. t \in Tabs /\ view[t] \in Stores
  BY RoomLogAssumption DEF TypeOK, ReplicasOK
<1>3. /\ Head(queue[c]) = e /\ e \in Events
      /\ Tail(queue[c]) \in Seq(Events) /\ Len(Tail(queue[c])) = Len(queue[c]) - 1
      /\ Len(queue[c]) \in Nat \ {0}
      /\ \A i \in 1..(Len(queue[c]) - 1) : Tail(queue[c])[i] = queue[c][i + 1]
  BY <1>1, TailIs
<1>4. queue' = [queue EXCEPT ![c] = Tail(@)]
  BY DEF Deliver
<1>5. /\ queue' \in [Clients -> Seq(Events)]
      /\ Len(queue'[c]) = Len(queue[c]) - 1
      /\ \A i \in 1..Len(queue'[c]) : queue'[c][i] = queue[c][i + 1]
      /\ \A d \in Clients \ {c} : queue'[d] = queue[d]
  BY <1>3, <1>4 DEF TypeOK, ReplicasOK
<1>6. /\ open' = IF e.kind = "room_joined" THEN open \cup {t} ELSE open
      /\ view' = IF t \in open THEN [view EXCEPT ![t] = Applied(view[t], e)] ELSE view
  BY <1>3 DEF Deliver
<1>7. Applied(view[t], e) \in Stores /\ DOMAIN view[t] \subseteq DOMAIN Applied(view[t], e)
  BY <1>2, <1>3, AppliedIs
<1> HIDE DEF e, t
<1>8. open \subseteq open' /\ open' \subseteq Tabs /\ (e.kind = "room_joined" => t \in open')
  BY <1>2, <1>6 DEF TypeOK, ReplicasOK
<1>9. /\ view' \in [Tabs -> Stores]
      /\ \A u \in Tabs : DOMAIN view[u] \subseteq DOMAIN view'[u]
      /\ \A u \in Tabs \ {t} : view'[u] = view[u]
      /\ t \notin open => view' = view
      /\ t \in open => view'[t] = Applied(view[t], e)
  BY <1>2, <1>6, <1>7 DEF TypeOK, ReplicasOK
<1> QED
  BY <1>1, <1>2, <1>3, <1>5, <1>8, <1>9 DEF e, t

\* What a handler publishes once the event is encoded.
LEMMA EncodedIs ==
  ASSUME TypeOK, NEW c \in Clients, StartBroadcast(c)
  PROVE  /\ out' = [out EXCEPT ![c] = out'[c]] /\ out'[c] \in Broadcasts /\ out[c] \in ToPublish
         /\ out[c] \in Broadcasts => out'[c] = out[c]
         /\ out[c] \notin Broadcasts => out[c].kind = "live" /\ out'[c].kind = "reactions"
<1>1. out \in [Clients -> ToPublish \cup {NoEvent}] /\ out[c] # NoEvent
  BY DEF TypeOK, HandlersOK, StartBroadcast
<1>2. out[c] \in ToPublish
  BY <1>1
<1> DEFINE e == [kind |-> "reactions", id |-> out[c].id, likes |-> body[out[c].id].likes]
<1>3. out' = [out EXCEPT ![c] = IF out[c].kind = "live" THEN e ELSE out[c]]
  BY DEF StartBroadcast
<1>4. CASE out[c].kind = "live"
  <2>1. out[c].id \in Msgs /\ out[c] \notin Broadcasts
    BY <1>2, <1>4, ToPublishIs, BroadcastIs
  <2>2. body[out[c].id].likes \in SUBSET Clients
    BY <2>1, BodiesClosed DEF TypeOK, LogOK
  <2>3. e \in Broadcasts /\ e.kind = "reactions"
    BY <2>1, <2>2, EventsAre
  <2> HIDE DEF e
  <2> QED
    BY <1>1, <1>2, <1>3, <1>4, <2>1, <2>3
<1>5. CASE out[c].kind # "live"
  <2>1. out[c] \in Broadcasts
    BY <1>2, <1>5, ToPublishIs
  <2> HIDE DEF e
  <2> QED
    BY <1>1, <1>2, <1>3, <1>5, <2>1
<1> QED
  BY <1>4, <1>5

\* The history as it is sent.
Encoded(c) ==
  [kind |-> "history",
   messages |-> [m \in DOMAIN snap[c] |->
                   IF m \in mapped
                     THEN [snap[c][m] EXCEPT !.likes = body[m].likes]
                     ELSE snap[c][m]]]

LEMMA EncodedHistory ==
  ASSUME TypeOK, NEW c \in Clients
  PROVE  /\ Encoded(c) \in Events
         /\ \A m \in DOMAIN snap[c] : Brings(Encoded(c), m)
<1> DEFINE h == [m \in DOMAIN snap[c] |->
                   IF m \in mapped
                     THEN [snap[c][m] EXCEPT !.likes = body[m].likes]
                     ELSE snap[c][m]]
<1>1. snap[c] \in Stores /\ body \in [Msgs -> Bodies]
  BY DEF TypeOK, HandlersOK, LogOK
<1>2. DOMAIN snap[c] \in SUBSET Msgs /\ \A m \in DOMAIN snap[c] : snap[c][m] \in Bodies
  BY <1>1, StoreIs
<1>3. \A m \in DOMAIN snap[c] : [snap[c][m] EXCEPT !.likes = body[m].likes] \in Bodies
  BY <1>1, <1>2, BodiesClosed
<1>4. h \in [DOMAIN snap[c] -> Bodies]
  BY <1>2, <1>3
<1>5. h \in Stores /\ DOMAIN h = DOMAIN snap[c]
  BY <1>2, <1>4, AStore
<1>6. Encoded(c) = [kind |-> "history", messages |-> h]
  BY DEF Encoded
<1> HIDE DEF h
<1> QED
  BY <1>5, <1>6, EventsAre DEF Brings

-----------------------------------------------------------------------------
(* Types *)

LEMMA InitTypeOK == Init => TypeOK
<1> SUFFICES ASSUME Init PROVE TypeOK
  OBVIOUS
<1> USE RoomLogAssumption DEF Init
<1>1. Len(Sent) <= MaxMessages /\ Sent \in Seq(Msgs) /\ IsInjective(Sent)
  OBVIOUS
<1>2. LogOK
  <2>1. body \in [Msgs -> Bodies]
    BY FreshIsBody
  <2>2. from \in [Msgs -> Clients \cup {None}]
    OBVIOUS
  <2> QED
    BY <1>1, <2>1, <2>2 DEF LogOK
<1>3. HandlersOK
  BY NothingIsStore DEF HandlersOK, PCs
<1>4. ReplicasOK
  <2>1. [m \in ToSet(Sent) |-> Fresh] \in Stores
    BY <1>1, ToSetIs, AStore, FreshIsBody
  <2>2. view \in [Tabs -> Stores]
    BY <2>1, NothingIsStore
  <2>3. queue \in [Clients -> Seq(Events)] /\ \A c \in Clients : Len(queue[c]) <= Cap
    OBVIOUS
  <2> QED
    BY <2>2, <2>3 DEF ReplicasOK
<1> QED
  BY <1>2, <1>3, <1>4 DEF TypeOK

LEMMA StepTypeOK == TypeOK /\ [Next]_vars => TypeOK'
<1> SUFFICES ASSUME TypeOK, [Next]_vars PROVE TypeOK'
  OBVIOUS
<1> USE RoomLogAssumption DEF TypeOK
<1>1. ASSUME NEW c \in Clients, NEW m \in Msgs, Change(c, m) PROVE TypeOK'
  <2>1. PICK e \in ToPublish : out' = [out EXCEPT ![c] = e]
    BY <1>1, ChangePublishes
  <2>2. /\ Ready(c) /\ ops \in 0..(MaxOps - 1) /\ ops' = ops + 1
        /\ pc' = [pc EXCEPT ![c] = "publish"]
        /\ UNCHANGED <<members, todo, snap, netVars, gone, tabVars>>
        /\ log' \in Seq(Msgs) /\ IsInjective(log') /\ Len(log') <= MaxMessages
        /\ body' \in [Msgs -> Bodies]
        /\ from' \in [Msgs -> Clients \cup {None}]
        /\ mapped' \subseteq Msgs
    BY <1>1, ChangePublishes
  <2>3. e # NoEvent
    BY <2>1, NoEventIs
  <2>4. LogOK'
    BY <2>2 DEF LogOK
  <2>5. HandlersOK'
    BY <2>1, <2>2, <2>3 DEF HandlersOK, PCs
  <2>6. ReplicasOK'
    BY <2>2 DEF ReplicasOK, netVars, tabVars
  <2> QED
    BY <2>4, <2>5, <2>6
<1>2. ASSUME NEW c \in Clients, StartBroadcast(c) PROVE TypeOK'
  <2>1. /\ out' = [out EXCEPT ![c] = out'[c]] /\ out'[c] \in Broadcasts
        /\ out'[c] \in ToPublish /\ out'[c] # NoEvent
    BY <1>2, EncodedIs, EventsAre, NoEventIs
  <2>2. HandlersOK'
    BY <1>2, <2>1 DEF StartBroadcast, HandlersOK, PCs, LogOK
  <2> QED
    BY <1>2, <2>2 DEF StartBroadcast, LogOK, ReplicasOK, serverVars, netVars, tabVars
<1>3. ASSUME NEW c \in Clients, NEW d \in Clients, Send(c, d) PROVE TypeOK'
  <2>1. out[c] \in Events /\ Enqueue(d, out[c])
    BY <1>3, EventsAre DEF Send, HandlersOK
  <2>2. ReplicasOK'
    BY <1>3, <2>1, EnqueueIs DEF Send, ReplicasOK, tabVars
  <2>3. HandlersOK'
    BY <1>3 DEF Send, HandlersOK, PCs
  <2> QED
    BY <1>3, <2>2, <2>3 DEF Send, LogOK, serverVars
<1>4. ASSUME NEW c \in Clients, JoinRoom(c) PROVE TypeOK'
  <2>1. HandlersOK'
    BY <1>4 DEF JoinRoom, HandlersOK, PCs
  <2> QED
    BY <1>4, <2>1 DEF JoinRoom, LogOK, ReplicasOK, serverVars, netVars, tabVars
<1>5. ASSUME NEW c \in Clients, SendJoined(c) PROVE TypeOK'
  <2>1. ReplicasOK'
    BY <1>5, EnqueueIs, EventsAre DEF SendJoined, ReplicasOK, tabVars
  <2>2. HandlersOK'
    BY <1>5 DEF SendJoined, HandlersOK, PCs
  <2> QED
    BY <1>5, <2>1, <2>2 DEF SendJoined, LogOK, serverVars
<1>6. ASSUME NEW c \in Clients, GetHistory(c) PROVE TypeOK'
  <2>1. [m \in ToSet(log) |-> body[m]] \in Stores
    <3>1. ToSet(log) \in SUBSET Msgs
      BY ToSetIs DEF LogOK
    <3>2. [m \in ToSet(log) |-> body[m]] \in [ToSet(log) -> Bodies]
      BY <3>1 DEF LogOK
    <3> QED
      BY <3>1, <3>2, AStore
  <2>2. HandlersOK'
    BY <1>6, <2>1 DEF GetHistory, HandlersOK, PCs
  <2> QED
    BY <1>6, <2>2 DEF GetHistory, LogOK, ReplicasOK, serverVars, netVars, tabVars
<1>7. ASSUME NEW c \in Clients, SendHistory(c) PROVE TypeOK'
  <2>1. Enqueue(c, Encoded(c))
    BY <1>7 DEF SendHistory, Encoded
  <2>2. ReplicasOK'
    BY <1>7, <2>1, EnqueueIs, EncodedHistory DEF SendHistory, ReplicasOK, tabVars
  <2>3. HandlersOK'
    BY <1>7, NothingIsStore DEF SendHistory, HandlersOK, PCs
  <2> QED
    BY <1>7, <2>2, <2>3 DEF SendHistory, LogOK, serverVars
<1>8. ASSUME NEW c \in Clients, Disconnect(c) PROVE TypeOK'
  <2>1. ReplicasOK'
    BY <1>8 DEF Disconnect, ReplicasOK, tabVars
  <2> QED
    BY <1>8, <2>1 DEF Disconnect, LogOK, HandlersOK, serverVars, taskVars
<1>9. ASSUME NEW c \in Clients, RemoveMember(c) PROVE TypeOK'
  BY <1>9 DEF RemoveMember, LogOK, HandlersOK, ReplicasOK, serverVars, taskVars, netVars, tabVars
<1>10. ASSUME NEW c \in Clients, Deliver(c) PROVE TypeOK'
  <2>1. \A d \in Clients : Len(queue'[d]) <= Cap
    BY <1>10, DeliverIs DEF ReplicasOK
  <2>2. ReplicasOK'
    BY <1>10, <2>1, DeliverIs DEF Deliver, ReplicasOK
  <2> QED
    BY <1>10, <2>2 DEF Deliver, LogOK, HandlersOK, serverVars, taskVars
<1>11. CASE UNCHANGED vars
  BY <1>11 DEF vars, serverVars, taskVars, netVars, tabVars, LogOK, HandlersOK, ReplicasOK
<1> QED
  BY <1>1, <1>2, <1>3, <1>4, <1>5, <1>6, <1>7, <1>8, <1>9, <1>10, <1>11 DEF Next, Handler

-----------------------------------------------------------------------------
(* Membership *)

LEMMA InitMembership == Init => Membership
BY RoomLogAssumption DEF Init, Membership

LEMMA StepMembership == TypeOK /\ Membership /\ [Next]_vars => Membership'
<1> SUFFICES ASSUME TypeOK, Membership, [Next]_vars PROVE Membership'
  OBVIOUS
<1> USE DEF Membership
<1>1. ASSUME NEW c \in Clients, NEW m \in Msgs, Change(c, m) PROVE Membership'
  <2>1. /\ pc[c] = "idle" /\ pc' = [pc EXCEPT ![c] = "publish"]
        /\ UNCHANGED <<members, todo, gone, queue>>
    BY <1>1, ChangePublishes DEF Ready, netVars
  <2> QED
    BY <2>1 DEF TypeOK, HandlersOK
<1>2. ASSUME NEW c \in Clients, StartBroadcast(c) PROVE Membership'
  BY <1>2 DEF StartBroadcast, netVars, TypeOK, HandlersOK, LogOK
<1>3. ASSUME NEW c \in Clients, NEW d \in Clients, Send(c, d) PROVE Membership'
  <2>1. out[c] \in Events /\ Enqueue(d, out[c]) /\ d \in members
    BY <1>3, EventsAre DEF Send, TypeOK, HandlersOK
  <2>2. /\ \A b \in Clients \ {d} : queue'[b] = queue[b]
        /\ d \in gone => queue'[d] = queue[d]
    BY <2>1, EnqueueIs DEF TypeOK
  <2>3. \A b \in Clients : b \notin members \ gone => queue'[b] = <<>>
    BY <2>1, <2>2
  <2>4. UNCHANGED <<members, gone>>
    BY <1>3 DEF Send
  <2>5. /\ pc' \in [Clients -> PCs]
        /\ \A b \in Clients \ {c} : pc'[b] = pc[b] /\ todo'[b] = todo[b]
        /\ todo'[c] = todo[c] \ {d} /\ pc[c] = "sending"
        /\ pc'[c] = IF todo[c] = {d} THEN "idle" ELSE "sending"
    BY <1>3 DEF Send, TypeOK, HandlersOK, PCs
  <2> QED
    BY <2>3, <2>4, <2>5
<1>4. ASSUME NEW c \in Clients, JoinRoom(c) PROVE Membership'
  BY <1>4 DEF JoinRoom, netVars, Unlocked, TypeOK, HandlersOK, LogOK
<1>5. ASSUME NEW c \in Clients, SendJoined(c) PROVE Membership'
  <2>1. \A b \in Clients : b \notin members \ gone => queue'[b] = queue[b]
    BY <1>5, EnqueueIs, EventsAre DEF SendJoined, TypeOK
  <2> QED
    BY <1>5, <2>1 DEF SendJoined, TypeOK, HandlersOK
<1>6. ASSUME NEW c \in Clients, GetHistory(c) PROVE Membership'
  BY <1>6 DEF GetHistory, netVars, TypeOK, HandlersOK
<1>7. ASSUME NEW c \in Clients, SendHistory(c) PROVE Membership'
  <2>1. Enqueue(c, Encoded(c))
    BY <1>7 DEF SendHistory, Encoded
  <2>2. \A b \in Clients : b \notin members \ gone => queue'[b] = queue[b]
    BY <1>7, <2>1, EnqueueIs, EncodedHistory DEF SendHistory, TypeOK
  <2> QED
    BY <1>7, <2>2 DEF SendHistory, TypeOK, HandlersOK
<1>8. ASSUME NEW c \in Clients, Disconnect(c) PROVE Membership'
  BY <1>8 DEF Disconnect, taskVars, TypeOK, ReplicasOK
<1>9. ASSUME NEW c \in Clients, RemoveMember(c) PROVE Membership'
  BY <1>9 DEF RemoveMember, taskVars, netVars, Unlocked
<1>10. ASSUME NEW c \in Clients, Deliver(c) PROVE Membership'
  <2>1. \A b \in Clients : b \notin members \ gone => queue'[b] = queue[b]
    <3>1. queue[c] # <<>> /\ \A b \in Clients \ {c} : queue'[b] = queue[b]
      BY <1>10, DeliverIs DEF Deliver
    <3> QED
      BY <3>1
  <2> QED
    BY <1>10, <2>1 DEF Deliver, taskVars
<1>11. CASE UNCHANGED vars
  BY <1>11 DEF vars, taskVars, netVars
<1> QED
  BY <1>1, <1>2, <1>3, <1>4, <1>5, <1>6, <1>7, <1>8, <1>9, <1>10, <1>11 DEF Next, Handler

-----------------------------------------------------------------------------
(* No message is lost *)

\* The channel of r is as it was, or has one event more.
Lengthened(r) ==
  /\ queue'[r] \in Seq(Events)
  /\ Len(queue'[r]) \in {Len(queue[r]), Len(queue[r]) + 1}
  /\ \A i \in 1..Len(queue[r]) : queue'[r][i] = queue[r][i]

LEMMA LengthenedBy ==
  ASSUME TypeOK, NEW r \in Clients, NEW e \in Events,
         queue'[r] \in {queue[r], Append(queue[r], e)}
  PROVE  Lengthened(r)
<1>1. queue[r] \in Seq(Events) /\ Len(queue[r]) \in Nat
  BY DEF TypeOK, ReplicasOK
<1>2. /\ Append(queue[r], e) \in Seq(Events) /\ Len(Append(queue[r], e)) = Len(queue[r]) + 1
      /\ \A i \in 1..Len(queue[r]) : Append(queue[r], e)[i] = queue[r][i]
  BY <1>1, AppendIs
<1> QED
  BY <1>1, <1>2 DEF Lengthened

LEMMA Unchanged ==
  ASSUME TypeOK, NEW r \in Clients, queue'[r] = queue[r]
  PROVE  Lengthened(r)
BY DEF TypeOK, ReplicasOK, Lengthened

LEMMA StillHeard ==
  ASSUME TypeOK, NEW r \in Clients, Lengthened(r), open \subseteq open'
  PROVE  /\ \A i \in 1..(Len(queue[r]) + 1) : Heard(r, i) => Heard(r, i)'
         /\ Heard(r, Len(queue[r]) + 1) => Heard(r, Len(queue[r]) + 1)'
<1>1. Len(queue[r]) \in Nat /\ Len(queue'[r]) \in Nat /\ Len(queue[r]) <= Len(queue'[r])
  BY DEF TypeOK, ReplicasOK, Lengthened
<1>2. ASSUME NEW i \in 1..(Len(queue[r]) + 1), NEW k \in 1..(Len(queue'[r]) + 1), i <= k,
             Heard(r, i)
      PROVE  Heard(r, k)'
  <2>1. CASE TabOf[r] \in open
    BY <2>1 DEF Heard
  <2>2. CASE \E j \in 1..(i - 1) : queue[r][j].kind = "room_joined"
    <3>1. PICK j \in 1..(i - 1) : queue[r][j].kind = "room_joined"
      BY <2>2
    <3>2. j \in 1..Len(queue[r]) /\ j \in 1..(k - 1)
      BY <1>1, <1>2
    <3>3. queue'[r][j].kind = "room_joined"
      BY <3>1, <3>2 DEF Lengthened
    <3> QED
      BY <3>2, <3>3 DEF Heard
  <2> QED
    BY <1>2, <2>1, <2>2 DEF Heard
<1> QED
  BY <1>1, <1>2

\* What is to come still is, if a handler that is about to send it stays so.
LEMMA StillComing ==
  ASSUME TypeOK, NEW r \in Clients, NEW m \in Msgs, Coming(r, m),
         Lengthened(r), open \subseteq open',
         DOMAIN view[TabOf[r]] \subseteq DOMAIN view'[TabOf[r]],
         pc[r] = "history" => pc'[r] = "history" /\ snap'[r] = snap[r],
         \A d \in Clients :
           Pending(d, r) /\ Brings(out[d], m) => Pending(d, r)' /\ Brings(out'[d], m)
  PROVE  Coming(r, m)'
<1>1. Len(queue[r]) \in Nat /\ Len(queue'[r]) \in Nat
  BY DEF TypeOK, ReplicasOK, Lengthened
<1>2. ASSUME NEW i \in 1..Len(queue[r]), Brings(queue[r][i], m), Heard(r, i)
      PROVE  i \in 1..Len(queue'[r]) /\ Brings(queue'[r][i], m) /\ Heard(r, i)'
  BY <1>1, <1>2, StillHeard DEF Lengthened
<1>3. \/ m \in DOMAIN view[TabOf[r]]
      \/ \E i \in 1..Len(queue[r]) : Brings(queue[r][i], m) /\ Heard(r, i)
      \/ pc[r] = "history" /\ m \in DOMAIN snap[r]
      \/ \E d \in Clients : Pending(d, r) /\ Brings(out[d], m)
  BY DEF Coming
<1>4. CASE \E i \in 1..Len(queue[r]) : Brings(queue[r][i], m) /\ Heard(r, i)
  BY <1>2, <1>4 DEF Coming
<1>5. CASE m \in DOMAIN view[TabOf[r]]
  BY <1>5 DEF Coming
<1>6. CASE pc[r] = "history" /\ m \in DOMAIN snap[r]
  BY <1>6 DEF Coming
<1>7. CASE \E d \in Clients : Pending(d, r) /\ Brings(out[d], m)
  BY <1>7 DEF Coming
<1> QED
  BY <1>3, <1>4, <1>5, <1>6, <1>7

\* The event that is added to the channel of a connection that was let in.
LEMMA LastIsHeard ==
  ASSUME TypeOK, NEW r \in Clients, NEW m \in Msgs, NEW e \in Events,
         queue'[r] = Append(queue[r], e), open \subseteq open',
         Heard(r, Len(queue[r]) + 1), Brings(e, m)
  PROVE  Coming(r, m)'
<1>1. queue[r] \in Seq(Events) /\ Len(queue[r]) \in Nat
  BY DEF TypeOK, ReplicasOK
<1>2. Len(queue'[r]) = Len(queue[r]) + 1 /\ queue'[r][Len(queue[r]) + 1] = e
  BY <1>1, AppendIs
<1>3. Lengthened(r)
  BY LengthenedBy
<1>4. PICK n \in 1..(Len(queue[r]) + 1) : n = Len(queue[r]) + 1
  BY <1>1
<1>5. Heard(r, n)'
  BY <1>3, <1>4, StillHeard
<1>6. n \in 1..Len(queue'[r]) /\ Brings(queue'[r][n], m)
  BY <1>1, <1>2, <1>4
<1> QED
  BY <1>5, <1>6 DEF Coming

LEMMA InitCovered == Init => Announced /\ Covered
<1> SUFFICES ASSUME Init PROVE Announced /\ Covered
  OBVIOUS
<1>1. \A c \in Served : c \in Early /\ TabOf[c] \in open /\ TabOf[c] \in Tabs
  BY RoomLogAssumption DEF Init, Served
<1>2. \A c \in Served, m \in ToSet(log) : m \in DOMAIN view[TabOf[c]]
  BY <1>1 DEF Init
<1> QED
  BY <1>1, <1>2 DEF Announced, Covered, Heard, Coming

\* What is to be shown of the connection r after a step.
Complete(r) ==
  /\ pc[r] # "joined" => Heard(r, Len(queue[r]) + 1)
  /\ pc[r] \notin {"joined", "snapshot"} => \A m \in ToSet(log) : Coming(r, m)

LEMMA CompleteIs == (\A r \in Served : Complete(r)) <=> Announced /\ Covered
BY DEF Complete, Announced, Covered

\* A step that changes neither the log nor who gets what of it, as far as
\* connection r is concerned.
LEMMA Undisturbed ==
  ASSUME TypeOK, TypeOK', NEW r \in Clients, Complete(r), Lengthened(r),
         log' = log, open \subseteq open',
         pc'[r] # "joined" => pc[r] # "joined",
         pc'[r] \notin {"joined", "snapshot"} => pc[r] \notin {"joined", "snapshot"},
         pc[r] = "history" => pc'[r] = "history" /\ snap'[r] = snap[r],
         DOMAIN view[TabOf[r]] \subseteq DOMAIN view'[TabOf[r]],
         \A m \in Msgs, d \in Clients :
           Pending(d, r) /\ Brings(out[d], m) => Pending(d, r)' /\ Brings(out'[d], m)
  PROVE  Complete(r)'
<1>1. pc'[r] # "joined" => Heard(r, Len(queue[r]) + 1)'
  BY StillHeard DEF Complete
<1>2. ASSUME pc'[r] \notin {"joined", "snapshot"}, NEW m \in ToSet(log)
      PROVE  Coming(r, m)'
  <2>1. m \in Msgs /\ Coming(r, m)
    BY <1>2, ToSetIs DEF Complete, TypeOK, LogOK
  <2> QED
    BY <2>1, StillComing
<1> QED
  BY <1>1, <1>2 DEF Complete

LEMMA StepCovered ==
  TypeOK /\ TypeOK' /\ Membership /\ Announced /\ Covered /\ [Next]_vars
    => Announced' /\ Covered'
<1> SUFFICES ASSUME TypeOK, TypeOK', Membership, Announced, Covered, [Next]_vars
             PROVE  Announced' /\ Covered'
  OBVIOUS
<1>0. \A r \in Served : r \in Clients /\ Complete(r)
  BY CompleteIs DEF Served, TypeOK, LogOK
<1> SUFFICES ASSUME NEW r \in Clients, r \in Served' PROVE Complete(r)'
  BY DEF Complete, Announced, Covered, Served, TypeOK, LogOK
<1>1. ASSUME NEW c \in Clients, NEW m \in Msgs, Change(c, m) PROVE Complete(r)'
  <2>1. /\ pc[c] = "idle" /\ pc' = [pc EXCEPT ![c] = "publish"]
        /\ UNCHANGED <<members, gone, dropped, queue, open, view, todo, snap>>
        /\ ToSet(log') \subseteq ToSet(log) \cup {m}
    BY <1>1, ChangePublishes DEF Ready, netVars, tabVars
  <2>2. PICK e \in ToPublish : /\ out' = [out EXCEPT ![c] = e]
                               /\ m \in ToSet(log') \ ToSet(log) => Brings(e, m)
    BY <1>1, ChangePublishes
  <2>3. r \in Served
    BY <2>1 DEF Served
  <2>4. Complete(r) /\ Lengthened(r)
    BY <1>0, <2>1, <2>3, Unchanged
  <2>5. pc'[r] # "joined" => Heard(r, Len(queue[r]) + 1)'
    BY <2>1, <2>4 DEF Complete, Heard, TypeOK, HandlersOK
  <2>6. \A d \in Clients \ {c} : pc'[d] = pc[d] /\ out'[d] = out[d] /\ todo'[d] = todo[d]
    BY <2>1, <2>2 DEF TypeOK, HandlersOK
  <2>7. pc'[c] = "publish" /\ out'[c] = e
    BY <2>1, <2>2 DEF TypeOK, HandlersOK
  <2>8. ~Pending(c, r) /\ Pending(c, r)'
    BY <2>1, <2>7 DEF Pending
  <2>9. ASSUME pc'[r] \notin {"joined", "snapshot"}, NEW n \in ToSet(log')
        PROVE  Coming(r, n)'
    <3>1. CASE n \in ToSet(log)
      <4>1. n \in Msgs /\ Coming(r, n)
        BY <2>1, <2>4, <2>6, <2>9, <3>1, ToSetIs DEF Complete, TypeOK, LogOK
      <4>2. \A d \in Clients :
              Pending(d, r) /\ Brings(out[d], n) => Pending(d, r)' /\ Brings(out'[d], n)
        BY <2>6, <2>8 DEF Pending
      <4>3. pc[r] = "history" => pc'[r] = "history" /\ snap'[r] = snap[r]
        BY <2>1, <2>6
      <4> QED
        BY <2>1, <2>4, <4>1, <4>2, <4>3, StillComing
    <3>2. CASE n \notin ToSet(log)
      BY <2>1, <2>2, <2>7, <2>8, <2>9, <3>2 DEF Coming
    <3> QED
      BY <3>1, <3>2
  <2> QED
    BY <2>5, <2>9 DEF Complete
<1>2. ASSUME NEW c \in Clients, StartBroadcast(c) PROVE Complete(r)'
  <2>1. /\ UNCHANGED <<log, members, gone, dropped, queue, open, view, snap>>
        /\ pc[c] = "publish" /\ pc' = [pc EXCEPT ![c] = "sending"]
        /\ todo' = [todo EXCEPT ![c] = members]
    BY <1>2 DEF StartBroadcast, serverVars, netVars, tabVars
  <2>2. r \in Served /\ Complete(r) /\ Lengthened(r) /\ r \in members
    BY <1>0, <2>1, Unchanged DEF Served
  <2>3. \A d \in Clients \ {c} : pc'[d] = pc[d] /\ out'[d] = out[d] /\ todo'[d] = todo[d]
    BY <1>2, <2>1, EncodedIs DEF TypeOK, HandlersOK
  <2>4. Pending(c, r)'
    BY <2>1, <2>2 DEF Pending, TypeOK, HandlersOK
  <2>5. \A m : Brings(out[c], m) => Brings(out'[c], m)
    <3>1. CASE out[c] \in Broadcasts
      BY <1>2, <3>1, EncodedIs
    <3>2. CASE out[c] \notin Broadcasts
      BY <1>2, <3>2, EncodedIs DEF Brings
    <3> QED
      BY <3>1, <3>2
  <2>6. \A m \in Msgs, d \in Clients :
          Pending(d, r) /\ Brings(out[d], m) => Pending(d, r)' /\ Brings(out'[d], m)
    BY <2>3, <2>4, <2>5 DEF Pending
  <2>7. pc'[r] \in {pc[r], "sending"} /\ (r = c => pc[r] = "publish") /\ (r # c => pc'[r] = pc[r])
    BY <2>1, <2>3 DEF TypeOK, HandlersOK
  <2> QED
    BY <2>1, <2>2, <2>6, <2>7, Undisturbed
<1>3. ASSUME NEW c \in Clients, NEW d \in Clients, Send(c, d) PROVE Complete(r)'
  <2>1. /\ UNCHANGED <<log, members, gone, open, view, snap>>
        /\ pc[c] = "sending" /\ d \in todo[c] /\ out[c] \in Events /\ Enqueue(d, out[c])
    BY <1>3, EventsAre DEF Send, serverVars, tabVars, TypeOK, HandlersOK
  <2>2. /\ dropped \subseteq dropped'
        /\ r # d => queue'[r] = queue[r]
        /\ r = d => queue'[r] = Append(queue[r], out[c])
    BY <2>1, EnqueueIs DEF Served, TypeOK
  <2>3. r \in Served /\ Complete(r) /\ Lengthened(r)
    BY <1>0, <2>1, <2>2, LengthenedBy DEF Served
  <2>4. /\ \A b \in Clients \ {c} : pc'[b] = pc[b] /\ out'[b] = out[b] /\ todo'[b] = todo[b]
        /\ todo'[c] = todo[c] \ {d}
        /\ pc'[c] \in {"idle", "sending"}
        /\ r # d /\ r \in todo[c] => pc'[c] = "sending" /\ out'[c] = out[c]
    BY <1>3 DEF Send, TypeOK, HandlersOK
  <2>5. /\ pc'[r] # "joined" => pc[r] # "joined"
        /\ pc'[r] \notin {"joined", "snapshot"} => pc[r] \notin {"joined", "snapshot"}
        /\ pc[r] = "history" => pc'[r] = "history" /\ snap'[r] = snap[r]
    BY <2>1, <2>4
  <2>6. ASSUME NEW m \in Msgs, NEW b \in Clients, Pending(b, r), Brings(out[b], m),
               b # c \/ r # d
        PROVE  Pending(b, r)' /\ Brings(out'[b], m)
    BY <2>1, <2>4, <2>6 DEF Pending
  <2>7. CASE r # d
    BY <2>1, <2>3, <2>5, <2>6, <2>7, Undisturbed
  <2>8. CASE r = d
    <3>1. pc'[r] # "joined" => Heard(r, Len(queue[r]) + 1)'
      BY <2>1, <2>3, <2>5, StillHeard DEF Complete
    <3>2. ASSUME pc'[r] \notin {"joined", "snapshot"}, NEW m \in ToSet(log')
          PROVE  Coming(r, m)'
      <4>1. m \in Msgs /\ Coming(r, m) /\ Heard(r, Len(queue[r]) + 1)
        BY <2>1, <2>3, <2>5, <3>2, ToSetIs DEF Complete, TypeOK, LogOK
      <4>2. CASE Brings(out[c], m)
        BY <2>1, <2>2, <2>8, <4>1, <4>2, LastIsHeard
      <4>3. CASE ~Brings(out[c], m)
        <5>1. \A b \in Clients :
                Pending(b, r) /\ Brings(out[b], m) => Pending(b, r)' /\ Brings(out'[b], m)
          BY <2>6, <4>1, <4>3
        <5> QED
          BY <2>1, <2>3, <2>5, <4>1, <5>1, StillComing
      <4> QED
        BY <4>2, <4>3
    <3> QED
      BY <3>1, <3>2 DEF Complete
  <2> QED
    BY <2>7, <2>8
<1>4. ASSUME NEW c \in Clients, JoinRoom(c) PROVE Complete(r)'
  <2>1. /\ UNCHANGED <<log, gone, dropped, queue, open, view, out, todo, snap>>
        /\ pc[c] = "idle" /\ pc' = [pc EXCEPT ![c] = "joined"]
        /\ members' = members \cup {c}
    BY <1>4 DEF JoinRoom, serverVars, netVars, tabVars
  <2>2. \A d \in Clients \ {c} : pc'[d] = pc[d]
    BY <2>1 DEF TypeOK, HandlersOK
  <2>3. CASE r = c
    BY <2>1, <2>3 DEF Complete, TypeOK, HandlersOK
  <2>4. CASE r # c
    <3>1. Complete(r) /\ Lengthened(r)
      BY <1>0, <2>1, <2>4, Unchanged DEF Served
    <3>2. \A m \in Msgs, d \in Clients :
            Pending(d, r) /\ Brings(out[d], m) => Pending(d, r)' /\ Brings(out'[d], m)
      BY <2>1, <2>2 DEF Pending
    <3> QED
      BY <2>1, <2>2, <2>4, <3>1, <3>2, Undisturbed
  <2> QED
    BY <2>3, <2>4
<1>5. ASSUME NEW c \in Clients, SendJoined(c) PROVE Complete(r)'
  <2> DEFINE e == [kind |-> "room_joined"]
  <2>1. /\ UNCHANGED <<log, members, gone, open, view, out, todo, snap>>
        /\ pc[c] = "joined" /\ pc' = [pc EXCEPT ![c] = "snapshot"]
        /\ Enqueue(c, e) /\ e \in Events /\ e.kind = "room_joined"
    BY <1>5, EventsAre DEF SendJoined, serverVars, tabVars
  <2> HIDE DEF e
  <2>2. /\ dropped \subseteq dropped'
        /\ r # c => queue'[r] = queue[r]
        /\ r = c => queue'[r] = Append(queue[r], e)
    BY <2>1, EnqueueIs DEF Served, TypeOK
  <2>3. r \in Served /\ Complete(r) /\ Lengthened(r)
    BY <1>0, <2>1, <2>2, LengthenedBy DEF Served
  <2>4. \A d \in Clients \ {c} : pc'[d] = pc[d]
    BY <2>1 DEF TypeOK, HandlersOK
  <2>5. CASE r = c
    <3>1. queue[r] \in Seq(Events) /\ Len(queue[r]) \in Nat
      BY DEF TypeOK, ReplicasOK
    <3>2. Len(queue'[r]) = Len(queue[r]) + 1 /\ queue'[r][Len(queue[r]) + 1] = e
      BY <2>1, <2>2, <2>5, <3>1, AppendIs
    <3>3. Heard(r, Len(queue[r]) + 1)'
      BY <2>1, <3>1, <3>2 DEF Heard
    <3>4. pc'[r] = "snapshot"
      BY <2>1, <2>5 DEF TypeOK, HandlersOK
    <3> QED
      BY <3>3, <3>4 DEF Complete
  <2>6. CASE r # c
    <3>1. \A m \in Msgs, d \in Clients :
            Pending(d, r) /\ Brings(out[d], m) => Pending(d, r)' /\ Brings(out'[d], m)
      BY <2>1, <2>4 DEF Pending
    <3> QED
      BY <2>1, <2>3, <2>4, <2>6, <3>1, Undisturbed
  <2> QED
    BY <2>5, <2>6
<1>6. ASSUME NEW c \in Clients, GetHistory(c) PROVE Complete(r)'
  <2>1. /\ UNCHANGED <<log, members, gone, dropped, queue, open, view, out, todo>>
        /\ pc[c] = "snapshot" /\ pc' = [pc EXCEPT ![c] = "history"]
        /\ snap' = [snap EXCEPT ![c] = [m \in ToSet(log) |-> body[m]]]
    BY <1>6 DEF GetHistory, serverVars, netVars, tabVars
  <2>2. Complete(r) /\ Lengthened(r)
    BY <1>0, <2>1, Unchanged DEF Served
  <2>3. \A d \in Clients \ {c} : pc'[d] = pc[d] /\ snap'[d] = snap[d]
    BY <2>1 DEF TypeOK, HandlersOK
  <2>4. CASE r = c
    <3>1. Heard(r, Len(queue[r]) + 1)'
      BY <2>1, <2>2, <2>4 DEF Complete, Heard
    <3>2. pc'[r] = "history" /\ DOMAIN snap'[r] = ToSet(log)
      BY <2>1, <2>4 DEF TypeOK, HandlersOK
    <3>3. \A m \in ToSet(log') : Coming(r, m)'
      BY <2>1, <3>2 DEF Coming
    <3> QED
      BY <3>1, <3>3 DEF Complete
  <2>5. CASE r # c
    <3>1. \A m \in Msgs, d \in Clients :
            Pending(d, r) /\ Brings(out[d], m) => Pending(d, r)' /\ Brings(out'[d], m)
      BY <2>1, <2>3 DEF Pending
    <3> QED
      BY <2>1, <2>2, <2>3, <2>5, <3>1, Undisturbed
  <2> QED
    BY <2>4, <2>5
<1>7. ASSUME NEW c \in Clients, SendHistory(c) PROVE Complete(r)'
  <2>1. /\ UNCHANGED <<log, members, gone, open, view, out, todo>>
        /\ pc[c] = "history" /\ pc' = [pc EXCEPT ![c] = "idle"]
        /\ snap' = [snap EXCEPT ![c] = Nothing]
        /\ Enqueue(c, Encoded(c)) /\ Encoded(c) \in Events
    BY <1>7, EncodedHistory DEF SendHistory, Encoded, serverVars, tabVars
  <2>2. /\ dropped \subseteq dropped'
        /\ r # c => queue'[r] = queue[r]
        /\ r = c => queue'[r] = Append(queue[r], Encoded(c))
    BY <2>1, EnqueueIs DEF Served, TypeOK
  <2>3. r \in Served /\ Complete(r) /\ Lengthened(r)
    BY <1>0, <2>1, <2>2, LengthenedBy DEF Served
  <2>4. \A d \in Clients \ {c} : pc'[d] = pc[d] /\ snap'[d] = snap[d]
    BY <2>1 DEF TypeOK, HandlersOK
  <2>5. \A m \in Msgs, d \in Clients :
          Pending(d, r) /\ Brings(out[d], m) => Pending(d, r)' /\ Brings(out'[d], m)
    BY <2>1, <2>4 DEF Pending
  <2>6. CASE r = c
    <3>1. Heard(r, Len(queue[r]) + 1) /\ Heard(r, Len(queue[r]) + 1)'
      BY <2>1, <2>3, <2>6, StillHeard DEF Complete
    <3>2. ASSUME NEW m \in ToSet(log') PROVE Coming(r, m)'
      <4>1. m \in Msgs /\ Coming(r, m)
        BY <2>1, <2>3, <2>6, ToSetIs DEF Complete, TypeOK, LogOK
      <4>2. CASE m \in DOMAIN snap[r]
        BY <2>1, <2>2, <2>6, <3>1, <4>1, <4>2, EncodedHistory, LastIsHeard
      <4>3. CASE m \notin DOMAIN snap[r]
        <5>1. \/ m \in DOMAIN view[TabOf[r]]
              \/ \E j \in 1..Len(queue[r]) : Brings(queue[r][j], m) /\ Heard(r, j)
              \/ \E d \in Clients : Pending(d, r) /\ Brings(out[d], m)
          BY <4>1, <4>3 DEF Coming
        <5>2. ASSUME NEW j \in 1..Len(queue[r]), Brings(queue[r][j], m), Heard(r, j)
              PROVE  j \in 1..Len(queue'[r]) /\ Brings(queue'[r][j], m) /\ Heard(r, j)'
          <6>1. Len(queue[r]) \in Nat /\ j \in 1..(Len(queue[r]) + 1)
            BY DEF TypeOK, ReplicasOK
          <6> QED
            BY <2>1, <2>3, <5>2, <6>1, StillHeard DEF Lengthened
        <5>3. CASE m \in DOMAIN view[TabOf[r]]
          BY <2>1, <5>3 DEF Coming
        <5>4. CASE \E j \in 1..Len(queue[r]) : Brings(queue[r][j], m) /\ Heard(r, j)
          BY <5>2, <5>4 DEF Coming
        <5>5. CASE \E d \in Clients : Pending(d, r) /\ Brings(out[d], m)
          BY <2>5, <4>1, <5>5 DEF Coming
        <5> QED
          BY <5>1, <5>3, <5>4, <5>5
      <4> QED
        BY <4>2, <4>3
    <3> QED
      BY <3>1, <3>2 DEF Complete
  <2>7. CASE r # c
    BY <2>1, <2>3, <2>4, <2>5, <2>7, Undisturbed
  <2> QED
    BY <2>6, <2>7
<1>8. ASSUME NEW c \in Clients, Disconnect(c) PROVE Complete(r)'
  <2>1. /\ UNCHANGED <<log, members, dropped, open, view, pc, out, todo, snap>>
        /\ gone' = gone \cup {c} /\ queue' = [queue EXCEPT ![c] = <<>>]
    BY <1>8 DEF Disconnect, serverVars, taskVars, tabVars
  <2>2. r # c /\ r \in Served
    BY <2>1 DEF Served
  <2>3. Complete(r) /\ Lengthened(r)
    BY <1>0, <2>1, <2>2, Unchanged DEF TypeOK, ReplicasOK
  <2>4. \A m \in Msgs, d \in Clients :
          Pending(d, r) /\ Brings(out[d], m) => Pending(d, r)' /\ Brings(out'[d], m)
    BY <2>1 DEF Pending
  <2> QED
    BY <2>1, <2>3, <2>4, Undisturbed
<1>9. ASSUME NEW c \in Clients, RemoveMember(c) PROVE Complete(r)'
  <2>1. /\ UNCHANGED <<log, gone, dropped, queue, open, view, pc, out, todo, snap>>
        /\ members' = members \ {c}
    BY <1>9 DEF RemoveMember, serverVars, taskVars, netVars, tabVars
  <2>2. Complete(r) /\ Lengthened(r)
    BY <1>0, <2>1, Unchanged DEF Served
  <2>3. \A m \in Msgs, d \in Clients :
          Pending(d, r) /\ Brings(out[d], m) => Pending(d, r)' /\ Brings(out'[d], m)
    BY <2>1 DEF Pending
  <2> QED
    BY <2>1, <2>2, <2>3, Undisturbed
<1>10. ASSUME NEW c \in Clients, Deliver(c) PROVE Complete(r)'
  <2>1. UNCHANGED <<log, members, dropped, gone, pc, out, todo, snap>>
    BY <1>10 DEF Deliver, serverVars, taskVars
  <2>2. r \in Served /\ Complete(r)
    BY <1>0, <2>1 DEF Served
  <2>3. TabOf[r] \in Tabs /\ open \subseteq open'
    BY <1>10, DeliverIs, RoomLogAssumption
  <2>4. DOMAIN view[TabOf[r]] \subseteq DOMAIN view'[TabOf[r]]
    BY <1>10, <2>3, DeliverIs
  <2>5. \A m \in Msgs, d \in Clients :
          Pending(d, r) /\ Brings(out[d], m) => Pending(d, r)' /\ Brings(out'[d], m)
    BY <2>1 DEF Pending
  <2>6. CASE r # c
    <3>1. Lengthened(r)
      BY <1>10, <2>6, DeliverIs, Unchanged
    <3> QED
      BY <2>1, <2>2, <2>3, <2>4, <2>5, <3>1, Undisturbed
  <2>7. CASE r = c
    <3>1. /\ Len(queue[r]) \in Nat \ {0} /\ queue[r][1] \in Events
          /\ Len(queue'[r]) = Len(queue[r]) - 1
          /\ \A i \in 1..Len(queue'[r]) : queue'[r][i] = queue[r][i + 1]
          /\ queue[r][1].kind = "room_joined" => TabOf[r] \in open'
          /\ TabOf[r] \in open => view'[TabOf[r]] = Applied(view[TabOf[r]], queue[r][1])
      BY <1>10, <2>7, DeliverIs
    <3>2. ASSUME NEW i \in 1..Len(queue[r]), Heard(r, i + 1) PROVE Heard(r, i)'
      <4>1. CASE TabOf[r] \in open
        BY <2>3, <4>1 DEF Heard
      <4>2. CASE TabOf[r] \notin open
        <5>1. PICK j \in 1..i : queue[r][j].kind = "room_joined"
          BY <3>1, <3>2, <4>2 DEF Heard
        <5>2. CASE j = 1
          BY <3>1, <5>1, <5>2 DEF Heard
        <5>3. CASE j # 1
          <6>1. j - 1 \in 1..(i - 1) /\ j - 1 \in 1..Len(queue'[r])
            BY <3>1, <5>3
          <6>2. queue'[r][j - 1] = queue[r][j]
            BY <3>1, <6>1
          <6> QED
            BY <5>1, <6>1, <6>2 DEF Heard
        <5> QED
          BY <5>2, <5>3
      <4> QED
        BY <4>1, <4>2
    <3>3. pc'[r] # "joined" => Heard(r, Len(queue[r]) + 1)'
      <4>1. PICK n \in 1..Len(queue[r]) : n = Len(queue[r]) /\ n = Len(queue'[r]) + 1
        BY <3>1
      <4>2. pc'[r] # "joined" => Heard(r, n)'
        BY <2>1, <2>2, <3>2, <4>1 DEF Complete
      <4> QED
        BY <4>1, <4>2
    <3>4. ASSUME pc'[r] \notin {"joined", "snapshot"}, NEW m \in ToSet(log')
          PROVE  Coming(r, m)'
      <4>1. m \in Msgs /\ Coming(r, m)
        BY <2>1, <2>2, <3>4, ToSetIs DEF Complete, TypeOK, LogOK
      <4>2. CASE m \in DOMAIN view[TabOf[r]] \/ (pc[r] = "history" /\ m \in DOMAIN snap[r])
        BY <2>1, <2>4, <4>2 DEF Coming
      <4>3. CASE \E d \in Clients : Pending(d, r) /\ Brings(out[d], m)
        BY <2>5, <4>1, <4>3 DEF Coming
      <4>4. CASE \E i \in 1..Len(queue[r]) : Brings(queue[r][i], m) /\ Heard(r, i)
        <5>1. PICK i \in 1..Len(queue[r]) : Brings(queue[r][i], m) /\ Heard(r, i)
          BY <4>4
        <5>2. CASE i = 1
          <6>1. TabOf[r] \in open
            BY <5>1, <5>2 DEF Heard
          <6>2. m \in DOMAIN view'[TabOf[r]]
            BY <2>3, <3>1, <5>1, <5>2, <6>1, AppliedIs DEF TypeOK, ReplicasOK
          <6> QED
            BY <6>2 DEF Coming
        <5>3. CASE i # 1
          <6>1. PICK k \in 1..Len(queue[r]) : k + 1 = i
            BY <3>1, <5>3
          <6>2. Heard(r, k)' /\ k \in 1..Len(queue'[r]) /\ Brings(queue'[r][k], m)
            BY <3>1, <3>2, <5>1, <6>1
          <6> QED
            BY <6>2 DEF Coming
        <5> QED
          BY <5>2, <5>3
      <4> QED
        BY <4>1, <4>2, <4>3, <4>4 DEF Coming
    <3> QED
      BY <3>3, <3>4 DEF Complete
  <2> QED
    BY <2>6, <2>7
<1>11. CASE UNCHANGED vars
  <2>1. UNCHANGED <<log, members, gone, dropped, queue, open, view, pc, out, todo, snap>>
    BY <1>11 DEF vars, serverVars, taskVars, netVars, tabVars
  <2>2. Complete(r) /\ Lengthened(r)
    BY <1>0, <2>1, Unchanged DEF Served
  <2>3. \A m \in Msgs, d \in Clients :
          Pending(d, r) /\ Brings(out[d], m) => Pending(d, r)' /\ Brings(out'[d], m)
    BY <2>1 DEF Pending
  <2> QED
    BY <2>1, <2>2, <2>3, Undisturbed
<1> QED
  BY <1>1, <1>2, <1>3, <1>4, <1>5, <1>6, <1>7, <1>8, <1>9, <1>10, <1>11 DEF Next, Handler

-----------------------------------------------------------------------------
(* The last to arrive is right *)

\* What the handler of c does to the text of m, and what it will say of it in e.
Told(c, m, e) ==
  /\ \A n : Tells(e, n) => n = m
  /\ \A n \in Msgs \ {m} : body'[n] = body[n] /\ from'[n] = from[n]
  /\ from[m] # None => from'[m] = from[m]
  /\ m \in Relayed => from'[m] = None
  /\ Tells(e, m) => TextOf(e) = body'[m].text /\ (m \in Relayed \/ from'[m] = c)
  /\ ~Tells(e, m) => from'[m] = from[m] /\ body'[m].text = body[m].text
  /\ from'[m] = None => body'[m].text = Fresh.text
  /\ body'[m].deleted <=> body'[m].text = 0
  /\ from[m] # None /\ body[m].deleted => body'[m].deleted
  /\ m \in ToSet(log') => m \in Relayed \/ from'[m] # None

LEMMA ChangeTells ==
  ASSUME TypeOK, Authors, NEW c \in Clients, NEW m \in Msgs, Change(c, m)
  PROVE  \E e \in ToPublish : out' = [out EXCEPT ![c] = e] /\ Told(c, m, e)
<1> USE RoomLogAssumption DEF Authors
<1>0. /\ body[m] \in Bodies /\ m \in DOMAIN body /\ m \in DOMAIN from
      /\ body \in [Msgs -> Bodies] /\ from \in [Msgs -> Clients \cup {None}]
      /\ body[m].deleted \in BOOLEAN
  BY BodiesClosed DEF TypeOK, LogOK
<1>1. ASSUME AddMessage(c, m), InLog(m)
      PROVE  \E e \in ToPublish : out' = [out EXCEPT ![c] = e] /\ Told(c, m, e)
  <2> DEFINE e == [kind |-> "message", id |-> m, body |-> Fresh]
  <2>1. out' = [out EXCEPT ![c] = e] /\ UNCHANGED <<log, body, from>>
    BY <1>1 DEF AddMessage, Publish
  <2>2. /\ e \in ToPublish /\ Tells(e, m) /\ TextOf(e) = Fresh.text
        /\ \A n : Tells(e, n) => n = m
    BY EventsAre DEF Tells, TextOf
  <2>3. m \in Relayed /\ from[m] = None /\ body[m].text = Fresh.text
    BY <1>1 DEF AddMessage, InLog
  <2> HIDE DEF e
  <2>4. Told(c, m, e)
    BY <2>1, <2>2, <2>3 DEF Told
  <2> QED
    BY <2>1, <2>2, <2>4
<1>2. ASSUME AddMessage(c, m), ~InLog(m)
      PROVE  \E e \in ToPublish : out' = [out EXCEPT ![c] = e] /\ Told(c, m, e)
  <2> DEFINE e == [kind |-> "message", id |-> m, body |-> Fresh]
  <2>1. /\ out' = [out EXCEPT ![c] = e] /\ body' = [body EXCEPT ![m] = Fresh]
        /\ from' = [from EXCEPT ![m] = IF m \in Relayed THEN None ELSE c]
        /\ from[m] = None
    BY <1>2 DEF AddMessage, Publish
  <2>2. /\ e \in ToPublish /\ Tells(e, m) /\ TextOf(e) = Fresh.text
        /\ \A n : Tells(e, n) => n = m
    BY EventsAre DEF Tells, TextOf
  <2>3. body'[m] = Fresh /\ (m \in Relayed => from'[m] = None) /\ (m \notin Relayed => from'[m] = c)
    BY <1>0, <2>1
  <2>4. \A n \in Msgs \ {m} : body'[n] = body[n] /\ from'[n] = from[n]
    BY <1>0, <2>1
  <2> HIDE DEF e
  <2>5. Told(c, m, e)
    BY <2>1, <2>2, <2>3, <2>4, FreshIsBody DEF Told
  <2> QED
    BY <2>1, <2>2, <2>5
<1>3. ASSUME EditMessage(c, m)
      PROVE  \E e \in ToPublish : out' = [out EXCEPT ![c] = e] /\ Told(c, m, e)
  <2> DEFINE e == [kind |-> "edited", id |-> m, text |-> ops + 2]
  <2>1. /\ out' = [out EXCEPT ![c] = e] /\ body' = [body EXCEPT ![m].text = ops + 2]
        /\ UNCHANGED <<log, from>> /\ from[m] = c /\ ~body[m].deleted
    BY <1>3 DEF EditMessage, Publish
  <2>2. ops + 2 \in Texts \ {0}
    BY <1>3 DEF EditMessage, Publish, TypeOK, LogOK, Texts
  <2>3. /\ e \in ToPublish /\ Tells(e, m) /\ TextOf(e) = ops + 2
        /\ \A n : Tells(e, n) => n = m
    BY <2>2, EventsAre DEF Tells, TextOf
  <2>4. body'[m].text = ops + 2 /\ ~body'[m].deleted
    BY <1>0, <2>1 DEF Bodies
  <2>5. \A n \in Msgs \ {m} : body'[n] = body[n]
    BY <1>0, <2>1
  <2> HIDE DEF e
  <2>6. Told(c, m, e)
    BY <2>1, <2>2, <2>3, <2>4, <2>5 DEF Told
  <2> QED
    BY <2>1, <2>3, <2>6
<1>4. ASSUME DeleteMessage(c, m)
      PROVE  \E e \in ToPublish : out' = [out EXCEPT ![c] = e] /\ Told(c, m, e)
  <2> DEFINE e == [kind |-> "deleted", id |-> m]
  <2>1. /\ out' = [out EXCEPT ![c] = e] /\ UNCHANGED <<log, from>> /\ from[m] = c
        /\ body' = [body EXCEPT ![m].deleted = TRUE, ![m].text = 0, ![m].pinned = FALSE]
    BY <1>4 DEF DeleteMessage, Publish
  <2>2. /\ e \in ToPublish /\ Tells(e, m) /\ TextOf(e) = 0
        /\ \A n : Tells(e, n) => n = m
    BY EventsAre DEF Tells, TextOf
  <2>3. body'[m].text = 0 /\ body'[m].deleted
    BY <1>0, <2>1 DEF Bodies
  <2>4. \A n \in Msgs \ {m} : body'[n] = body[n]
    BY <1>0, <2>1
  <2> HIDE DEF e
  <2>5. Told(c, m, e)
    BY <2>1, <2>2, <2>3, <2>4 DEF Told
  <2> QED
    BY <2>1, <2>2, <2>5
<1>5. ASSUME PinMessage(c, m) \/ UnpinMessage(c, m) \/ AddReaction(c, m) \/ RemoveReaction(c, m)
      PROVE  \E e \in ToPublish : out' = [out EXCEPT ![c] = e] /\ Told(c, m, e)
  <2>1. PICK e \in ToPublish : out' = [out EXCEPT ![c] = e]
    BY ChangePublishes
  <2>2. e.kind \in {"pinned", "unpinned", "live", "reactions"}
    <3>1. e = out'[c]
      BY <2>1 DEF TypeOK, HandlersOK
    <3> QED
      BY <1>5, <3>1 DEF PinMessage, UnpinMessage, AddReaction, RemoveReaction, Publish,
                        TypeOK, HandlersOK
  <2>3. ~\E n : Tells(e, n)
    BY <2>2 DEF Tells
  <2>4. /\ UNCHANGED <<log, from>>
        /\ body'[m].text = body[m].text /\ body'[m].deleted = body[m].deleted
        /\ \A n \in Msgs \ {m} : body'[n] = body[n]
    BY <1>0, <1>5 DEF PinMessage, UnpinMessage, AddReaction, RemoveReaction, Bodies
  <2>5. Told(c, m, e)
    BY <2>3, <2>4 DEF Told
  <2> QED
    BY <2>1, <2>5
<1> QED
  BY <1>1, <1>2, <1>3, <1>4, <1>5 DEF Change

LEMMA InitFaithful == Init => Authors /\ Faithful
<1> SUFFICES ASSUME Init PROVE Authors /\ Faithful
  OBVIOUS
<1> USE RoomLogAssumption, FreshIsBody DEF Init
<1>1. Authors
  <2>1. \A m \in Msgs : body[m].text = 1 /\ ~body[m].deleted
    OBVIOUS
  <2>2. \A m \in Relayed : m \in Msgs /\ from[m] = None
    OBVIOUS
  <2>3. \A m \in ToSet(log) : m \in Msgs /\ from[m] = Author
    BY ToSetIs
  <2> QED
    BY <2>1, <2>2, <2>3 DEF Authors
<1>2. ASSUME NEW c \in Early \cap Served PROVE Channel(c) /\ Replica(c)
  <2>1. c \in Clients /\ queue[c] = <<>> /\ TabOf[c] \in Tabs
    BY <1>2
  <2>2. view[TabOf[c]] = [m \in ToSet(Sent) |-> Fresh] \/ view[TabOf[c]] = Nothing
    BY <2>1
  <2>3. \A m \in DOMAIN view[TabOf[c]] : m \in ToSet(Sent) /\ view[TabOf[c]][m] = Fresh
    BY <2>2 DEF Nothing
  <2>4. \A m \in ToSet(Sent) : m \in Msgs /\ body[m] = Fresh /\ from[m] = Author
    BY ToSetIs
  <2> QED
    BY <2>1, <2>3, <2>4 DEF Channel, Replica
<1> QED
  BY <1>1, <1>2 DEF Faithful

\* A step that changes nothing of what r has or is sent.
LEMMA Untouched ==
  ASSUME NEW r, Channel(r), Replica(r), UNCHANGED <<body, from>>,
         queue'[r] = queue[r], view'[TabOf[r]] = view[TabOf[r]],
         \A m : Telling(r, m) => Telling(r, m)'
  PROVE  Channel(r)' /\ Replica(r)'
<1>1. \A e, m : Credible(e, m) => Credible(e, m)'
  BY DEF Credible
<1>2. Channel(r)'
  BY <1>1 DEF Channel
<1>3. Replica(r)'
  BY DEF Replica
<1> QED
  BY <1>2, <1>3

LEMMA AuthorsKept ==
  ASSUME Authors, UNCHANGED <<log, body, from>>,
         \A d \in Clients : \A m : Tells(out'[d], m) => out'[d] = out[d]
  PROVE  Authors'
BY DEF Authors

\* A connection that was there all the time has the room in its store.
LEMMA EarlyIsOpen ==
  ASSUME TypeOK, Membership, Announced, Faithful, NEW r \in Early \cap Served
  PROVE  TabOf[r] \in open
<1>1. pc[r] # "joined" /\ r \in Clients
  BY RoomLogAssumption DEF Membership
<1>2. Heard(r, Len(queue[r]) + 1) /\ Len(queue[r]) \in Nat
  BY <1>1 DEF Announced, TypeOK, ReplicasOK
<1>3. \A i \in 1..Len(queue[r]) : queue[r][i].kind # "room_joined"
  BY DEF Faithful, Channel
<1> QED
  BY <1>2, <1>3 DEF Heard

LEMMA StepFaithful ==
  TypeOK /\ TypeOK' /\ Membership /\ Announced /\ Authors /\ Faithful /\ [Next]_vars
    => Authors' /\ Faithful'
<1> SUFFICES ASSUME TypeOK, TypeOK', Membership, Announced, Authors, Faithful, [Next]_vars
             PROVE  Authors' /\ Faithful'
  OBVIOUS
<1>0. \A r \in Early \cap Served : r \in Clients /\ Channel(r) /\ Replica(r)
  BY RoomLogAssumption DEF Faithful
<1>1. ASSUME NEW c \in Clients, NEW m \in Msgs, Change(c, m) PROVE Authors' /\ Faithful'
  <2>1. PICK e \in ToPublish : out' = [out EXCEPT ![c] = e] /\ Told(c, m, e)
    BY <1>1, ChangeTells
  <2>2. /\ pc[c] = "idle" /\ pc' = [pc EXCEPT ![c] = "publish"]
        /\ UNCHANGED <<members, gone, dropped, queue, view, todo>>
        /\ ToSet(log') \subseteq ToSet(log) \cup {m}
    BY <1>1, ChangePublishes DEF Ready, netVars, tabVars
  <2>3. /\ \A d \in Clients \ {c} : pc'[d] = pc[d] /\ out'[d] = out[d]
        /\ pc'[c] = "publish" /\ out'[c] = e
    BY <2>1, <2>2 DEF TypeOK, HandlersOK
  <2>4. ASSUME NEW d \in Clients, NEW n \in Msgs, out'[d] # NoEvent, Tells(out'[d], n)
        PROVE  TextOf(out'[d]) = body'[n].text /\ (n \notin Relayed => from'[n] = d)
    <3>1. CASE d = c
      BY <2>1, <2>3, <2>4, <3>1 DEF Told
    <3>2. CASE d # c
      <4>1. TextOf(out[d]) = body[n].text /\ (n \notin Relayed => from[n] = d)
        BY <2>3, <2>4, <3>2 DEF Authors
      <4>2. CASE n # m
        BY <2>1, <2>3, <3>2, <4>1, <4>2 DEF Told
      <4>3. CASE n = m /\ ~Tells(e, m)
        BY <2>1, <2>3, <3>2, <4>1, <4>3 DEF Told
      <4>4. CASE n = m /\ Tells(e, m)
        <5>1. m \in Relayed
          BY <2>1, <3>2, <4>1, <4>4, RoomLogAssumption DEF Told
        <5>2. from[m] = None /\ from'[m] = None
          BY <2>1, <5>1 DEF Told, Authors
        <5>3. body[m].text = Fresh.text /\ body'[m].text = Fresh.text
          BY <2>1, <5>2 DEF Told, Authors
        <5> QED
          BY <2>3, <3>2, <4>1, <4>4, <5>1, <5>3
      <4> QED
        BY <4>2, <4>3, <4>4
    <3> QED
      BY <3>1, <3>2
  <2>5. Authors'
    <3>1. \A n \in Msgs : body'[n].deleted <=> body'[n].text = 0
      BY <2>1 DEF Told, Authors
    <3>2. \A n \in Relayed : from'[n] = None
      BY <2>1, RoomLogAssumption DEF Told, Authors
    <3>3. \A n \in Msgs : from'[n] = None => body'[n].text = Fresh.text
      BY <2>1 DEF Told, Authors
    <3>4. \A n \in ToSet(log') : n \in Relayed \/ from'[n] # None
      <4>1. \A n \in ToSet(log') : n = m \/ (n \in ToSet(log) /\ n \in Msgs)
        BY <2>2, ToSetIs DEF TypeOK, LogOK
      <4> QED
        BY <2>1, <4>1 DEF Told, Authors
    <3> QED
      BY <2>4, <3>1, <3>2, <3>3, <3>4 DEF Authors
  <2>6. ASSUME NEW r \in Early \cap Served' PROVE Channel(r)' /\ Replica(r)'
    <3>1. r \in Early \cap Served /\ r \in Clients /\ Channel(r) /\ Replica(r)
      BY <1>0, <2>2 DEF Served
    <3>2. queue'[r] = queue[r] /\ view'[TabOf[r]] = view[TabOf[r]]
      BY <2>2
    <3>3. \A n : Telling(r, n) => Telling(r, n)'
      BY <2>2, <2>3 DEF Telling, Pending
    <3>4. Tells(e, m) => Telling(r, m)'
      BY <2>3 DEF Telling, Pending
    <3>5. ASSUME NEW n \in Msgs, n \notin Relayed => from[n] # None
          PROVE  /\ n \notin Relayed => from'[n] # None
                 /\ n \notin Relayed /\ body[n].deleted => body'[n].deleted
                 /\ body'[n].text = body[n].text \/ Telling(r, n)'
      BY <2>1, <3>4, <3>5 DEF Told
    <3>6. \A n \in Relayed : ~body[n].deleted
      BY FreshIsBody, RoomLogAssumption DEF Authors
    <3>7. ASSUME NEW i \in 1..Len(queue[r]), NEW n \in Msgs, Tells(queue[r][i], n)
          PROVE  /\ Credible(queue[r][i], n)'
                 /\ \/ TextOf(queue[r][i]) = body'[n].text
                    \/ Telling(r, n)'
                    \/ \E j \in 1..Len(queue[r]) : i < j /\ Tells(queue[r][j], n)
      <4>1. /\ Credible(queue[r][i], n)
            /\ \/ TextOf(queue[r][i]) = body[n].text
               \/ Telling(r, n)
               \/ \E j \in 1..Len(queue[r]) : i < j /\ Tells(queue[r][j], n)
        BY <3>1, <3>7 DEF Channel
      <4>2. n \notin Relayed => from[n] # None
        BY <4>1 DEF Credible
      <4>3. /\ n \notin Relayed => from'[n] # None
            /\ n \notin Relayed /\ body[n].deleted => body'[n].deleted
            /\ body'[n].text = body[n].text \/ Telling(r, n)'
        BY <3>5, <4>2
      <4>4. queue[r][i].kind = "deleted" => body'[n].deleted
        BY <3>6, <4>1, <4>3 DEF Credible
      <4>5. Credible(queue[r][i], n)'
        BY <3>2, <4>1, <4>3, <4>4 DEF Credible
      <4> QED
        BY <3>3, <4>1, <4>3, <4>5
    <3>8. Channel(r)'
      BY <3>1, <3>2, <3>7 DEF Channel
    <3>9. Replica(r)'
      <4> SUFFICES ASSUME NEW n \in DOMAIN view[TabOf[r]]
                   PROVE  LET b == view[TabOf[r]][n] IN
                          /\ n \in Relayed => b.text = Fresh.text
                          /\ n \notin Relayed => from'[n] # None
                          /\ b.deleted => body'[n].deleted
                          /\ b.text = 0 => b.deleted
                          /\ \/ b.text = body'[n].text
                             \/ Telling(r, n)'
                             \/ \E j \in 1..Len(queue[r]) : Tells(queue[r][j], n)
        BY <3>2 DEF Replica
      <4>1. n \in Msgs
        BY <3>1, RoomLogAssumption, StoreIs DEF TypeOK, ReplicasOK
      <4> QED
        BY <3>1, <3>3, <3>5, <3>6, <4>1 DEF Replica
    <3> QED
      BY <3>8, <3>9
  <2> QED
    BY <2>5, <2>6 DEF Faithful
<1>2. ASSUME NEW c \in Clients, StartBroadcast(c) PROVE Authors' /\ Faithful'
  <2>1. /\ UNCHANGED <<log, body, from, members, gone, dropped, queue, view>>
        /\ pc[c] = "publish" /\ pc' = [pc EXCEPT ![c] = "sending"]
        /\ todo' = [todo EXCEPT ![c] = members]
    BY <1>2 DEF StartBroadcast, serverVars, netVars, tabVars
  <2>2. \A d \in Clients \ {c} : pc'[d] = pc[d] /\ out'[d] = out[d] /\ todo'[d] = todo[d]
    BY <1>2, <2>1, EncodedIs DEF TypeOK, HandlersOK
  <2>3. \A m : /\ Tells(out'[c], m) => out'[c] = out[c]
               /\ Tells(out[c], m) => Tells(out'[c], m)
    <3>1. CASE out[c] \in Broadcasts
      BY <1>2, <3>1, EncodedIs
    <3>2. CASE out[c] \notin Broadcasts
      BY <1>2, <3>2, EncodedIs DEF Tells
    <3> QED
      BY <3>1, <3>2
  <2>4. Authors'
    BY <2>1, <2>2, <2>3, AuthorsKept
  <2>5. ASSUME NEW r \in Early \cap Served' PROVE Channel(r)' /\ Replica(r)'
    <3>1. r \in Early \cap Served /\ Channel(r) /\ Replica(r) /\ r \in members
      BY <1>0, <2>1 DEF Served
    <3>2. Pending(c, r)'
      BY <2>1, <3>1 DEF Pending, TypeOK, HandlersOK
    <3>3. \A m : Telling(r, m) => Telling(r, m)'
      BY <2>2, <2>3, <3>2 DEF Telling, Pending
    <3> QED
      BY <2>1, <3>1, <3>3, Untouched
  <2> QED
    BY <2>4, <2>5 DEF Faithful
<1>3. ASSUME NEW c \in Clients, NEW d \in Clients, Send(c, d) PROVE Authors' /\ Faithful'
  <2>1. /\ UNCHANGED <<log, body, from, members, gone, view>>
        /\ pc[c] = "sending" /\ out[c] \in Broadcasts /\ out[c] \in Events /\ out[c] # NoEvent
        /\ Enqueue(d, out[c])
    BY <1>3, EventsAre DEF Send, serverVars, tabVars, TypeOK, HandlersOK
  <2>2. /\ \A b \in Clients \ {c} : pc'[b] = pc[b] /\ out'[b] = out[b] /\ todo'[b] = todo[b]
        /\ todo'[c] = todo[c] \ {d}
        /\ out'[c] \in {out[c], NoEvent}
        /\ todo[c] # {d} => pc'[c] = "sending" /\ out'[c] = out[c]
    BY <1>3 DEF Send, TypeOK, HandlersOK
  <2>3. \A b \in Clients : \A m : Tells(out'[b], m) => out'[b] = out[b]
    BY <2>2 DEF Tells, NoEvent
  <2>4. Authors'
    BY <2>1, <2>3, AuthorsKept
  <2>5. ASSUME NEW r \in Early \cap Served' PROVE Channel(r)' /\ Replica(r)'
    <3>1. /\ dropped \subseteq dropped'
          /\ r # d => queue'[r] = queue[r]
          /\ r = d => queue'[r] = Append(queue[r], out[c])
      BY <2>1, <2>5, EnqueueIs, RoomLogAssumption DEF Served, TypeOK
    <3>2. r \in Early \cap Served /\ r \in Clients /\ Channel(r) /\ Replica(r)
      BY <1>0, <2>1, <3>1 DEF Served
    <3>3. CASE r # d
      <4>1. \A b \in Clients : Pending(b, r) => Pending(b, r)' /\ out'[b] = out[b]
        BY <2>1, <2>2, <3>3 DEF Pending
      <4>2. \A m : Telling(r, m) => Telling(r, m)'
        BY <4>1 DEF Telling
      <4> QED
        BY <2>1, <3>1, <3>2, <3>3, <4>2, Untouched
    <3>4. CASE r = d
      <4> DEFINE l == Len(queue[r])
      <4>1. /\ queue[r] \in Seq(Events) /\ l \in Nat /\ Len(queue'[r]) = l + 1
            /\ \A i \in 1..l : queue'[r][i] = queue[r][i]
            /\ queue'[r][l + 1] = out[c]
        <5>1. queue[r] \in Seq(Events)
          BY <3>2 DEF TypeOK, ReplicasOK
        <5> QED
          BY <2>1, <3>1, <3>4, <5>1, AppendIs
      <4> HIDE DEF l
      <4> PICK e \in Broadcasts : e = out[c]
        BY <2>1
      <4>2. \A m : Telling(r, m) => Telling(r, m)' \/ Tells(e, m)
        BY <2>2, <4>1 DEF Telling, Pending
      <4>3. ASSUME NEW m \in Msgs, Tells(e, m)
            PROVE  Credible(e, m)' /\ TextOf(e) = body'[m].text
        <5>1. /\ TextOf(e) = body[m].text
              /\ m \notin Relayed => from[m] = c
              /\ m \in Relayed => body[m].text = Fresh.text
              /\ body[m].text = 0 => body[m].deleted
          BY <2>1, <4>3 DEF Authors
        <5>2. e.kind = "deleted" => TextOf(e) = 0
          BY DEF TextOf
        <5>3. /\ m \in Relayed => TextOf(e) = Fresh.text
              /\ m \notin Relayed => from[m] # None
              /\ e.kind = "deleted" => body[m].deleted
          BY <5>1, <5>2, RoomLogAssumption
        <5>4. UNCHANGED <<body, from>>
          BY <2>1
        <5> QED
          BY <5>1, <5>3, <5>4 DEF Credible
      <4>4. Channel(r)'
        <5>1. \A i \in 1..(l + 1) : queue'[r][i].kind \notin {"room_joined", "history"}
          <6>1. \A i \in 1..l : queue[r][i].kind \notin {"room_joined", "history"}
            BY <3>2 DEF Channel, l
          <6>2. e.kind \notin {"room_joined", "history"}
            BY BroadcastIs
          <6>3. \A i \in 1..(l + 1) : i \in 1..l \/ i = l + 1
            BY <4>1
          <6> QED
            BY <4>1, <6>1, <6>2, <6>3
        <5>2. ASSUME NEW i \in 1..(l + 1), NEW m \in Msgs, Tells(queue'[r][i], m)
              PROVE  /\ Credible(queue[r][i], m)'
                     /\ \/ TextOf(queue'[r][i]) = body'[m].text
                        \/ Telling(r, m)'
                        \/ \E j \in 1..(l + 1) : i < j /\ Tells(queue'[r][j], m)
          <6>1. CASE i = l + 1
            BY <4>1, <4>3, <5>2, <6>1
          <6>2. CASE i \in 1..l
            <7>1. /\ Credible(queue[r][i], m)
                  /\ \/ TextOf(queue[r][i]) = body[m].text
                     \/ Telling(r, m)
                     \/ \E j \in 1..l : i < j /\ Tells(queue[r][j], m)
              BY <3>2, <4>1, <5>2, <6>2 DEF Channel, l
            <7>2. Credible(queue[r][i], m)'
              BY <2>1, <4>1, <6>2, <7>1 DEF Credible
            <7>3. Telling(r, m) => Telling(r, m)' \/ Tells(queue'[r][l + 1], m)
              BY <4>1, <4>2
            <7> QED
              BY <2>1, <4>1, <6>2, <7>1, <7>2, <7>3
          <6> QED
            BY <4>1, <6>1, <6>2
        <5> QED
          BY <4>1, <5>1, <5>2 DEF Channel
      <4>5. Replica(r)'
        <5>1. ASSUME NEW m \in DOMAIN view[TabOf[r]], Telling(r, m)
              PROVE  Telling(r, m)' \/ \E j \in 1..(l + 1) : Tells(queue'[r][j], m)
          BY <4>1, <4>2, <5>1
        <5>2. \A m, j : j \in 1..l /\ Tells(queue[r][j], m) => j \in 1..(l + 1) /\ Tells(queue'[r][j], m)
          BY <4>1
        <5> QED
          BY <2>1, <3>2, <4>1, <5>1, <5>2 DEF Replica, l
      <4> QED
        BY <4>4, <4>5
    <3> QED
      BY <3>3, <3>4
  <2> QED
    BY <2>4, <2>5 DEF Faithful
<1>4. ASSUME NEW c \in Clients, JoinRoom(c) PROVE Authors' /\ Faithful'
  <2>1. /\ UNCHANGED <<log, body, from, gone, dropped, queue, view, out, todo>>
        /\ pc[c] = "idle" /\ pc' = [pc EXCEPT ![c] = "joined"]
        /\ members' = members \cup {c} /\ c \notin members \cup gone
    BY <1>4 DEF JoinRoom, serverVars, netVars, tabVars
  <2>2. c \notin Early
    BY <2>1 DEF Membership
  <2>3. ASSUME NEW r \in Early \cap Served' PROVE Channel(r)' /\ Replica(r)'
    <3>1. Channel(r) /\ Replica(r)
      BY <1>0, <2>1, <2>2 DEF Served
    <3>2. \A m : Telling(r, m) => Telling(r, m)'
      BY <2>1 DEF Telling, Pending, TypeOK, HandlersOK
    <3> QED
      BY <2>1, <3>1, <3>2, Untouched
  <2> QED
    BY <2>1, <2>3, AuthorsKept DEF Faithful
<1>5. ASSUME NEW c \in Clients, SendJoined(c) \/ SendHistory(c) PROVE Authors' /\ Faithful'
  <2>1. /\ UNCHANGED <<log, body, from, members, gone, view, out, todo>>
        /\ pc[c] \in {"joined", "history"} /\ pc' \in [Clients -> PCs]
        /\ \A d \in Clients \ {c} : pc'[d] = pc[d]
    BY <1>5 DEF SendJoined, SendHistory, serverVars, tabVars, TypeOK, HandlersOK
  <2>2. PICK e \in Events : Enqueue(c, e)
    BY <1>5, EventsAre, EncodedHistory DEF SendJoined, SendHistory, Encoded
  <2>3. dropped \subseteq dropped' /\ \A d \in Clients \ {c} : queue'[d] = queue[d]
    BY <2>2, EnqueueIs DEF TypeOK
  <2>4. c \notin Early
    BY <2>1 DEF Membership
  <2>5. ASSUME NEW r \in Early \cap Served' PROVE Channel(r)' /\ Replica(r)'
    <3>1. r # c /\ Channel(r) /\ Replica(r) /\ r \in Clients
      BY <1>0, <2>1, <2>3, <2>4 DEF Served
    <3>2. \A m : Telling(r, m) => Telling(r, m)'
      BY <2>1 DEF Telling, Pending
    <3> QED
      BY <2>1, <2>3, <3>1, <3>2, Untouched
  <2> QED
    BY <2>1, <2>5, AuthorsKept DEF Faithful
<1>6. ASSUME NEW c \in Clients, GetHistory(c) \/ Disconnect(c) \/ RemoveMember(c)
      PROVE  Authors' /\ Faithful'
  <2>1. /\ UNCHANGED <<log, body, from, dropped, view, out, todo>>
        /\ members' \subseteq members /\ gone \subseteq gone'
        /\ \A d \in Clients : d \notin gone' => queue'[d] = queue[d]
    BY <1>6 DEF GetHistory, Disconnect, RemoveMember, serverVars, taskVars, netVars, tabVars,
                TypeOK, ReplicasOK
  <2>2. \A d \in Clients : pc[d] \in {"publish", "sending"} => pc'[d] = pc[d]
    BY <1>6 DEF GetHistory, Disconnect, RemoveMember, taskVars, TypeOK, HandlersOK
  <2>3. ASSUME NEW r \in Early \cap Served' PROVE Channel(r)' /\ Replica(r)'
    <3>1. Channel(r) /\ Replica(r) /\ r \in Clients /\ r \notin gone'
      BY <1>0, <2>1 DEF Served
    <3>2. \A m : Telling(r, m) => Telling(r, m)'
      BY <2>1, <2>2 DEF Telling, Pending
    <3> QED
      BY <2>1, <3>1, <3>2, Untouched
  <2> QED
    BY <2>1, <2>3, AuthorsKept DEF Faithful
<1>7. ASSUME NEW c \in Clients, Deliver(c) PROVE Authors' /\ Faithful'
  <2>1. UNCHANGED <<log, body, from, members, dropped, gone, pc, out, todo>>
    BY <1>7 DEF Deliver, serverVars, taskVars
  <2>2. ASSUME NEW r \in Early \cap Served' PROVE Channel(r)' /\ Replica(r)'
    <3>1. r \in Early \cap Served /\ r \in Clients /\ Channel(r) /\ Replica(r) /\ TabOf[r] \in Tabs
      BY <1>0, <2>1, RoomLogAssumption DEF Served
    <3>2. \A m : Telling(r, m) => Telling(r, m)'
      BY <2>1 DEF Telling, Pending
    <3>3. CASE r # c
      <4>1. queue[c] # <<>>
        BY <1>7 DEF Deliver
      <4>2. TabOf[r] # TabOf[c]
        BY <3>1, <3>3, <4>1 DEF Membership, Served
      <4>3. queue'[r] = queue[r] /\ view'[TabOf[r]] = view[TabOf[r]]
        BY <1>7, <3>1, <3>3, <4>2, DeliverIs
      <4> QED
        BY <2>1, <3>1, <3>2, <4>3, Untouched
    <3>4. CASE r = c
      <4> PICK e \in Events : e = queue[r][1]
        BY <1>7, <3>4, DeliverIs
      <4>1. TabOf[r] \in open
        BY <3>1, EarlyIsOpen
      <4>2. /\ Len(queue[r]) \in Nat \ {0} /\ Len(queue'[r]) = Len(queue[r]) - 1
            /\ \A i \in 1..Len(queue'[r]) : queue'[r][i] = queue[r][i + 1]
            /\ view'[TabOf[r]] = Applied(view[TabOf[r]], e)
        BY <1>7, <3>4, <4>1, DeliverIs
      <4>3. e.kind \notin {"room_joined", "history"}
        BY <3>1, <4>2 DEF Channel
      <4>4. \A i \in 1..Len(queue[r]), m \in Msgs :
              Tells(queue[r][i], m) =>
                /\ Credible(queue[r][i], m)
                /\ \/ TextOf(queue[r][i]) = body[m].text
                   \/ Telling(r, m)
                   \/ \E j \in 1..Len(queue[r]) : i < j /\ Tells(queue[r][j], m)
        BY <3>1 DEF Channel
      <4>5. Channel(r)'
        <5>1. \A i \in 1..Len(queue'[r]) : queue'[r][i].kind \notin {"room_joined", "history"}
          BY <3>1, <4>2 DEF Channel
        <5>2. ASSUME NEW i \in 1..Len(queue'[r]), NEW m \in Msgs, Tells(queue'[r][i], m)
              PROVE  /\ Credible(queue[r][i], m)'
                     /\ \/ TextOf(queue'[r][i]) = body'[m].text
                        \/ Telling(r, m)'
                        \/ \E j \in 1..Len(queue'[r]) : i < j /\ Tells(queue'[r][j], m)
          <6>1. i + 1 \in 1..Len(queue[r]) /\ queue'[r][i] = queue[r][i + 1]
            BY <4>2
          <6>2. /\ Credible(queue[r][i + 1], m)
                /\ \/ TextOf(queue[r][i + 1]) = body[m].text
                   \/ Telling(r, m)
                   \/ \E j \in 1..Len(queue[r]) : i + 1 < j /\ Tells(queue[r][j], m)
            BY <4>4, <5>2, <6>1
          <6>3. Credible(queue[r][i], m)'
            BY <2>1, <6>1, <6>2 DEF Credible
          <6>4. ASSUME NEW j \in 1..Len(queue[r]), i + 1 < j, Tells(queue[r][j], m)
                PROVE  \E k \in 1..Len(queue'[r]) : i < k /\ Tells(queue'[r][k], m)
            <7>1. j - 1 \in 1..Len(queue'[r]) /\ i < j - 1 /\ queue'[r][j - 1] = queue[r][j]
              <8>1. j - 1 \in 1..Len(queue'[r]) /\ i < j - 1 /\ (j - 1) + 1 = j
                <9>1. j \in Nat /\ i \in Nat /\ j <= Len(queue[r]) /\ 1 <= i
                  BY <4>2, <6>4
                <9>2. Len(queue'[r]) = Len(queue[r]) - 1 /\ Len(queue[r]) \in Nat
                  BY <4>2
                <9>3. i + 1 < j
                  BY <6>4
                <9> QED
                  BY <9>1, <9>2, <9>3
              <8>2. queue'[r][j - 1] = queue[r][(j - 1) + 1]
                BY <4>2, <8>1
              <8> QED
                BY <8>1, <8>2
            <7> QED
              BY <6>4, <7>1
          <6> QED
            BY <2>1, <3>2, <6>1, <6>2, <6>3, <6>4
        <5> QED
          BY <5>1, <5>2 DEF Channel
      <4>6. Replica(r)'
        <5> DEFINE v == view[TabOf[r]]
                   w == view'[TabOf[r]]
        <5>1. v \in Stores /\ w = Applied(v, e)
          BY <3>1, <4>2 DEF TypeOK, ReplicasOK
        <5>2. \A m \in DOMAIN w :
                /\ Tells(e, m) => w[m].text = TextOf(e)
                /\ ~Tells(e, m) => m \in DOMAIN v /\ w[m].text = v[m].text
                /\ w[m].deleted <=> \/ m \in DOMAIN v /\ v[m].deleted
                                    \/ Tells(e, m) /\ e.kind = "deleted"
          BY <4>3, <5>1, AppliedTells
        <5>3. w \in Stores /\ DOMAIN w \subseteq Msgs
          BY <5>1, AppliedIs, StoreIs
        <5>4. \A m \in DOMAIN v :
                /\ m \in Relayed => v[m].text = Fresh.text
                /\ m \notin Relayed => from[m] # None
                /\ v[m].deleted => body[m].deleted
                /\ v[m].text = 0 => v[m].deleted
                /\ \/ v[m].text = body[m].text
                   \/ Telling(r, m)
                   \/ \E j \in 1..Len(queue[r]) : Tells(queue[r][j], m)
          BY <3>1 DEF Replica
        <5> HIDE DEF v, w
        <5>5. ASSUME NEW m \in DOMAIN w
              PROVE  /\ m \in Relayed => w[m].text = Fresh.text
                     /\ m \notin Relayed => from[m] # None
                     /\ w[m].deleted => body[m].deleted
                     /\ w[m].text = 0 => w[m].deleted
                     /\ \/ w[m].text = body[m].text
                        \/ Telling(r, m)
                        \/ \E j \in 1..Len(queue'[r]) : Tells(queue'[r][j], m)
          <6>1. ASSUME NEW j \in 1..Len(queue[r]), j # 1, Tells(queue[r][j], m)
                PROVE  \E k \in 1..Len(queue'[r]) : Tells(queue'[r][k], m)
            <7>1. j - 1 \in 1..Len(queue'[r]) /\ queue'[r][j - 1] = queue[r][j]
              BY <4>2, <6>1
            <7> QED
              BY <6>1, <7>1
          <6>2. CASE Tells(e, m)
            <7>1. 1 \in 1..Len(queue[r]) /\ m \in Msgs
              BY <4>2, <5>3
            <7>2. /\ Credible(e, m)
                  /\ \/ TextOf(e) = body[m].text
                     \/ Telling(r, m)
                     \/ \E j \in 1..Len(queue[r]) : 1 < j /\ Tells(queue[r][j], m)
              BY <4>4, <6>2, <7>1
            <7>3. TextOf(e) = 0 => e.kind = "deleted"
              BY <6>2, EventIs, FreshIsBody DEF Tells, TextOf
            <7>4. w[m].text = TextOf(e)
              BY <5>2, <6>2
            <7>5. w[m].deleted <=> (m \in DOMAIN v /\ v[m].deleted) \/ e.kind = "deleted"
              BY <5>2, <6>2
            <7>6. /\ m \in Relayed => w[m].text = Fresh.text
                  /\ m \notin Relayed => from[m] # None
              BY <7>2, <7>4 DEF Credible
            <7>7. w[m].deleted => body[m].deleted
              BY <5>4, <7>2, <7>5 DEF Credible
            <7>8. w[m].text = 0 => w[m].deleted
              BY <7>3, <7>4, <7>5
            <7>9. \/ w[m].text = body[m].text
                  \/ Telling(r, m)
                  \/ \E j \in 1..Len(queue'[r]) : Tells(queue'[r][j], m)
              BY <6>1, <7>2, <7>4
            <7> QED
              BY <7>6, <7>7, <7>8, <7>9, Zenon
          <6>3. CASE ~Tells(e, m)
            BY <5>2, <5>4, <6>1, <6>3
          <6> QED
            BY <6>2, <6>3
        <5> QED
          BY <2>1, <3>2, <5>5 DEF Replica, w
      <4> QED
        BY <4>5, <4>6
    <3> QED
      BY <3>3, <3>4
  <2> QED
    BY <2>1, <2>2, AuthorsKept DEF Faithful
<1>8. CASE UNCHANGED vars
  <2>1. UNCHANGED <<log, body, from, members, dropped, gone, pc, out, todo, queue, view>>
    BY <1>8 DEF vars, serverVars, taskVars, netVars, tabVars
  <2>2. Authors'
    BY <2>1, AuthorsKept
  <2>3. ASSUME NEW r \in Early \cap Served' PROVE Channel(r)' /\ Replica(r)'
    <3>1. Channel(r) /\ Replica(r)
      BY <1>0, <2>1 DEF Served
    <3>2. \A m : Telling(r, m) => Telling(r, m)'
      BY <2>1 DEF Telling, Pending
    <3> QED
      BY <2>1, <3>1, <3>2, Untouched
  <2> QED
    BY <2>2, <2>3 DEF Faithful
<1> QED
  BY <1>1, <1>2, <1>3, <1>4, <1>5, <1>6, <1>7, <1>8 DEF Next, Handler

-----------------------------------------------------------------------------
(* The theorems *)

LEMMA SpecLogInv == Spec => []LogInv
<1>1. Init => LogInv
  BY InitTypeOK, InitMembership, InitCovered, InitFaithful DEF LogInv
<1>2. LogInv /\ [Next]_vars => LogInv'
  BY StepTypeOK, StepMembership, StepCovered, StepFaithful DEF LogInv
<1> QED
  BY <1>1, <1>2, PTL DEF Spec

\* The log is never longer than maxMessages and holds an id once, and every
\* variable keeps its type (room.go:85-97).
THEOREM LogTypeCorrect == Spec => []TypeOK
<1>1. LogInv => TypeOK
  BY DEF LogInv
<1> QED
  BY <1>1, SpecLogInv, PTL

\* Nothing is lost on the way: once all is quiet, a connection that dropped nothing
\* shows what the log has, whenever it came and whatever broke before
\* (hub.go:190-208, 294-300, room.go:85-105, web/src/store/chatStore.ts:196-220).
THEOREM LogNoMessageLost == Spec => []NoMessageLost
<1>1. LogInv => NoMessageLost
  <2> SUFFICES ASSUME LogInv, NEW c \in Clients, UpToDate(c), NEW m \in ToSet(log)
               PROVE  m \in DOMAIN view[TabOf[c]]
    BY DEF NoMessageLost
  <2>1. c \in Served /\ queue[c] = <<>> /\ \A d \in Clients : pc[d] = "idle"
    BY DEF UpToDate, Served
  <2>2. Coming(c, m)
    BY <2>1 DEF LogInv, Covered
  <2> QED
    BY <2>1, <2>2 DEF Coming, Pending
<1> QED
  BY <1>1, SpecLogInv, PTL

\* Edits and deletions arrive in the order they were made: once all is quiet, a
\* connection that was there all the time shows the log's texts and deletions
\* (room.go:109-147, hub.go:835-870, web/src/store/chatStore.ts:230-254).
THEOREM LogContentConverges == Spec => []ContentConverges
<1>1. LogInv => ContentConverges
  <2> SUFFICES ASSUME LogInv, NEW c \in Early, UpToDate(c), NEW m \in ToSet(log),
                      m \in DOMAIN view[TabOf[c]]
               PROVE  /\ view[TabOf[c]][m].text = body[m].text
                      /\ view[TabOf[c]][m].deleted = body[m].deleted
    BY DEF ContentConverges
  <2> DEFINE b == view[TabOf[c]][m]
  <2>1. c \in Early \cap Served /\ queue[c] = <<>> /\ \A d \in Clients : pc[d] = "idle"
    BY DEF UpToDate, Served
  <2>2. ~Telling(c, m)
    BY <2>1 DEF Telling, Pending
  <2>3. /\ b.text = body[m].text
        /\ b.deleted => body[m].deleted
        /\ b.text = 0 => b.deleted
    BY <2>1, <2>2 DEF LogInv, Faithful, Replica
  <2>4. m \in Msgs /\ (body[m].deleted => body[m].text = 0)
    BY ToSetIs DEF LogInv, TypeOK, LogOK, Authors
  <2>5. view[TabOf[c]] \in Stores /\ b \in Bodies /\ body[m] \in Bodies
    BY <2>1, <2>4, RoomLogAssumption, StoreIs DEF LogInv, TypeOK, LogOK, ReplicasOK
  <2>6. b.deleted \in BOOLEAN /\ body[m].deleted \in BOOLEAN
    BY <2>5, BodiesClosed
  <2> QED
    BY <2>3, <2>4, <2>6
<1> QED
  BY <1>1, SpecLogInv, PTL

=============================================================================
