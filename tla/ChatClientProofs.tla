--------------------------- MODULE ChatClientProofs ---------------------------
(***************************************************************************)
(* Theorems about ChatClient for any rooms, direct messages and numbers of *)
(* connections, messages and answers.                                      *)
(***************************************************************************)
EXTENDS ChatClient, TLAPS, SequenceTheorems, FiniteSetTheorems

Messages == [id : Nat, sender : Nat, deleted : BOOLEAN]
Entries == [isDM : BOOLEAN, unread : Nat, messages : SUBSET Messages]

Notes ==
  [type : {"welcome"}, room : {None}, what : Nat]
  \cup [type : {"room_joined"}, room : Rooms, what : BOOLEAN]
  \cup [type : {"dm_opened"}, room : DMs, what : {TRUE}]
  \cup [type : {"room_history"}, room : Rooms, what : SUBSET Messages]
  \cup [type : {"message"}, room : Rooms, what : Messages]
  \cup [type : {"message_deleted"}, room : Rooms, what : Nat]

ServerTyped ==
  /\ down \in Seq(Notes) /\ member \subseteq Rooms
  /\ log \in [Rooms -> SUBSET Messages]
  /\ dmOwner \in [DMs -> 0 .. conn]
  /\ uncast \subseteq Rooms \X Nat

\* The types, but for the bound of the badges.
Typed ==
  /\ ws \in {"none", "connecting", "open", "closing"}
  /\ connected \in BOOLEAN /\ timer \in BOOLEAN /\ alive \in BOOLEAN
  /\ conn \in 0 .. MaxConns /\ posts \in 0 .. MaxPosts
  /\ alive => ws = "open" /\ connected
  /\ connected => ws \in {"open", "closing"} /\ conn > 0
  /\ timer => ws = "none"
  /\ down # <<>> => conn > 0
  /\ ServerTyped
  /\ userId \in 1 .. conn \cup {None} /\ named \in BOOLEAN
  /\ Shown \subseteq Rooms /\ rooms \in [Shown -> Entries]
  /\ \A r \in Shown : rooms[r].isDM = (r \in DMs)
  /\ activeRoomId \in Shown \cup {None}
  /\ contextStack \in {<<None>>} \cup {<<None, r>> : r \in Shown}
  /\ ~Mounted => composer = Empty
  /\ composer \in [text : Shown \cup {None}, replyTo : Nat \cup {None},
                   editing : Nat \cup {None}]
  /\ available \subseteq Public
  /\ submitted \subseteq [id : Nat, room : Shown, conn : 0 .. conn]
  /\ referred \subseteq Rooms \X Nat

\* A message of the log of r has the id and the sender of m.
Covered(r, m) == \E l \in log[r] : l.id = m.id /\ l.sender = m.sender

WillCover(r, m) == \E l \in log'[r] : l.id = m.id /\ l.sender = m.sender

SameIds(ms) == \A m \in ms, n \in ms : m.id = n.id => m = n

\* Ids are given once.
LogOK ==
  /\ \A r \in Rooms : SameIds(log[r]) /\ \A l \in log[r] : l.id \in 1 .. posts
  /\ \A x \in uncast : \E l \in log[x[1]] : l.id = x[2] /\ l.sender = 0

\* What is under way.
Elements(q) == {q[i] : i \in 1 .. Len(q)}
Sent == Elements(down)

Opens(n, r) == n.type \in {"room_joined", "dm_opened"} /\ n.room = r
Brings(n, r, id) ==
  /\ n.room = r
  /\ \/ n.type = "message" /\ n.what.id = id
     \/ n.type = "room_history" /\ \E m \in n.what : m.id = id

SentOK ==
  \A n \in Sent :
    /\ n.type = "welcome" => n.what = conn
    /\ n.type \in {"room_joined", "dm_opened"} => (n.what <=> n.room \in DMs)
    /\ n.type = "room_history" => SameIds(n.what) /\ \A m \in n.what : Covered(n.room, m)
    /\ n.type = "message" => Covered(n.room, n.what) /\ n.what.sender \in {0, conn}

\* A room is opened before anything about it arrives.
Announced ==
  \A i \in 1 .. Len(down) :
    \/ down[i].type \notin {"message", "room_history"}
    \/ down[i].room \in Shown
    \/ \E j \in 1 .. i - 1 : Opens(down[j], down[i].room)

\* The identity arrives first.
IdentityKnown ==
  alive \/ down # <<>> =>
    userId = conn \/ (down # <<>> /\ down[1].type = "welcome")

StoreOK ==
  \A r \in Shown :
    /\ SameIds(rooms[r].messages)
    /\ \A m \in rooms[r].messages : Covered(r, m)

\* Rooms of the browser are rooms of its connection, but for direct messages of
\* an earlier identity.
Membership ==
  /\ \A d \in DMs :
       (d \in Shown \cup member \/ \E n \in Sent : n.room = d) => dmOwner[d] # 0
  /\ alive =>
       /\ \A r \in Rooms :
            (r \in Shown \/ \E n \in Sent : n.room = r)
               => r \in member \/ (r \in DMs /\ dmOwner[r] # conn)
       /\ \A r \in member : r \in Shown \/ \E n \in Sent : Opens(n, r)

\* What the log of a joined room has, the store has or will get.
Coming ==
  alive => \A r \in member : \A m \in log[r] :
             \/ <<r, m.id>> \in uncast
             \/ r \in Shown /\ \E c \in rooms[r].messages : c.id = m.id
             \/ \E n \in Sent : Brings(n, r, m.id)

Mail ==
  /\ LogOK /\ SentOK /\ Announced /\ IdentityKnown /\ StoreOK /\ Membership /\ Coming

ComposerOK ==
  \A x \in {composer.replyTo, composer.editing} \ {None} :
    activeRoomId # None /\ \E l \in log[activeRoomId] : l.id = x

\* Logs lose no message, and a direct message keeps the identity it is for.
LogsGrow ==
  /\ \A r \in Rooms : \A l \in log[r] :
       \E k \in log'[r] : k.id = l.id /\ k.sender = l.sender
  /\ \A d \in DMs : dmOwner'[d] = dmOwner[d] \/ dmOwner[d] = 0

PeerIds(ms) == {m.id : m \in {x \in ms : x.sender = 0}}

Badges ==
  \A r \in Shown :
    /\ rooms[r].unread <= Cardinality(PeerIds(rooms[r].messages))
    /\ r = activeRoomId => rooms[r].unread = 0

ChatInv ==
  /\ Typed /\ Mail /\ ComposerOK /\ RefersToItsRoom /\ Badges /\ SubmittedAccounted

-----------------------------------------------------------------------------
(* What the operators do *)

\* What each kind of message carries.
LEMMA NoteTypes ==
  ASSUME NEW n \in Notes
  PROVE  /\ n.type = "welcome" => n.what \in Nat /\ n.room = None
         /\ n.type # "welcome" => n.room \in Rooms
         /\ n.type \in {"room_joined", "dm_opened"} => n.what \in BOOLEAN
         /\ n.type = "room_history" => n.what \in SUBSET Messages
         /\ n.type = "message" => n.what \in Messages
         /\ n.type = "message_deleted" => n.what \in Nat
BY DEF Notes, Rooms

\* A direct message is opened by a message of its own kind.
LEMMA OpenedDM ==
  /\ \A n \in Notes : n.type = "dm_opened" => n.room \in DMs
  /\ \A d \in DMs : Note("dm_opened", d, TRUE) \in Notes
BY DEF Notes, Note

\* Merging keeps ids unique, takes all that comes and loses nothing.
LEMMA MergedProps ==
  ASSUME NEW old \in SUBSET Messages, NEW new \in SUBSET Messages,
         SameIds(old), SameIds(new)
  PROVE  /\ Merged(old, new) \in SUBSET Messages /\ SameIds(Merged(old, new))
         /\ \A m \in Merged(old, new) :
              \E k \in old \cup new : k.id = m.id /\ k.sender = m.sender
         /\ \A k \in new : \E m \in Merged(old, new) : m.id = k.id /\ m.sender = k.sender
         /\ \A k \in old : \E m \in Merged(old, new) : m.id = k.id
<1> DEFINE f(n) == [n EXCEPT !.deleted = @ \/ \E m \in old : m.id = n.id /\ m.deleted]
<1>1. \A n \in new : f(n) \in Messages /\ f(n).id = n.id /\ f(n).sender = n.sender
  BY DEF Messages
<1>2. Merged(old, new) = {f(n) : n \in new} \cup {m \in old : \A n \in new : n.id # m.id}
  BY DEF Merged
<1> HIDE DEF f
<1> QED
  BY <1>1, <1>2 DEF SameIds

Deleted(ms, id) == {[m EXCEPT !.deleted = @ \/ m.id = id] : m \in ms}

\* A deletion changes nothing but the flag.
LEMMA DeletedProps ==
  ASSUME NEW ms \in SUBSET Messages, NEW id
  PROVE  /\ Deleted(ms, id) \in SUBSET Messages
         /\ \A m \in Deleted(ms, id) : \E k \in ms : k.id = m.id /\ k.sender = m.sender
         /\ \A k \in ms : \E m \in Deleted(ms, id) : k.id = m.id /\ k.sender = m.sender
         /\ SameIds(ms) => SameIds(Deleted(ms, id))
<1> DEFINE f(m) == [m EXCEPT !.deleted = @ \/ m.id = id]
<1>1. \A m \in ms : f(m) \in Messages /\ f(m).id = m.id /\ f(m).sender = m.sender
  BY DEF Messages
<1>2. Deleted(ms, id) = {f(m) : m \in ms}
  BY DEF Deleted
<1> HIDE DEF f
<1> QED
  BY <1>1, <1>2 DEF SameIds

\* The first of what is under way is taken.
LEMMA Taken ==
  ASSUME NEW q \in Seq(Notes), q # <<>>
  PROVE  /\ Len(q) > 0 /\ Head(q) = q[1] /\ q[1] \in Notes
         /\ Tail(q) \in Seq(Notes) /\ Len(Tail(q)) = Len(q) - 1
         /\ \A i \in 1 .. Len(Tail(q)) : Tail(q)[i] = q[i + 1]
         /\ Elements(q) = {q[1]} \cup Elements(Tail(q))
<1>1. Len(q) \in Nat /\ Len(q) > 0 /\ Head(q) = q[1] /\ q[1] \in Notes
  BY EmptySeq, LenProperties
<1>2. /\ Tail(q) \in Seq(Notes) /\ Len(Tail(q)) = Len(q) - 1
      /\ \A i \in 1 .. Len(Tail(q)) : Tail(q)[i] = q[i + 1]
  BY HeadTailProperties
<1>3. \A i \in 1 .. Len(Tail(q)) : i + 1 \in 1 .. Len(q)
  BY <1>1, <1>2
<1>4. \A i \in 1 .. Len(q) : i = 1 \/ (i - 1 \in 1 .. Len(Tail(q)) /\ q[i] = Tail(q)[i - 1])
  BY <1>1, <1>2
<1>5. 1 \in 1 .. Len(q)
  BY <1>1
<1>6. q[1] \in Elements(q)
  BY <1>5 DEF Elements
<1>7. Elements(Tail(q)) \subseteq Elements(q)
  BY <1>2, <1>3 DEF Elements
<1>8. Elements(q) \subseteq {q[1]} \cup Elements(Tail(q))
  BY <1>4 DEF Elements
<1> QED
  BY <1>1, <1>2, <1>6, <1>7, <1>8

\* Something is sent.
LEMMA Added ==
  ASSUME NEW q \in Seq(Notes), NEW s \in Seq(Notes)
  PROVE  /\ (q \o s) \in Seq(Notes) /\ Len(q \o s) = Len(q) + Len(s)
         /\ \A i \in 1 .. Len(q) : (q \o s)[i] = q[i]
         /\ \A i \in 1 .. Len(s) : (q \o s)[Len(q) + i] = s[i]
         /\ Elements(q \o s) = Elements(q) \cup Elements(s)
<1>1. Len(q) \in Nat /\ Len(s) \in Nat
  BY LenProperties
<1>2. /\ (q \o s) \in Seq(Notes) /\ Len(q \o s) = Len(q) + Len(s)
      /\ \A i \in 1 .. Len(q) + Len(s) : (q \o s)[i] = IF i <= Len(q) THEN q[i] ELSE s[i - Len(q)]
  BY ConcatProperties
<1>3. \A i \in 1 .. Len(q) : i \in 1 .. Len(q \o s) /\ (q \o s)[i] = q[i]
  BY <1>1, <1>2
<1>4. \A i \in 1 .. Len(s) : Len(q) + i \in 1 .. Len(q \o s) /\ (q \o s)[Len(q) + i] = s[i]
  <2> SUFFICES ASSUME NEW i \in 1 .. Len(s)
               PROVE  Len(q) + i \in 1 .. Len(q \o s) /\ (q \o s)[Len(q) + i] = s[i]
    OBVIOUS
  <2>1. Len(q) + i \in 1 .. Len(q \o s) /\ ~(Len(q) + i <= Len(q)) /\ (Len(q) + i) - Len(q) = i
    BY <1>1, <1>2
  <2> QED
    BY <2>1, <1>2
<1>5. ASSUME NEW i \in 1 .. Len(q) + Len(s), i \notin 1 .. Len(q)
      PROVE  i - Len(q) \in 1 .. Len(s) /\ (q \o s)[i] = s[i - Len(q)]
  <2>1. ~(i <= Len(q)) /\ i - Len(q) \in 1 .. Len(s)
    BY <1>1, <1>5
  <2>2. (q \o s)[i] = IF i <= Len(q) THEN q[i] ELSE s[i - Len(q)]
    BY <1>2
  <2> QED
    BY <2>1, <2>2
<1>6. Elements(q) \subseteq Elements(q \o s)
  BY <1>3 DEF Elements
<1>7. Elements(s) \subseteq Elements(q \o s)
  BY <1>4 DEF Elements
<1>8. Elements(q \o s) \subseteq Elements(q) \cup Elements(s)
  <2> SUFFICES ASSUME NEW i \in 1 .. Len(q) + Len(s)
               PROVE  (q \o s)[i] \in Elements(q) \cup Elements(s)
    BY <1>2 DEF Elements
  <2>1. CASE i \in 1 .. Len(q)
    BY <2>1, <1>3 DEF Elements
  <2>2. CASE i - Len(q) \in 1 .. Len(s) /\ (q \o s)[i] = s[i - Len(q)]
    BY <2>2 DEF Elements
  <2> QED
    BY <2>1, <2>2, <1>5
<1> QED
  BY <1>2, <1>3, <1>4, <1>6, <1>7, <1>8

\* What is sent is typed.
LEMMA AnswerTyped ==
  ASSUME down \in Seq(Notes), NEW s \in Seq(Notes), Answer(s)
  PROVE  down' \in Seq(Notes)
BY Added DEF Answer

\* The notes of each kind, and sequences of a few.
LEMMA NoteKinds ==
  ASSUME NEW r \in Rooms
  PROVE  /\ \A b \in BOOLEAN : Note("room_joined", r, b) \in Notes
         /\ \A ms \in SUBSET Messages : Note("room_history", r, ms) \in Notes
         /\ \A m \in Messages : Note("message", r, m) \in Notes
         /\ \A k \in Nat : Note("message_deleted", r, k) \in Notes
BY DEF Notes, Note

\* The fields of a message of the server.
LEMMA Fields ==
  ASSUME NEW t, NEW r, NEW w
  PROVE  Note(t, r, w).type = t /\ Note(t, r, w).room = r /\ Note(t, r, w).what = w
BY DEF Note

\* One message.
LEMMA One ==
  ASSUME NEW x \in Notes
  PROVE  /\ <<x>> \in Seq(Notes) /\ Len(<<x>>) = 1 /\ <<x>>[1] = x
         /\ Elements(<<x>>) = {x}
<1>1. <<x>> \in Seq(Notes) /\ Len(<<x>>) = 1 /\ <<x>>[1] = x
  OBVIOUS
<1> QED
  BY <1>1 DEF Elements

\* Two messages.
LEMMA Two ==
  ASSUME NEW x \in Notes, NEW y \in Notes
  PROVE  /\ <<x, y>> \in Seq(Notes) /\ Len(<<x, y>>) = 2
         /\ <<x, y>>[1] = x /\ <<x, y>>[2] = y
         /\ Elements(<<x, y>>) = {x, y}
BY DEF Elements

\* Three messages.
LEMMA Three ==
  ASSUME NEW x \in Notes, NEW y \in Notes, NEW z \in Notes
  PROVE  LET p == <<x>> \o <<y, z>>
         IN  /\ p \in Seq(Notes) /\ Len(p) = 3 /\ p[1] = x /\ p[2] = y /\ p[3] = z
             /\ Elements(p) = {x, y, z}
<1> DEFINE p == <<x>> \o <<y, z>>
<1>1. /\ p \in Seq(Notes) /\ Len(p) = Len(<<x>>) + Len(<<y, z>>)
      /\ \A i \in 1 .. Len(<<x>>) : p[i] = <<x>>[i]
      /\ \A i \in 1 .. Len(<<y, z>>) : p[Len(<<x>>) + i] = <<y, z>>[i]
      /\ Elements(p) = Elements(<<x>>) \cup Elements(<<y, z>>)
  BY One, Two, Added
<1> HIDE DEF p
<1>2. p[1] = x /\ p[1 + 1] = y /\ p[1 + 2] = z
  BY <1>1, One, Two
<1> QED
  BY <1>1, <1>2, One, Two DEF p

\* What has come is in the store; the rest is as before.
LEMMA MailTaken ==
  ASSUME Typed, Mail, down # <<>>, down' = Tail(down),
         UNCHANGED <<alive, conn, member, log, dmOwner, uncast, posts>>,
         IF Head(down).type = "welcome" THEN userId' = Head(down).what ELSE UNCHANGED userId,
         Shown \subseteq Shown', Shown' \subseteq Shown \cup {Head(down).room},
         \A r \in Rooms : Opens(Head(down), r) => r \in Shown',
         StoreOK',
         \A r \in Shown : \A c \in rooms[r].messages : \E d \in rooms'[r].messages : d.id = c.id,
         \A r \in Shown : \A id : Brings(Head(down), r, id)
                                => \E c \in rooms'[r].messages : c.id = id
  PROVE  Mail'
<1>1. /\ Len(down) \in Nat /\ Len(down) > 0 /\ Head(down) = down[1] /\ down[1] \in Notes
      /\ down' \in Seq(Notes) /\ Len(down') = Len(down) - 1
      /\ \A i \in 1 .. Len(down') : down'[i] = down[i + 1]
      /\ Sent = {down[1]} \cup Sent'
  <2>1. Sent = Elements(down) /\ Sent' = Elements(down')
    BY DEF Sent, Elements
  <2>2. down \in Seq(Notes) /\ Len(down) \in Nat
    BY LenProperties DEF Typed, ServerTyped
  <2>3. /\ Len(down) > 0 /\ Head(down) = down[1] /\ down[1] \in Notes
        /\ down' \in Seq(Notes) /\ Len(down') = Len(down) - 1
        /\ \A i \in 1 .. Len(down') : down'[i] = down[i + 1]
        /\ Elements(down) = {down[1]} \cup Elements(down')
    BY <2>2, Taken
  <2> QED
    BY <2>1, <2>2, <2>3
<1>2. LogOK'
  BY DEF Mail, LogOK
<1>3. SentOK'
  BY <1>1 DEF Mail, SentOK, Covered
<1>4. Announced'
  <2> SUFFICES ASSUME NEW i \in 1 .. Len(down'), down'[i].type \in {"message", "room_history"},
                      down'[i].room \notin Shown'
               PROVE  \E j \in 1 .. i - 1 : Opens(down'[j], down'[i].room)
    BY DEF Announced
  <2>1. i + 1 \in 1 .. Len(down) /\ down'[i] = down[i + 1]
    BY <1>1
  <2>2. PICK j \in 1 .. (i + 1) - 1 : Opens(down[j], down[i + 1].room)
    BY <2>1 DEF Mail, Announced
  <2>3. down[i + 1] \in Notes /\ down[i + 1].room \in Rooms
    BY <2>1, NoteTypes DEF Typed, ServerTyped
  <2>4. j # 1
    BY <1>1, <2>1, <2>2, <2>3
  <2>5. j - 1 \in 1 .. i - 1 /\ j - 1 \in 1 .. Len(down') /\ (j - 1) + 1 = j
    BY <2>4, <1>1
  <2> QED
    BY <2>1, <2>2, <2>5, <1>1
<1>5. IdentityKnown'
  BY <1>1 DEF Mail, IdentityKnown, SentOK
<1>6. Membership'
  BY <1>1 DEF Mail, Membership, Opens, Typed, ServerTyped
<1>7. Coming'
  <2> SUFFICES ASSUME alive', NEW r \in member', NEW m \in log'[r],
                      <<r, m.id>> \notin uncast', ~ \E n \in Sent' : Brings(n, r, m.id)
               PROVE  r \in Shown' /\ \E c \in rooms'[r].messages : c.id = m.id
    BY Zenon DEF Coming
  <2>0. alive /\ r \in member /\ m \in log[r] /\ <<r, m.id>> \notin uncast
    OBVIOUS
  <2>1. CASE Brings(down[1], r, m.id)
    <3>1. down[1].type \in {"message", "room_history"} /\ down[1].room = r
      BY <2>1 DEF Brings
    <3>2. r \in Shown
      BY <3>1, <1>1 DEF Mail, Announced
    <3> QED
      BY <2>1, <3>2, <1>1
  <2>2. CASE ~Brings(down[1], r, m.id)
    BY <2>0, <2>2, <1>1 DEF Mail, Coming
  <2> QED
    BY <2>1, <2>2
<1> QED
  BY <1>2, <1>3, <1>4, <1>5, <1>6, <1>7 DEF Mail

\* The server, or somebody else, has sent s.
LEMMA MailAdded ==
  ASSUME Typed, Mail, alive, UNCHANGED <<alive, conn, userId, rooms>>,
         NEW s \in Seq(Notes), Answer(s),
         LogOK', member \subseteq member', member' \subseteq Rooms,
         \A r \in Rooms : \A l \in log[r] :
            \E k \in log'[r] : k.id = l.id /\ k.sender = l.sender,
         \A d \in DMs : dmOwner'[d] = dmOwner[d] \/ (dmOwner[d] = 0 /\ d \in member'),
         \A d \in DMs \cap member' : dmOwner'[d] # 0,
         \A r \in member' : r \in member \/ \E n \in Elements(s) : Opens(n, r),
         \A r \in member' : \A m \in log'[r] :
            \/ <<r, m.id>> \in uncast'
            \/ r \in member /\ <<r, m.id>> \notin uncast /\ \E l \in log[r] : l.id = m.id
            \/ \E n \in Elements(s) : Brings(n, r, m.id),
         \A n \in Elements(s) :
            /\ n.type # "welcome" /\ n.room \in member'
            /\ n.type \in {"room_joined", "dm_opened"} => (n.what <=> n.room \in DMs)
            /\ n.type = "room_history"
                 => SameIds(n.what) /\ \A m \in n.what : WillCover(n.room, m)
            /\ n.type = "message" => WillCover(n.room, n.what) /\ n.what.sender \in {0, conn},
         \A i \in 1 .. Len(s) :
            \/ s[i].type \notin {"message", "room_history"}
            \/ s[i].room \in Shown \cup member
            \/ \E j \in 1 .. i - 1 : Opens(s[j], s[i].room)
  PROVE  Mail'
<1>1. /\ Len(down) \in Nat /\ Len(s) \in Nat /\ down' \in Seq(Notes)
      /\ Len(down') = Len(down) + Len(s)
      /\ \A i \in 1 .. Len(down) : down'[i] = down[i]
      /\ \A i \in 1 .. Len(s) : down'[Len(down) + i] = s[i]
      /\ Sent' = Sent \cup Elements(s)
  <2>1. Sent = Elements(down) /\ Sent' = Elements(down')
    BY DEF Sent, Elements
  <2>2. down \in Seq(Notes) /\ Len(down) \in Nat /\ Len(s) \in Nat
    BY LenProperties DEF Typed, ServerTyped
  <2>3. /\ down' \in Seq(Notes) /\ Len(down') = Len(down) + Len(s)
        /\ \A i \in 1 .. Len(down) : down'[i] = down[i]
        /\ \A i \in 1 .. Len(s) : down'[Len(down) + i] = s[i]
        /\ Elements(down') = Elements(down) \cup Elements(s)
    BY <2>2, Added DEF Answer
  <2> QED
    BY <2>1, <2>2, <2>3
<1>2. /\ Shown' = Shown
      /\ \A r \in Rooms : \A m : Covered(r, m) => \E k \in log'[r] : k.id = m.id /\ k.sender = m.sender
  BY DEF Covered, Shown
<1>3. \A n \in Sent : n \in Notes
  BY ElementOfSeq DEF Sent, Elements, Typed, ServerTyped
<1>4. SentOK'
  <2>1. ASSUME NEW n \in Sent
        PROVE  /\ n.type = "welcome" => n.what = conn
               /\ n.type \in {"room_joined", "dm_opened"} => (n.what <=> n.room \in DMs)
               /\ n.type = "room_history"
                    => SameIds(n.what) /\ \A m \in n.what : WillCover(n.room, m)
               /\ n.type = "message" => WillCover(n.room, n.what) /\ n.what.sender \in {0, conn}
    BY <1>2, <1>3, NoteTypes DEF Mail, SentOK, WillCover
  <2> QED
    BY <1>1, <2>1 DEF SentOK, Covered, WillCover
<1>5. Announced'
  <2> SUFFICES ASSUME NEW i \in 1 .. Len(down'), down'[i].type \in {"message", "room_history"},
                      down'[i].room \notin Shown
               PROVE  \E j \in 1 .. i - 1 : Opens(down'[j], down'[i].room)
    BY <1>2 DEF Announced
  <2>1. CASE i \in 1 .. Len(down)
    <3>1. PICK j \in 1 .. i - 1 : Opens(down[j], down[i].room)
      BY <2>1, <1>1 DEF Mail, Announced
    <3>2. j \in 1 .. Len(down)
      BY <2>1, <1>1
    <3> QED
      BY <2>1, <3>1, <3>2, <1>1
  <2>2. CASE i \notin 1 .. Len(down)
    <3>1. PICK k \in 1 .. Len(s) : i = Len(down) + k /\ k = i - Len(down)
      <4>1. i - Len(down) \in 1 .. Len(s) /\ i = Len(down) + (i - Len(down))
        BY <2>2, <1>1
      <4> QED
        BY <4>1
    <3>2. down'[i] = s[k]
      BY <3>1, <1>1
    <3>3. CASE s[k].room \in member
      <4>1. PICK n \in Sent : Opens(n, s[k].room)
        BY <3>2, <3>3 DEF Mail, Membership
      <4>2. PICK j \in 1 .. Len(down) : n = down[j]
        BY <4>1 DEF Sent, Elements
      <4>3. j \in 1 .. i - 1
        BY <2>2, <1>1
      <4> QED
        BY <4>1, <4>2, <4>3, <3>2, <1>1
    <3>4. CASE s[k].room \notin member
      <4>1. PICK j \in 1 .. k - 1 : Opens(s[j], s[k].room)
        BY <3>2, <3>4
      <4>2. Len(down) + j \in 1 .. i - 1 /\ j \in 1 .. Len(s)
        BY <3>1, <1>1
      <4> QED
        BY <4>1, <4>2, <3>2, <1>1
    <3> QED
      BY <3>3, <3>4
  <2> QED
    BY <2>1, <2>2
<1>6. IdentityKnown'
  BY <1>1 DEF Mail, IdentityKnown, Sent, Typed, ServerTyped
<1>7. StoreOK'
  BY <1>2 DEF Mail, StoreOK, Typed, ServerTyped, Covered
<1>8. Membership'
  BY <1>1, <1>2 DEF Mail, Membership, Typed, ServerTyped
<1>9. Coming'
  <2>1. ASSUME NEW r \in member', NEW m \in log'[r]
        PROVE  \/ <<r, m.id>> \in uncast'
               \/ r \in Shown' /\ \E c \in rooms'[r].messages : c.id = m.id
               \/ \E n \in Sent' : Brings(n, r, m.id)
    <3>1. CASE r \in member /\ <<r, m.id>> \notin uncast /\ \E l \in log[r] : l.id = m.id
      BY <3>1, <1>1, <1>2 DEF Mail, Coming
    <3> QED
      BY <3>1, <1>1
  <2> QED
    BY <2>1 DEF Coming
<1> QED
  BY <1>4, <1>5, <1>6, <1>7, <1>8, <1>9 DEF Mail

-----------------------------------------------------------------------------
(* What the server does *)

\* A member is told, and finds the history.
LEMMA ServeJoinMail ==
  ASSUME Typed, Mail, alive, NEW r \in Public, ServeJoin(r),
         UNCHANGED <<alive, conn, userId, rooms, posts>>
  PROVE  Mail' /\ ServerTyped' /\ LogsGrow
<1> DEFINE j == Note("room_joined", r, FALSE)
           h == Note("room_history", r, log[r])
           s == <<j, h>>
<1>1. r \in Rooms /\ r \notin DMs /\ log[r] \in SUBSET Messages
  BY ChatClientAssumption DEF Typed, ServerTyped, Rooms
<1>2. /\ j \in Notes /\ j.type = "room_joined" /\ j.room = r /\ j.what = FALSE
      /\ h \in Notes /\ h.type = "room_history" /\ h.room = r /\ h.what = log[r]
  <2>1. j \in Notes /\ h \in Notes
    BY <1>1, NoteKinds
  <2> QED
    BY <2>1 DEF Note
<1>3. member' = member \cup {r} /\ Answer(s) /\ UNCHANGED <<log, dmOwner, uncast>>
  BY DEF ServeJoin, Joined
<1> HIDE DEF j, h
<1>4. s \in Seq(Notes) /\ Len(s) = 2 /\ s[1] = j /\ s[2] = h /\ Elements(s) = {j, h}
  BY <1>2, Two
<1> HIDE DEF s
<1>5. ServerTyped'
  BY <1>1, <1>3, <1>4, Added DEF Answer, Typed, ServerTyped
<1>6. LogsGrow /\ LogOK'
  BY <1>3 DEF LogsGrow, Mail, LogOK
<1>7. \A x \in member' : \A m \in log'[x] :
         \/ <<x, m.id>> \in uncast'
         \/ x \in member /\ <<x, m.id>> \notin uncast /\ \E l \in log[x] : l.id = m.id
         \/ \E n \in Elements(s) : Brings(n, x, m.id)
  BY <1>2, <1>3, <1>4 DEF Brings
<1>8. \A n \in Elements(s) :
        /\ n.type # "welcome" /\ n.room \in member'
        /\ n.type \in {"room_joined", "dm_opened"} => (n.what <=> n.room \in DMs)
        /\ n.type = "room_history"
             => SameIds(n.what) /\ \A m \in n.what : WillCover(n.room, m)
        /\ n.type = "message" => WillCover(n.room, n.what) /\ n.what.sender \in {0, conn}
  <2>1. SameIds(h.what)
    BY <1>1, <1>2 DEF Mail, LogOK
  <2>2. \A m \in h.what : WillCover(h.room, m)
    BY <1>2, <1>3 DEF WillCover
  <2>3. j.what <=> j.room \in DMs
    BY <1>1, <1>2
  <2>4. SUFFICES ASSUME NEW n \in {j, h}
                 PROVE  /\ n.type # "welcome" /\ n.room \in member'
                        /\ n.type \in {"room_joined", "dm_opened"} => (n.what <=> n.room \in DMs)
                        /\ n.type = "room_history"
                             => SameIds(n.what) /\ \A m \in n.what : WillCover(n.room, m)
                        /\ n.type # "message"
    BY <1>4
  <2>5. CASE n = j
    BY <1>2, <1>3, <2>3, <2>5
  <2>6. CASE n = h
    BY <1>2, <1>3, <2>1, <2>2, <2>6
  <2> QED
    BY <2>5, <2>6
<1>9. \A i \in 1 .. Len(s) :
        \/ s[i].type \notin {"message", "room_history"}
        \/ s[i].room \in Shown \cup member
        \/ \E k \in 1 .. i - 1 : Opens(s[k], s[i].room)
  <2>1. \A i \in 1 .. Len(s) : i = 1 \/ i = 2
    BY <1>4
  <2>2. 1 \in 1 .. 2 - 1
    OBVIOUS
  <2> QED
    BY <2>1, <2>2, <1>2, <1>4 DEF Opens
<1>10. \A x \in member' : x \in member \/ \E n \in Elements(s) : Opens(n, x)
  BY <1>2, <1>3, <1>4 DEF Opens
<1>11. \A d \in DMs \cap member' : dmOwner'[d] # 0
  BY <1>1, <1>3 DEF Mail, Membership
<1>12. Mail'
  BY <1>3, <1>4, <1>5, <1>6, <1>7, <1>8, <1>9, <1>10, <1>11, MailAdded
     DEF LogsGrow, ServerTyped
<1> QED
  BY <1>5, <1>6, <1>12

\* A room for direct messages is opened, for this identity.
LEMMA OpenDMMail ==
  ASSUME Typed, Mail, alive, NEW d \in DMs, OpenDM(d),
         UNCHANGED <<alive, conn, userId, rooms, posts>>
  PROVE  Mail' /\ ServerTyped' /\ LogsGrow
<1> DEFINE o == Note("dm_opened", d, TRUE)
           j == Note("room_joined", d, TRUE)
           h == Note("room_history", d, log[d])
           s == <<o>> \o <<j, h>>
<1>1. d \in Rooms /\ log[d] \in SUBSET Messages /\ conn \in Nat /\ conn > 0
  BY ChatClientAssumption DEF Typed, ServerTyped, Rooms
<1>2. /\ o \in Notes /\ o.type = "dm_opened" /\ o.room = d /\ o.what
      /\ j \in Notes /\ j.type = "room_joined" /\ j.room = d /\ j.what
      /\ h \in Notes /\ h.type = "room_history" /\ h.room = d /\ h.what = log[d]
  <2>1. o \in Notes /\ j \in Notes /\ h \in Notes
    BY <1>1, NoteKinds, OpenedDM
  <2> QED
    BY <2>1 DEF Note
<1>3. /\ member' = member \cup {d} /\ Answer(s) /\ UNCHANGED <<log, uncast>>
      /\ dmOwner' = [dmOwner EXCEPT ![d] = conn] /\ dmOwner[d] \in {0, conn}
  BY DEF OpenDM, Joined
<1> HIDE DEF o, j, h
<1>4. /\ s \in Seq(Notes) /\ Len(s) = 3 /\ s[1] = o /\ s[2] = j /\ s[3] = h
      /\ Elements(s) = {o, j, h}
  BY <1>2, Three
<1> HIDE DEF s
<1>5. ServerTyped'
  BY <1>1, <1>3, <1>4, Added DEF Answer, Typed, ServerTyped
<1>6. LogsGrow /\ LogOK'
  BY <1>1, <1>3 DEF LogsGrow, Mail, LogOK, Typed, ServerTyped
<1>7. \A x \in member' : \A m \in log'[x] :
         \/ <<x, m.id>> \in uncast'
         \/ x \in member /\ <<x, m.id>> \notin uncast /\ \E l \in log[x] : l.id = m.id
         \/ \E n \in Elements(s) : Brings(n, x, m.id)
  BY <1>2, <1>3, <1>4 DEF Brings
<1>8. \A n \in Elements(s) :
        /\ n.type # "welcome" /\ n.room \in member'
        /\ n.type \in {"room_joined", "dm_opened"} => (n.what <=> n.room \in DMs)
        /\ n.type = "room_history"
             => SameIds(n.what) /\ \A m \in n.what : WillCover(n.room, m)
        /\ n.type = "message" => WillCover(n.room, n.what) /\ n.what.sender \in {0, conn}
  <2>1. SameIds(h.what)
    BY <1>1, <1>2 DEF Mail, LogOK
  <2>2. \A m \in h.what : WillCover(h.room, m)
    BY <1>2, <1>3 DEF WillCover
  <2>3. SUFFICES ASSUME NEW n \in {o, j, h}
                 PROVE  /\ n.type # "welcome" /\ n.room \in member'
                        /\ n.type \in {"room_joined", "dm_opened"} => (n.what <=> n.room \in DMs)
                        /\ n.type = "room_history"
                             => SameIds(n.what) /\ \A m \in n.what : WillCover(n.room, m)
                        /\ n.type # "message"
    BY <1>4
  <2>4. CASE n = h
    BY <1>2, <1>3, <2>1, <2>2, <2>4
  <2> QED
    BY <1>2, <1>3, <2>4
<1>9. \A i \in 1 .. Len(s) :
        \/ s[i].type \notin {"message", "room_history"}
        \/ s[i].room \in Shown \cup member
        \/ \E k \in 1 .. i - 1 : Opens(s[k], s[i].room)
  <2>1. \A i \in 1 .. Len(s) : i = 1 \/ i = 2 \/ i = 3
    BY <1>4
  <2>2. 2 \in 1 .. 3 - 1
    OBVIOUS
  <2> QED
    BY <2>1, <2>2, <1>2, <1>4 DEF Opens
<1>10. \A x \in member' : x \in member \/ \E n \in Elements(s) : Opens(n, x)
  BY <1>2, <1>3, <1>4 DEF Opens
<1>11. /\ \A x \in DMs \cap member' : dmOwner'[x] # 0
       /\ \A x \in DMs : dmOwner'[x] = dmOwner[x] \/ (dmOwner[x] = 0 /\ x \in member')
  BY <1>1, <1>3 DEF Mail, Membership, Typed, ServerTyped
<1>12. Mail'
  BY <1>3, <1>4, <1>5, <1>6, <1>7, <1>8, <1>9, <1>10, <1>11, MailAdded
     DEF LogsGrow, ServerTyped
<1> QED
  BY <1>5, <1>6, <1>12

\* A message of the user, with a new id, into a room that is shown.
LEMMA ServeSendMail ==
  ASSUME Typed, Mail, alive, NEW r \in Shown, ServeSend(r, posts + 1), posts < MaxPosts,
         UNCHANGED <<alive, conn, userId, rooms>>, posts' = posts + 1
  PROVE  /\ Mail' /\ ServerTyped' /\ LogsGrow
         /\ r \in member => \E m \in log'[r] : m.id = posts + 1
<1> DEFINE m == Message(posts + 1, conn)
           x == Note("message", r, m)
           s == <<x>>
<1>1. /\ r \in Rooms /\ posts \in Nat /\ conn \in Nat
      /\ log \in [Rooms -> SUBSET Messages] /\ log[r] \in SUBSET Messages
  BY ChatClientAssumption DEF Typed, ServerTyped
<1>2. m \in Messages /\ m.id = posts + 1 /\ m.sender = conn
  BY <1>1 DEF Message, Messages
<1>3. x \in Notes /\ x.type = "message" /\ x.room = r /\ x.what = m
  BY <1>1, <1>2, NoteKinds, Fields
<1>4. /\ UNCHANGED <<member, dmOwner, uncast>>
      /\ IF r \in member THEN log' = [log EXCEPT ![r] = @ \cup {m}] /\ Answer(s)
         ELSE UNCHANGED <<log, down>>
  BY DEF ServeSend
<1> HIDE DEF m, x
<1>5. s \in Seq(Notes) /\ Len(s) = 1 /\ s[1] = x /\ Elements(s) = {x}
  BY <1>3, One
<1> HIDE DEF s
<1>6. /\ ServerTyped' /\ LogsGrow
      /\ r \in member => \E k \in log'[r] : k.id = posts + 1
  <2>1. down' \in Seq(Notes)
    BY <1>4, <1>5, AnswerTyped DEF Typed, ServerTyped
  <2>2. \A y \in Rooms : log'[y] = log[y] \/ (r \in member /\ y = r /\ log'[y] = log[y] \cup {m})
    BY <1>1, <1>4
  <2>3. r \in member => m \in log'[r]
    BY <1>1, <1>4
  <2>4. LogsGrow /\ (r \in member => \E k \in log'[r] : k.id = posts + 1)
    BY <1>2, <1>4, <2>2, <2>3 DEF LogsGrow
  <2>5. log' \in [Rooms -> SUBSET Messages]
    BY <1>1, <1>2, <1>4
  <2> QED
    BY <1>4, <2>1, <2>4, <2>5 DEF Typed, ServerTyped
<1>7. LogOK'
  <2>1. \A y \in Rooms : log'[y] = log[y] \/ (y = r /\ log'[y] = log[y] \cup {m})
    BY <1>1, <1>4
  <2>2. \A y \in Rooms : \A l \in log[y] : l.id # posts + 1 /\ l.id \in 1 .. posts + 1
    BY <1>1 DEF Mail, LogOK
  <2>3. posts + 1 \in 1 .. posts + 1
    BY <1>1
  <2>4. \A y \in Rooms : SameIds(log'[y]) /\ \A l \in log'[y] : l.id \in 1 .. posts + 1
    BY <1>2, <2>1, <2>2, <2>3 DEF Mail, LogOK, SameIds
  <2>5. \A z \in uncast : z[1] \in Rooms
    BY DEF Typed, ServerTyped
  <2>6. \A z \in uncast : \E l \in log'[z[1]] : l.id = z[2] /\ l.sender = 0
    BY <2>1, <2>5 DEF Mail, LogOK
  <2> QED
    BY <1>4, <2>4, <2>6 DEF LogOK
<1>8. CASE r \in member
  <2>1. \A y \in member' : \A l \in log'[y] :
           \/ <<y, l.id>> \in uncast'
           \/ y \in member /\ <<y, l.id>> \notin uncast /\ \E k \in log[y] : k.id = l.id
           \/ \E n \in Elements(s) : Brings(n, y, l.id)
    BY <1>1, <1>2, <1>3, <1>4, <1>5, <1>8 DEF Brings, Typed, ServerTyped
  <2>2. WillCover(r, m) /\ m.sender \in {0, conn}
    BY <1>1, <1>2, <1>4, <1>8 DEF WillCover
  <2>3. \A n \in Elements(s) :
          /\ n.type # "welcome" /\ n.room \in member'
          /\ n.type \in {"room_joined", "dm_opened"} => (n.what <=> n.room \in DMs)
          /\ n.type = "room_history"
               => SameIds(n.what) /\ \A k \in n.what : WillCover(n.room, k)
          /\ n.type = "message" => WillCover(n.room, n.what) /\ n.what.sender \in {0, conn}
    BY <1>3, <1>4, <1>5, <1>8, <2>2
  <2>4. \A i \in 1 .. Len(s) : s[i].room \in Shown \cup member
    BY <1>3, <1>5
  <2>5. \A y \in DMs \cap member' : dmOwner'[y] # 0
    BY <1>4 DEF Mail, Membership
  <2>6. Mail'
    BY <1>4, <1>5, <1>6, <1>7, <1>8, <2>1, <2>3, <2>4, <2>5, MailAdded
       DEF LogsGrow, ServerTyped
  <2> QED
    BY <1>6, <2>6
<1>9. CASE r \notin member
  <2>1. UNCHANGED <<log, down, member, dmOwner, uncast>> /\ Shown' = Shown /\ Sent' = Sent
    BY <1>4, <1>9 DEF Shown, Sent, Elements
  <2>2. Mail'
    BY <1>7, <2>1 DEF Mail, SentOK, Announced, IdentityKnown, StoreOK, Membership, Coming, Covered
  <2> QED
    BY <1>6, <2>2
<1> QED
  BY <1>8, <1>9

\* A message of the user is deleted.
LEMMA ServeDeleteMail ==
  ASSUME Typed, Mail, alive, NEW r \in Shown, NEW i \in Nat, ServeDelete(r, i),
         UNCHANGED <<alive, conn, userId, rooms, posts>>
  PROVE  Mail' /\ ServerTyped' /\ LogsGrow
<1> DEFINE x == Note("message_deleted", r, i)
           new == Deleted(log[r], i)
           s == <<x>>
           served == r \in member /\ \E m \in log[r] : m.id = i /\ m.sender = conn
<1>1. r \in Rooms /\ log \in [Rooms -> SUBSET Messages] /\ log[r] \in SUBSET Messages
  BY ChatClientAssumption DEF Typed, ServerTyped
<1>2. /\ new \in SUBSET Messages
      /\ \A m \in new : \E k \in log[r] : k.id = m.id /\ k.sender = m.sender
      /\ \A k \in log[r] : \E m \in new : k.id = m.id /\ k.sender = m.sender
      /\ SameIds(log[r]) => SameIds(new)
  BY <1>1, DeletedProps
<1>3. x \in Notes /\ x.type = "message_deleted" /\ x.room = r
  BY <1>1, NoteKinds, Fields
<1>4. /\ UNCHANGED <<member, dmOwner, uncast>>
      /\ IF served THEN log' = [log EXCEPT ![r] = new] /\ Answer(s)
         ELSE UNCHANGED <<log, down>>
  BY DEF ServeDelete, Deleted
<1> HIDE DEF x, new
<1>5. s \in Seq(Notes) /\ Len(s) = 1 /\ s[1] = x /\ Elements(s) = {x}
  BY <1>3, One
<1>6. CASE served
  <2> HIDE DEF s
  <2>1. \A y \in Rooms : log'[y] = IF y = r THEN new ELSE log[y]
    BY <1>1, <1>4, <1>6
  <2>2. log' \in [Rooms -> SUBSET Messages]
    BY <1>1, <1>2, <1>4, <1>6
  <2>3. ServerTyped'
    BY <1>4, <1>5, <1>6, <2>2, AnswerTyped DEF Typed, ServerTyped
  <2>4. LogsGrow
    BY <1>2, <1>4, <2>1 DEF LogsGrow
  <2>5. LogOK'
    <3>1. \A y \in Rooms : SameIds(log'[y]) /\ \A l \in log'[y] : l.id \in 1 .. posts
      BY <1>2, <2>1 DEF Mail, LogOK
    <3>2. \A z \in uncast : z[1] \in Rooms
      BY DEF Typed, ServerTyped
    <3>3. \A z \in uncast : \E l \in log'[z[1]] : l.id = z[2] /\ l.sender = 0
      BY <1>2, <2>1, <3>2 DEF Mail, LogOK
    <3> QED
      BY <1>4, <3>1, <3>3 DEF LogOK
  <2>6. \A y \in member' : \A l \in log'[y] :
           y \in member /\ \E k \in log[y] : k.id = l.id
    BY <1>2, <1>4, <2>1 DEF Typed, ServerTyped
  <2>7. \A n \in Elements(s) : n.type = "message_deleted" /\ n.room \in member'
    BY <1>3, <1>4, <1>5, <1>6
  <2>8. \A k \in 1 .. Len(s) : s[k].room \in Shown \cup member
    BY <1>3, <1>5
  <2>9. \A y \in DMs \cap member' : dmOwner'[y] # 0
    BY <1>4 DEF Mail, Membership
  <2>10. Answer(s)
    BY <1>4, <1>6
  <2>11. Mail'
    <3> HIDE DEF served
    <3> QED
      BY <1>4, <1>5, <2>3, <2>4, <2>5, <2>6, <2>7, <2>8, <2>9, <2>10, MailAdded
         DEF LogsGrow, ServerTyped
  <2> QED
    BY <2>3, <2>4, <2>11
<1>7. CASE ~served
  <2>1. UNCHANGED <<log, down, member, dmOwner, uncast>> /\ Shown' = Shown /\ Sent' = Sent
    BY <1>4, <1>7 DEF Shown, Sent, Elements
  <2>2. Mail' /\ ServerTyped' /\ LogsGrow
    BY <2>1 DEF Mail, LogOK, SentOK, Announced, IdentityKnown, StoreOK, Membership, Coming,
                Covered, LogsGrow, Typed, ServerTyped
  <2> QED
    BY <2>2
<1> QED
  BY <1>6, <1>7

\* Somebody else's message enters a log, and is to be broadcast.
LEMMA PeerPostsMail ==
  ASSUME Typed, Mail, NEW r \in Rooms, PeerPosts(r)
  PROVE  Mail' /\ ServerTyped' /\ LogsGrow
<1> DEFINE m == Message(posts + 1, 0)
<1>1. /\ posts \in Nat /\ log \in [Rooms -> SUBSET Messages] /\ log[r] \in SUBSET Messages
      /\ uncast \subseteq Rooms \X Nat
  BY ChatClientAssumption DEF Typed, ServerTyped
<1>2. m \in Messages /\ m.id = posts + 1 /\ m.sender = 0
  BY <1>1 DEF Message, Messages
<1>3. /\ posts' = posts + 1 /\ log' = [log EXCEPT ![r] = @ \cup {m}]
      /\ uncast' = uncast \cup {<<r, posts + 1>>}
      /\ UNCHANGED <<down, member, dmOwner, alive, conn, userId, rooms>>
  BY DEF PeerPosts, ServerStep, linkVars
<1> HIDE DEF m
<1>4. \A y \in Rooms : log'[y] = log[y] \/ (y = r /\ log'[y] = log[y] \cup {m})
  BY <1>1, <1>3
<1>5. m \in log'[r] /\ log' \in [Rooms -> SUBSET Messages]
  BY <1>1, <1>2, <1>3
<1>6. LogsGrow
  BY <1>3, <1>4 DEF LogsGrow
<1>7. ServerTyped'
  BY <1>1, <1>3, <1>5 DEF Typed, ServerTyped
<1>8. LogOK'
  <2>1. \A y \in Rooms : \A l \in log[y] : l.id # posts + 1 /\ l.id \in 1 .. posts + 1
    BY <1>1 DEF Mail, LogOK
  <2>2. posts + 1 \in 1 .. posts + 1
    BY <1>1
  <2>3. \A y \in Rooms : SameIds(log'[y]) /\ \A l \in log'[y] : l.id \in 1 .. posts + 1
    BY <1>2, <1>4, <2>1, <2>2 DEF Mail, LogOK, SameIds
  <2>4. \A z \in uncast : \E l \in log'[z[1]] : l.id = z[2] /\ l.sender = 0
    BY <1>1, <1>4 DEF Mail, LogOK
  <2>5. \A z \in uncast' : \E l \in log'[z[1]] : l.id = z[2] /\ l.sender = 0
    BY <1>2, <1>3, <1>5, <2>4
  <2> QED
    BY <1>3, <2>3, <2>5 DEF LogOK
<1>9. Shown' = Shown /\ Sent' = Sent
  BY <1>3 DEF Shown, Sent, Elements
<1>10. \A x \in Rooms : \A k : Covered(x, k) => Covered(x, k)'
  BY <1>4 DEF Covered
<1>11. SentOK' /\ StoreOK'
  <2>1. \A n \in Sent : n \in Notes
    BY ElementOfSeq DEF Sent, Elements, Typed, ServerTyped
  <2>2. SentOK'
    BY <1>3, <1>4, <1>9, <2>1, NoteTypes DEF Mail, SentOK, Covered
  <2>3. StoreOK'
    BY <1>3, <1>4, <1>9 DEF Mail, StoreOK, Covered, Typed
  <2> QED
    BY <2>2, <2>3
<1>12. Announced' /\ IdentityKnown' /\ Membership'
  BY <1>3, <1>9 DEF Mail, Announced, IdentityKnown, Membership
<1>13. Coming'
  BY <1>2, <1>3, <1>4, <1>9 DEF Mail, Coming, Typed, ServerTyped
<1> QED
  BY <1>6, <1>7, <1>8, <1>11, <1>12, <1>13 DEF Mail

\* Somebody else's message is broadcast, and reaches the members.
LEMMA PeerBroadcastMail ==
  ASSUME Typed, Mail, NEW r \in Rooms, NEW i \in 1 .. MaxPosts, PeerBroadcast(r, i)
  PROVE  Mail' /\ ServerTyped' /\ LogsGrow
<1> DEFINE m == Message(i, 0)
           x == Note("message", r, m)
           s == <<x>>
<1>1. i \in Nat
  BY ChatClientAssumption
<1>2. m \in Messages /\ m.id = i /\ m.sender = 0
  BY <1>1 DEF Message, Messages
<1>3. x \in Notes /\ x.type = "message" /\ x.room = r /\ x.what = m
  BY <1>2, NoteKinds, Fields
<1>4. /\ <<r, i>> \in uncast /\ uncast' = uncast \ {<<r, i>>}
      /\ UNCHANGED <<member, log, dmOwner, posts, alive, conn, userId, rooms>>
      /\ IF alive /\ r \in member THEN Answer(s) ELSE UNCHANGED down
  BY DEF PeerBroadcast, ServerStep, linkVars
<1> HIDE DEF m, x
<1>5. s \in Seq(Notes) /\ Len(s) = 1 /\ s[1] = x /\ Elements(s) = {x}
  BY <1>3, One
<1> HIDE DEF s
<1>6. ServerTyped' /\ LogsGrow
  BY <1>4, <1>5, AnswerTyped DEF LogsGrow, Typed, ServerTyped
<1>7. LogOK' /\ WillCover(r, m)
  BY <1>2, <1>4 DEF Mail, LogOK, WillCover
<1>8. CASE alive /\ r \in member
  <2>1. \A y \in member' : \A l \in log'[y] :
           \/ <<y, l.id>> \in uncast'
           \/ y \in member /\ <<y, l.id>> \notin uncast /\ \E k \in log[y] : k.id = l.id
           \/ \E n \in Elements(s) : Brings(n, y, l.id)
    BY <1>2, <1>3, <1>4, <1>5 DEF Brings
  <2>2. \A n \in Elements(s) :
          /\ n.type # "welcome" /\ n.room \in member'
          /\ n.type \in {"room_joined", "dm_opened"} => (n.what <=> n.room \in DMs)
          /\ n.type = "room_history"
               => SameIds(n.what) /\ \A k \in n.what : WillCover(n.room, k)
          /\ n.type = "message" => WillCover(n.room, n.what) /\ n.what.sender \in {0, conn}
    BY <1>2, <1>3, <1>4, <1>5, <1>7, <1>8
  <2>3. \A k \in 1 .. Len(s) : s[k].room \in Shown \cup member
    BY <1>3, <1>5, <1>8
  <2>4. \A y \in DMs \cap member' : dmOwner'[y] # 0
    BY <1>4 DEF Mail, Membership
  <2>5. Mail'
    BY <1>4, <1>5, <1>6, <1>7, <1>8, <2>1, <2>2, <2>3, <2>4, MailAdded
       DEF LogsGrow, ServerTyped
  <2> QED
    BY <1>6, <2>5
<1>9. CASE ~(alive /\ r \in member)
  <2>1. UNCHANGED down /\ Shown' = Shown /\ Sent' = Sent
    BY <1>4, <1>9 DEF Shown, Sent, Elements
  <2>2. Mail'
    BY <1>4, <1>7, <1>9, <2>1
       DEF Mail, SentOK, Announced, IdentityKnown, StoreOK, Membership, Coming, Covered
  <2> QED
    BY <1>6, <2>2
<1> QED
  BY <1>8, <1>9

-----------------------------------------------------------------------------
(* What becomes of the connection *)

Opening(r) == Note("room_joined", r, r \in DMs)
Past(L, r) == Note("room_history", r, L[r])

Spells(q, ok, s, w, L) ==
  q = [i \in 1 .. 2 * Cardinality(ok) + 1 |->
         IF i = 1 THEN w
         ELSE <<Note("room_joined", s[i \div 2], s[i \div 2] \in DMs),
                Note("room_history", s[i \div 2], L[s[i \div 2]])>>[(i % 2) + 1]]

InOrder(q, ok, w, L) ==
  /\ q # <<>> /\ q[1] = w
  /\ \A S : (w \in S /\ \A r \in ok : Opening(r) \in S /\ Past(L, r) \in S) => q \in Seq(S)
  /\ \A x \in Elements(q) : x = w \/ \E r \in ok : x = Opening(r) \/ x = Past(L, r)
  /\ \A r \in ok : Opening(r) \in Elements(q) /\ Past(L, r) \in Elements(q)
  /\ \A i \in 1 .. Len(q) :
       i = 1 \/ \E r \in ok : \/ q[i] = Opening(r)
                              \/ i - 1 > 1 /\ q[i] = Past(L, r) /\ q[i - 1] = Opening(r)

\* The welcome, then for each room that may be joined its opening and history.
LEMMA WelcomeNotes ==
  ASSUME NEW ok, IsFiniteSet(ok), NEW s \in [1 .. Cardinality(ok) -> ok],
         \A r \in ok : \E i \in DOMAIN s : s[i] = r, NEW w, NEW q, NEW L,
         Spells(q, ok, s, w, L)
  PROVE  InOrder(q, ok, w, L)
<1> DEFINE c == Cardinality(ok)
           e(i) == IF i = 1 THEN w
                   ELSE <<Opening(s[i \div 2]), Past(L, s[i \div 2])>>[(i % 2) + 1]
<1>1. c \in Nat
  BY FS_CardinalityType
<1>2. q = [i \in 1 .. 2 * c + 1 |-> e(i)]
  BY DEF Opening, Past, Spells
<1>21. e(1) = w
  OBVIOUS
<1>22. ASSUME NEW i, i # 1
      PROVE  /\ (i % 2) + 1 = 1 => e(i) = Opening(s[i \div 2])
             /\ (i % 2) + 1 = 2 => e(i) = Past(L, s[i \div 2])
  <2> DEFINE x == Opening(s[i \div 2])
             y == Past(L, s[i \div 2])
  <2>1. e(i) = <<x, y>>[(i % 2) + 1]
    BY <1>22
  <2>2. <<x, y>>[1] = x /\ <<x, y>>[2] = y
    <3> HIDE DEF x, y
    <3> QED
      OBVIOUS
  <2> HIDE DEF e
  <2> QED
    BY <2>1, <2>2
<1> HIDE DEF c, e
<1>3. Len(q) = 2 * c + 1 /\ q[1] = w /\ 1 \in 1 .. Len(q)
  BY <1>1, <1>2, <1>21
<1>4. ASSUME NEW k \in 1 .. c
      PROVE  /\ 2 * k \in 1 .. Len(q) /\ q[2 * k] = Opening(s[k])
         /\ 2 * k + 1 \in 1 .. Len(q) /\ q[2 * k + 1] = Past(L, s[k])
  <2>1. /\ (2 * k) \div 2 = k /\ (2 * k) % 2 = 0 /\ 2 * k # 1 /\ 2 * k \in 1 .. 2 * c + 1
        /\ (2 * k + 1) \div 2 = k /\ (2 * k + 1) % 2 = 1 /\ 2 * k + 1 # 1
        /\ 2 * k + 1 \in 1 .. 2 * c + 1
    BY <1>1
  <2>2. ASSUME NEW i \in 1 .. 2 * c + 1, i # 1
        PROVE  /\ i % 2 = 0 => q[i] = Opening(s[i \div 2])
               /\ i % 2 = 1 => q[i] = Past(L, s[i \div 2])
    <3>1. q[i] = e(i)
      BY <1>2
    <3>2. (i % 2 = 0 => (i % 2) + 1 = 1) /\ (i % 2 = 1 => (i % 2) + 1 = 2)
      OBVIOUS
    <3> QED
      BY <3>1, <3>2, <2>2, <1>22
  <2> QED
    BY <1>3, <2>1, <2>2
<1>5. ASSUME NEW i \in 1 .. Len(q), i # 1
      PROVE  \E k \in 1 .. c : i = 2 * k \/ i = 2 * k + 1
  <2>1. i \div 2 \in 1 .. c /\ (i = 2 * (i \div 2) \/ i = 2 * (i \div 2) + 1)
    BY <1>1, <1>3, <1>5
  <2> QED
    BY <2>1
<1>6. \A k \in 1 .. c : s[k] \in ok
  BY DEF c
<1>7. \A i \in 1 .. Len(q) :
        i = 1 \/ \E r \in ok : \/ q[i] = Opening(r)
                               \/ i - 1 > 1 /\ q[i] = Past(L, r) /\ q[i - 1] = Opening(r)
  <2> SUFFICES ASSUME NEW i \in 1 .. Len(q), i # 1
               PROVE  \E r \in ok :
                        \/ q[i] = Opening(r)
                        \/ i - 1 > 1 /\ q[i] = Past(L, r) /\ q[i - 1] = Opening(r)
    OBVIOUS
  <2>1. PICK k \in 1 .. c : i = 2 * k \/ i = 2 * k + 1
    BY <1>5
  <2>2. CASE i = 2 * k
    BY <1>4, <1>6, <2>2
  <2>3. CASE i = 2 * k + 1
    <3>1. i - 1 = 2 * k /\ i - 1 > 1
      BY <1>1, <2>3
    <3> QED
      BY <1>4, <1>6, <2>3, <3>1
  <2> QED
    BY <2>1, <2>2, <2>3
<1>8. \A x \in Elements(q) : x = w \/ \E r \in ok : (x = Opening(r) \/ x = Past(L, r))
  BY <1>3, <1>7 DEF Elements
<1>9. \A r \in ok : Opening(r) \in Elements(q) /\ Past(L, r) \in Elements(q)
  <2> SUFFICES ASSUME NEW r \in ok PROVE Opening(r) \in Elements(q) /\ Past(L, r) \in Elements(q)
    OBVIOUS
  <2>1. PICK k \in 1 .. c : s[k] = r
    BY DEF c
  <2> QED
    BY <1>4, <2>1 DEF Elements
<1>10. q # <<>>
  BY <1>1, <1>3
<1>11. \A S : (w \in S /\ \A r \in ok : Opening(r) \in S /\ Past(L, r) \in S) => q \in Seq(S)
  <2> SUFFICES ASSUME NEW S, w \in S, \A r \in ok : Opening(r) \in S /\ Past(L, r) \in S
               PROVE  q \in Seq(S)
    OBVIOUS
  <2>1. 2 * c + 1 \in Nat /\ \A i \in 1 .. 2 * c + 1 : q[i] \in S
    BY <1>1, <1>3, <1>7
  <2>2. q \in [1 .. 2 * c + 1 -> S]
    BY <1>2, <2>1
  <2> QED
    BY <2>1, <2>2, SeqDef
<1> HIDE DEF e
<1> QED
  BY <1>3, <1>7, <1>8, <1>9, <1>10, <1>11, Zenon DEF InOrder

\* A new identity finds the rooms that the browser shows and that it may join.
LEMMA OnOpenMail ==
  ASSUME Typed, Mail, OnOpen
  PROVE  Mail' /\ ServerTyped' /\ LogsGrow
<1> DEFINE rs == IF Shown = {} THEN {General} ELSE Shown
           ok == {r \in rs : r \in DMs => dmOwner[r] = conn + 1}
           w == Note("welcome", None, conn + 1)
<1>1. /\ conn \in Nat /\ log \in [Rooms -> SUBSET Messages] /\ dmOwner \in [DMs -> 0 .. conn]
      /\ Shown \subseteq Rooms /\ General \in Public /\ General \notin DMs
      /\ uncast \subseteq Rooms \X Nat
  BY ChatClientAssumption DEF Typed, ServerTyped
<1>2. /\ ws' = "open" /\ connected' = TRUE /\ alive' = TRUE /\ conn' = conn + 1
      /\ UNCHANGED <<userId, rooms, log, dmOwner, uncast, posts>>
      /\ member' = ok
  BY DEF OnOpen, Accepted, Welcome, history
<1>3. ok \subseteq Public /\ ok \subseteq Rooms /\ IsFiniteSet(ok)
  <2>1. ok \subseteq Public /\ ok \subseteq Rooms
    BY <1>1 DEF Rooms
  <2> QED
    BY <2>1, FS_Subset, ChatClientAssumption DEF Rooms
<1>4. InOrder(down', ok, w, log)
  <2>1. PICK s \in [1 .. Cardinality(ok) -> ok] :
          /\ \A r \in ok : \E i \in DOMAIN s : s[i] = r
          /\ Spells(down', ok, s, w, log)
    BY DEF OnOpen, Welcome, Joined, Spells
  <2> HIDE DEF ok, w
  <2> QED
    BY <2>1, <1>3, WelcomeNotes
<1>5. w \in Notes /\ w.type = "welcome" /\ w.room = None /\ w.what = conn + 1
  BY <1>1 DEF Notes, Note
<1>6. ASSUME NEW r \in ok
      PROVE  /\ Opening(r) \in Notes /\ Opening(r).type = "room_joined" /\ Opening(r).room = r
             /\ Opening(r).what <=> r \in DMs
             /\ Past(log, r) \in Notes /\ Past(log, r).type = "room_history"
             /\ Past(log, r).room = r /\ Past(log, r).what = log[r]
  <2>1. r \in Rooms /\ (r \in DMs) \in BOOLEAN /\ log[r] \in SUBSET Messages
    BY <1>1, <1>3
  <2>2. Opening(r) \in Notes /\ Past(log, r) \in Notes
    BY <2>1, NoteKinds DEF Opening, Past
  <2> QED
    BY <2>2 DEF Note, Opening, Past
<1> HIDE DEF rs, ok, w
<1>17. /\ down' # <<>> /\ down'[1] = w
       /\ \A S : (w \in S /\ \A r \in ok : Opening(r) \in S /\ Past(log, r) \in S)
                 => down' \in Seq(S)
       /\ \A x \in Elements(down') : x = w \/ \E r \in ok : x = Opening(r) \/ x = Past(log, r)
       /\ \A r \in ok : Opening(r) \in Elements(down') /\ Past(log, r) \in Elements(down')
       /\ \A i \in 1 .. Len(down') :
            i = 1 \/ \E r \in ok : \/ down'[i] = Opening(r)
                                   \/ i - 1 > 1 /\ down'[i] = Past(log, r) /\ down'[i - 1] = Opening(r)
  BY <1>4 DEF InOrder
<1>7. Sent' = Elements(down') /\ Shown' = Shown
  BY <1>2 DEF Sent, Elements, Shown
<1>8. ServerTyped'
  BY <1>1, <1>2, <1>3, <1>17, <1>5, <1>6 DEF ServerTyped
<1>9. LogsGrow /\ LogOK'
  BY <1>2 DEF LogsGrow, Mail, LogOK
<1>10. SentOK'
  <2>1. SUFFICES ASSUME NEW n \in Sent'
                 PROVE  /\ n.type = "welcome" => n.what = conn + 1
                        /\ n.type \in {"room_joined", "dm_opened"} => (n.what <=> n.room \in DMs)
                        /\ n.type = "room_history" => SameIds(n.what)
                             /\ \A m \in n.what : WillCover(n.room, m)
                        /\ n.type # "message"
    BY <1>2 DEF SentOK, Covered, WillCover
  <2>2. CASE n = w
    BY <1>5, <2>2
  <2>3. ASSUME NEW r \in ok, n = Opening(r)
        PROVE  n.type = "room_joined" /\ (n.what <=> n.room \in DMs)
    BY <1>6, <2>3
  <2>4. ASSUME NEW r \in ok, n = Past(log, r)
        PROVE  /\ n.type = "room_history" /\ SameIds(n.what)
               /\ \A m \in n.what : WillCover(n.room, m)
    BY <1>2, <1>3, <1>6, <2>4 DEF Mail, LogOK, WillCover
  <2> QED
    BY <1>17, <1>7, <2>2, <2>3, <2>4
<1>11. Announced'
  <2> SUFFICES ASSUME NEW i \in 1 .. Len(down'),
                      down'[i].type \in {"message", "room_history"}
               PROVE  \E k \in 1 .. i - 1 : Opens(down'[k], down'[i].room)
    BY DEF Announced
  <2>1. Len(down') \in Nat
    BY <1>8, LenProperties DEF ServerTyped
  <2>2. i # 1
    BY <1>17, <1>5
  <2>3. PICK r \in ok : i - 1 > 1 /\ down'[i] = Past(log, r) /\ down'[i - 1] = Opening(r)
    BY <1>17, <1>6, <2>2
  <2>4. i - 1 \in 1 .. i - 1
    BY <2>1, <2>3
  <2> QED
    BY <1>6, <2>3, <2>4 DEF Opens
<1>12. IdentityKnown'
  BY <1>17, <1>5 DEF IdentityKnown
<1>13. StoreOK'
  BY <1>2, <1>7 DEF Mail, StoreOK, Covered
<1>14. \A n \in Sent' : n.room = None \/ n.room \in ok
  BY <1>17, <1>5, <1>6, <1>7
<1>15. Membership'
  <2>1. \A d \in DMs : d \notin ok
    BY <1>1 DEF ok
  <2>2. None \notin Rooms
    BY ChatClientAssumption DEF Rooms
  <2>3. \A d \in DMs : (d \in Shown \/ d \in ok \/ \E n \in Sent' : n.room = d) => dmOwner[d] # 0
    BY <1>14, <2>1, <2>2 DEF Mail, Membership, Rooms
  <2>4. \A r \in Shown : r \in ok \/ (r \in DMs /\ dmOwner[r] # conn + 1)
    BY DEF ok, rs
  <2>5. \A r \in ok : \E n \in Sent' : Opens(n, r)
    BY <1>17, <1>6, <1>7 DEF Opens
  <2> QED
    BY <1>2, <1>7, <1>14, <2>2, <2>3, <2>4, <2>5 DEF Membership
<1>16. Coming'
  <2>1. ASSUME NEW r \in ok, NEW m \in log[r] PROVE \E n \in Sent' : Brings(n, r, m.id)
    BY <1>17, <1>6, <1>7 DEF Brings
  <2> QED
    BY <1>2, <2>1 DEF Coming
<1> QED
  BY <1>8, <1>9, <1>10, <1>11, <1>12, <1>13, <1>15, <1>16 DEF Mail

\* A connection that has broken brings what it brought, until it is given up.
LEMMA LostMail ==
  ASSUME Typed, Mail,
         \/ Break
         \/ OnClose
  PROVE  Mail' /\ ServerTyped' /\ LogsGrow
<1>1. /\ alive' = FALSE \/ (~alive /\ UNCHANGED alive)
      /\ UNCHANGED <<conn, userId, rooms, log, dmOwner, uncast, posts>>
      /\ member' = {} \/ UNCHANGED member
      /\ down' = <<>> \/ UNCHANGED down
  BY DEF Break, OnClose, serverVars, history, Typed
<1>2. Shown' = Shown /\ Sent' \subseteq Sent
  BY <1>1 DEF Shown, Sent, Elements
<1>3. ServerTyped'
  <2>1. <<>> \in Seq(Notes)
    OBVIOUS
  <2>2. down' \in Seq(Notes) /\ member' \subseteq Rooms
    BY <1>1, <2>1 DEF Typed, ServerTyped
  <2> QED
    BY <1>1, <2>2 DEF Typed, ServerTyped
<1>4. LogsGrow /\ LogOK'
  BY <1>1 DEF LogsGrow, Mail, LogOK
<1>5. SentOK' /\ StoreOK' /\ Membership' /\ Coming' /\ IdentityKnown'
  BY <1>1, <1>2 DEF Mail, SentOK, StoreOK, Membership, Coming, Covered, IdentityKnown
<1>6. Announced'
  BY <1>1, <1>2 DEF Mail, Announced
<1> QED
  BY <1>3, <1>4, <1>5, <1>6 DEF Mail

\* Nothing that the mail is about has changed, but for messages written into the void.
LEMMA MailSame ==
  ASSUME Typed, Mail, UNCHANGED <<alive, conn, down, userId, serverVars>>,
         posts' \in Nat, posts' >= posts, Shown' = Shown,
         \A r \in Shown : rooms'[r].messages = rooms[r].messages
  PROVE  Mail' /\ ServerTyped' /\ LogsGrow
<1>1. UNCHANGED <<alive, conn, down, userId, log, member, dmOwner, uncast>> /\ posts \in Nat
  BY ChatClientAssumption DEF serverVars, Typed
<1>2. Sent' = Sent
  BY <1>1 DEF Sent, Elements
<1>3. ServerTyped' /\ LogsGrow
  BY <1>1 DEF Typed, ServerTyped, LogsGrow
<1>4. LogOK'
  <2>1. \A i \in 1 .. posts : i \in 1 .. posts'
    BY <1>1
  <2> QED
    BY <1>1, <2>1 DEF Mail, LogOK
<1>5. SentOK' /\ Announced' /\ IdentityKnown' /\ Membership'
  BY <1>1, <1>2 DEF Mail, SentOK, Covered, Announced, IdentityKnown, Membership
<1>6. StoreOK' /\ Coming'
  BY <1>1, <1>2 DEF Mail, StoreOK, Covered, Coming
<1> QED
  BY <1>3, <1>4, <1>5, <1>6 DEF Mail

-----------------------------------------------------------------------------
(* What the browser makes of what has come *)

\* addRoom and addDMRoom leave the entries there are alone.
LEMMA WithRoomProps ==
  ASSUME rooms \in [Shown -> Entries], NEW r, NEW b \in BOOLEAN
  PROVE  /\ WithRoom(r, b) \in [Shown \cup {r} -> Entries]
         /\ \A x \in Shown : WithRoom(r, b)[x] = rooms[x]
         /\ r \notin Shown => /\ WithRoom(r, b)[r].isDM = b
                             /\ WithRoom(r, b)[r].unread = 0
                             /\ WithRoom(r, b)[r].messages = {}
<1>1. [isDM |-> b, unread |-> 0, messages |-> {}] \in Entries
  BY DEF Entries
<1> QED
  BY <1>1 DEF WithRoom

\* setActiveRoom changes nothing in the rooms but a badge.
LEMMA ActivateProps ==
  ASSUME NEW D, NEW rs \in [D -> Entries], NEW r, Activate(rs, r)
  PROVE  /\ Shown' = D /\ rooms' \in [D -> Entries]
         /\ \A x \in D : /\ rooms'[x].isDM = rs[x].isDM
                         /\ rooms'[x].messages = rs[x].messages
                         /\ rooms'[x].unread = IF x = r THEN 0 ELSE rs[x].unread
<1>1. \A e \in Entries : /\ [e EXCEPT !.unread = 0] \in Entries
                         /\ [e EXCEPT !.unread = 0].isDM = e.isDM
                         /\ [e EXCEPT !.unread = 0].messages = e.messages
                         /\ [e EXCEPT !.unread = 0].unread = 0
  BY DEF Entries
<1>2. rooms' = [x \in D |-> IF x = r THEN [rs[x] EXCEPT !.unread = 0] ELSE rs[x]]
  BY DEF Activate
<1>3. \A x \in D : /\ rs[x] \in Entries
                   /\ rooms'[x] = IF x = r THEN [rs[x] EXCEPT !.unread = 0] ELSE rs[x]
  BY <1>2
<1>4. Shown' = D
  BY <1>2 DEF Shown
<1> QED
  BY <1>1, <1>2, <1>3, <1>4

\* The store after a message from the server: it has what it had, and what came.
StoreTakes ==
  /\ Shown \subseteq Shown' /\ Shown' \subseteq Shown \cup {Head(down).room}
  /\ rooms' \in [Shown' -> Entries] /\ Shown' \subseteq Rooms
  /\ \A r \in Shown' : rooms'[r].isDM = (r \in DMs)
  /\ StoreOK'
  /\ \A r \in Rooms : Opens(Head(down), r) => r \in Shown'
  /\ \A r \in Shown : \A c \in rooms[r].messages : \E d \in rooms'[r].messages : d.id = c.id
  /\ \A r \in Shown : \A id : Brings(Head(down), r, id) => \E c \in rooms'[r].messages : c.id = id

\* The first of what is under way.
LEMMA First ==
  ASSUME Typed, Mail, NEW t, Received(t)
  PROVE  LET n == Head(down)
         IN  /\ n \in Notes /\ n.type = t /\ n = down[1] /\ conn > 0
             /\ t = "welcome" => n.what = conn
             /\ t \in {"room_joined", "dm_opened"} => (n.what <=> n.room \in DMs)
             /\ t \in {"message", "room_history"} => n.room \in Shown
             /\ t = "room_history" => SameIds(n.what) /\ \A m \in n.what : Covered(n.room, m)
             /\ t = "message" => Covered(n.room, n.what) /\ n.what.sender \in {0, conn}
             /\ t # "welcome" => userId = conn
             /\ down' = Tail(down)
             /\ UNCHANGED <<alive, conn, member, log, dmOwner, uncast, posts, named,
                             contextStack, ws, connected, timer, submitted, referred>>
<1>1. down # <<>> /\ down \in Seq(Notes) /\ Head(down).type = t /\ down' = Tail(down)
  BY DEF Received, Typed, ServerTyped
<1>2. Len(down) > 0 /\ Len(down) \in Nat /\ Head(down) = down[1] /\ down[1] \in Notes
  BY <1>1, Taken, LenProperties
<1>3. 1 \in 1 .. Len(down) /\ down[1] \in Sent
  BY <1>2 DEF Sent, Elements
<1>4. t \in {"message", "room_history"} => down[1].room \in Shown
  BY <1>1, <1>2, <1>3 DEF Mail, Announced
<1>5. UNCHANGED <<alive, conn, member, log, dmOwner, uncast, posts, named,
                  contextStack, ws, connected, timer, submitted, referred>>
  BY DEF Received, linkVars, serverVars, history
<1>6. t # "welcome" => userId = conn
  BY <1>1, <1>2 DEF Mail, IdentityKnown
<1>7. conn > 0
  BY <1>1 DEF Typed
<1> QED
  BY <1>1, <1>2, <1>3, <1>4, <1>5, <1>6, <1>7 DEF Mail, SentOK

\* A store that loses nothing, and has opened what the server opens.
LEMMA Shows ==
  ASSUME Typed, Mail, NEW t, Received(t), NEW D, D \subseteq Rooms,
         Shown \subseteq D, D \subseteq Shown \cup {Head(down).room},
         Shown' = D, rooms' \in [D -> Entries],
         t \notin {"message", "room_history"},
         t \in {"room_joined", "dm_opened"} => Head(down).room \in D,
         \A x \in D : rooms'[x].isDM = (x \in DMs),
         \A x \in Shown : \A c \in rooms[x].messages : \E d \in rooms'[x].messages : d.id = c.id,
         \A x \in D : SameIds(rooms'[x].messages),
         \A x \in D : \A c \in rooms'[x].messages : Covered(x, c)
  PROVE  StoreTakes
<1>1. Head(down).type = t /\ log' = log
  BY First
<1>2. \A x, id : ~Brings(Head(down), x, id)
  BY <1>1 DEF Brings
<1>3. \A x \in Rooms : Opens(Head(down), x) => x \in D
  BY <1>1 DEF Opens
<1>4. StoreOK'
  BY <1>1 DEF StoreOK, Covered
<1> QED
  BY <1>2, <1>3, <1>4 DEF StoreTakes

\* The identity leaves the store alone.
LEMMA IdentityTaken ==
  ASSUME Typed, Mail, HandleIdentity
  PROVE  StoreTakes
<1>1. Received("welcome") /\ Shown' = Shown /\ UNCHANGED rooms
  BY DEF HandleIdentity, Shown
<1>2. Head(down).type = "welcome"
  BY <1>1, First
<1> QED
  BY <1>1, <1>2, Shows DEF Typed, Mail, StoreOK

\* A room with nothing in it is one more to fill.
LEMMA WithRoomTaken ==
  ASSUME Typed, Mail, NEW t \in {"room_joined", "dm_opened"}, Received(t),
         NEW b \in BOOLEAN, b <=> Head(down).room \in DMs,
         NEW rs, rs = WithRoom(Head(down).room, b),
         rooms' = rs \/ Activate(rs, Head(down).room)
  PROVE  /\ StoreTakes /\ Shown' = Shown \cup {Head(down).room}
         /\ \A x \in Shown : rooms'[x].messages = rooms[x].messages
         /\ \A x \in Shown' \ Shown : rooms'[x].unread = 0
         /\ rooms' = rs => \A x \in Shown : rooms'[x].unread = rooms[x].unread
         /\ Activate(rs, Head(down).room) =>
              \A x \in Shown : rooms'[x].unread =
                                 IF x = Head(down).room THEN 0 ELSE rooms[x].unread
<1> DEFINE r == Head(down).room
           D == Shown \cup {r}
<1>1. r \in Rooms /\ Head(down).type = t
  BY First, NoteTypes
<1> HIDE DEF r
<1>2. /\ rs \in [D -> Entries]
      /\ \A x \in Shown : rs[x] = rooms[x]
      /\ r \notin Shown => rs[r].isDM = b /\ rs[r].unread = 0 /\ rs[r].messages = {}
  <2>1. rooms \in [Shown -> Entries] /\ rs = WithRoom(r, b)
    BY DEF Typed, r
  <2>2. /\ WithRoom(r, b) \in [Shown \cup {r} -> Entries]
        /\ \A x \in Shown : WithRoom(r, b)[x] = rooms[x]
        /\ r \notin Shown => /\ WithRoom(r, b)[r].isDM = b
                            /\ WithRoom(r, b)[r].unread = 0
                            /\ WithRoom(r, b)[r].messages = {}
    BY <2>1, WithRoomProps, Zenon
  <2> QED
    BY <2>1, <2>2
<1>3. /\ Shown' = D /\ rooms' \in [D -> Entries]
      /\ \A x \in D : /\ rooms'[x].isDM = rs[x].isDM
                      /\ rooms'[x].messages = rs[x].messages
                      /\ rooms' = rs => rooms'[x].unread = rs[x].unread
                      /\ Activate(rs, r) =>
                           rooms'[x].unread = IF x = r THEN 0 ELSE rs[x].unread
  <2>1. CASE rooms' = rs
    <3>1. Activate(rs, r) =>
            \A x \in D : rooms'[x].unread = IF x = r THEN 0 ELSE rs[x].unread
      BY <1>2, ActivateProps
    <3> QED
      BY <1>2, <2>1, <3>1 DEF Shown
  <2>2. CASE Activate(rs, r)
    BY <1>2, <2>2, ActivateProps
  <2> QED
    BY <2>1, <2>2 DEF r
<1>4. D \subseteq Rooms /\ \A x \in D : rooms'[x].isDM = (x \in DMs)
  BY <1>1, <1>2, <1>3 DEF Typed, r
<1>5. \A x \in Shown : rooms'[x].messages = rooms[x].messages
  BY <1>2, <1>3
<1>6. ASSUME NEW x \in D \ Shown
      PROVE  rooms'[x].messages = {} /\ rooms'[x].unread = 0
  <2>1. x = r /\ r \notin Shown
    OBVIOUS
  <2>2. rooms'[r].messages = rs[r].messages
    BY <1>3
  <2>3. rooms' = rs \/ Activate(rs, r)
    BY DEF r
  <2>4. rooms'[r].unread = rs[r].unread \/ rooms'[r].unread = 0
    BY <1>3, <2>3
  <2> QED
    BY <1>2, <2>1, <2>2, <2>4
<1>7. \A x \in D : /\ SameIds(rooms'[x].messages)
                   /\ \A c \in rooms'[x].messages : Covered(x, c)
  BY <1>5, <1>6 DEF Mail, StoreOK, SameIds
<1>8. StoreTakes
  BY <1>1, <1>3, <1>4, <1>5, <1>7, Shows DEF r
<1> QED
  BY <1>2, <1>3, <1>5, <1>6, <1>8 DEF r

\* Messages come into a room that is shown.
LEMMA MergeTaken ==
  ASSUME Typed, Mail, NEW t \in {"message", "room_history"}, Received(t),
         NEW r, r = Head(down).room, NEW ms \in SUBSET Messages, SameIds(ms),
         \A m \in ms : Covered(r, m),
         \A id : Brings(Head(down), r, id) => \E m \in ms : m.id = id,
         Shown' = Shown, rooms' \in [Shown -> Entries],
         \A x \in Shown : rooms'[x].isDM = rooms[x].isDM,
         \A x \in Shown \ {r} : rooms'[x].messages = rooms[x].messages,
         rooms'[r].messages = Merged(rooms[r].messages, ms)
  PROVE  StoreTakes
<1>1. r \in Shown /\ Head(down).type = t /\ log' = log
  BY First
<1>2. /\ rooms[r].messages \in SUBSET Messages /\ SameIds(rooms[r].messages)
      /\ \A c \in rooms[r].messages : Covered(r, c)
  BY <1>1 DEF Mail, StoreOK, Typed, Entries
<1>3. /\ SameIds(rooms'[r].messages)
      /\ \A m \in rooms'[r].messages :
           \E k \in rooms[r].messages \cup ms : k.id = m.id /\ k.sender = m.sender
      /\ \A k \in ms : \E m \in rooms'[r].messages : m.id = k.id
      /\ \A k \in rooms[r].messages : \E m \in rooms'[r].messages : m.id = k.id
  BY <1>2, MergedProps
<1>4. \A m \in rooms'[r].messages : Covered(r, m)
  BY <1>2, <1>3 DEF Covered
<1>5. StoreOK'
  BY <1>1, <1>3, <1>4 DEF Mail, StoreOK, Covered
<1>6. ASSUME NEW x \in Shown, NEW id, Brings(Head(down), x, id)
      PROVE  \E c \in rooms'[x].messages : c.id = id
  <2>1. x = r
    BY <1>6 DEF Brings
  <2>2. PICK m \in ms : m.id = id
    BY <1>6, <2>1
  <2> QED
    BY <1>3, <2>1, <2>2
<1>7. \A x : ~Opens(Head(down), x)
  BY <1>1 DEF Opens
<1> QED
  BY <1>3, <1>5, <1>6, <1>7 DEF StoreTakes, Typed

\* A history is merged, and raises no badge.
LEMMA HistoryTaken ==
  ASSUME Typed, Mail, HandleHistory
  PROVE  /\ StoreTakes /\ Shown' = Shown
         /\ \A x \in Shown : rooms'[x].unread = rooms[x].unread
<1> DEFINE r == Head(down).room
           ms == Head(down).what
           new == Merged(rooms[r].messages, ms)
<1>1. /\ Received("room_history")
      /\ rooms' = [x \in Shown |-> IF x = r THEN [rooms[x] EXCEPT !.messages = Merged(@, ms)]
                                   ELSE rooms[x]]
  BY DEF HandleHistory, SetRoomHistory
<1>2. /\ r \in Shown /\ ms \in SUBSET Messages /\ SameIds(ms)
      /\ Head(down).type = "room_history" /\ \A m \in ms : Covered(r, m)
  BY <1>1, First, NoteTypes
<1>3. \A id : Brings(Head(down), r, id) => \E m \in ms : m.id = id
  BY <1>2 DEF Brings
<1> HIDE DEF r, ms
<1>4. rooms[r].messages \in SUBSET Messages /\ SameIds(rooms[r].messages)
  BY <1>2 DEF Mail, StoreOK, Typed, Entries
<1>5. new \in SUBSET Messages
  BY <1>2, <1>4, MergedProps
<1> HIDE DEF new
<1>6. /\ Shown' = Shown /\ rooms' \in [Shown -> Entries]
      /\ \A x \in Shown : /\ rooms'[x].isDM = rooms[x].isDM
                          /\ rooms'[x].unread = rooms[x].unread
      /\ \A x \in Shown \ {r} : rooms'[x].messages = rooms[x].messages
      /\ rooms'[r].messages = new
  <2>1. rooms' = [x \in Shown |-> IF x = r THEN [rooms[x] EXCEPT !.messages = new]
                                  ELSE rooms[x]]
    BY <1>1 DEF new
  <2>2. rooms \in [Shown -> Entries]
    BY DEF Typed
  <2>3. \A x \in Shown : [rooms[x] EXCEPT !.messages = new] \in Entries
    BY <1>5, <2>2 DEF Entries
  <2>4. \A x \in Shown : /\ [rooms[x] EXCEPT !.messages = new].messages = new
                         /\ [rooms[x] EXCEPT !.messages = new].isDM = rooms[x].isDM
                         /\ [rooms[x] EXCEPT !.messages = new].unread = rooms[x].unread
    BY <1>5, <2>2 DEF Entries
  <2> QED
    BY <1>2, <2>1, <2>2, <2>3, <2>4 DEF Shown
<1>7. StoreTakes
  BY <1>1, <1>2, <1>3, <1>6, MergeTaken DEF r, new
<1> QED
  BY <1>6, <1>7

\* What raises a badge is a new message of somebody else, in a room that is not active.
LEMMA MessageTaken ==
  ASSUME Typed, Mail, HandleMessage
  PROVE  LET r == Head(down).room
             m == Head(down).what
         IN  /\ StoreTakes /\ Shown' = Shown /\ r \in Shown
             /\ \A x \in Shown \ {r} : rooms'[x].unread = rooms[x].unread
             /\ \/ rooms'[r].unread = rooms[r].unread
                \/ /\ rooms'[r].unread = rooms[r].unread + 1
                   /\ r # activeRoomId /\ m.sender = 0
                   /\ \A old \in rooms[r].messages : old.id # m.id
                   /\ \E new \in rooms'[r].messages : new.id = m.id /\ new.sender = 0
<1> DEFINE r == Head(down).room
           m == Head(down).what
           quiet == \/ r = activeRoomId \/ m.sender = userId
                    \/ r \in Shown /\ \E old \in rooms[r].messages : old.id = m.id
           new == Merged(rooms[r].messages, {m})
           n == IF quiet THEN rooms[r].unread ELSE rooms[r].unread + 1
<1>1. /\ Received("message")
      /\ rooms' = [x \in Shown |-> IF x # r THEN rooms[x]
                                   ELSE [rooms[x] EXCEPT !.messages = Merged(@, {m}),
                                           !.unread = IF quiet THEN @ ELSE @ + 1]]
  BY DEF HandleMessage, AddMessage
<1>2. /\ r \in Shown /\ m \in Messages /\ Head(down).type = "message"
      /\ Covered(r, m) /\ m.sender \in {0, conn} /\ userId = conn
  BY <1>1, First, NoteTypes
<1>3. \A id : Brings(Head(down), r, id) => \E k \in {m} : k.id = id
  BY <1>2 DEF Brings
<1> HIDE DEF r, m
<1>4. /\ rooms \in [Shown -> Entries] /\ rooms[r].unread \in Nat
      /\ rooms[r].messages \in SUBSET Messages /\ SameIds(rooms[r].messages)
  BY <1>2 DEF Mail, StoreOK, Typed, Entries
<1>5. {m} \in SUBSET Messages /\ SameIds({m})
  BY <1>2 DEF SameIds
<1>6. new \in SUBSET Messages /\ \E k \in new : k.id = m.id /\ k.sender = m.sender
  BY <1>4, <1>5, MergedProps
<1>7. n \in Nat /\ (quiet => n = rooms[r].unread) /\ (~quiet => n = rooms[r].unread + 1)
  BY <1>4
<1>8. rooms' = [x \in Shown |-> IF x # r THEN rooms[x]
                                ELSE [rooms[x] EXCEPT !.messages = new, !.unread = n]]
  BY <1>1, <1>4 DEF Entries
<1>9. ~quiet => /\ r # activeRoomId /\ m.sender = 0
                /\ \A old \in rooms[r].messages : old.id # m.id
  BY <1>2
<1> HIDE DEF new, n, quiet
<1>10. /\ Shown' = Shown /\ rooms' \in [Shown -> Entries]
       /\ \A x \in Shown : rooms'[x].isDM = rooms[x].isDM
       /\ \A x \in Shown \ {r} : /\ rooms'[x].messages = rooms[x].messages
                                 /\ rooms'[x].unread = rooms[x].unread
       /\ rooms'[r].messages = new /\ rooms'[r].unread = n
  <2>1. \A e \in Entries : /\ [e EXCEPT !.messages = new, !.unread = n] \in Entries
                           /\ [e EXCEPT !.messages = new, !.unread = n].isDM = e.isDM
                           /\ [e EXCEPT !.messages = new, !.unread = n].messages = new
                           /\ [e EXCEPT !.messages = new, !.unread = n].unread = n
    BY <1>6, <1>7 DEF Entries
  <2> QED
    BY <1>2, <1>4, <1>8, <2>1, Zenon DEF Shown
<1>11. StoreTakes
  BY <1>1, <1>2, <1>3, <1>5, <1>10, MergeTaken, ZenonT(60) DEF r, new
<1> QED
  BY <1>2, <1>6, <1>7, <1>9, <1>10, <1>11 DEF r, m

\* A deletion loses nothing, and raises no badge.
LEMMA DeletedTaken ==
  ASSUME Typed, Mail, HandleDeleted
  PROVE  /\ StoreTakes /\ Shown' = Shown
         /\ \A x \in Shown : rooms'[x].unread = rooms[x].unread
<1> DEFINE r == Head(down).room
           k == Head(down).what
           new(x) == [rooms[x] EXCEPT !.messages = Deleted(rooms[x].messages, k)]
<1>1. /\ Received("message_deleted")
      /\ rooms' = [x \in Shown |-> IF x # r THEN rooms[x] ELSE new(x)]
  BY DEF HandleDeleted, DeleteMessage, Deleted
<1>2. rooms \in [Shown -> Entries] /\ \A x \in Shown : rooms[x].messages \in SUBSET Messages
  BY DEF Typed, Entries
<1>3. ASSUME NEW x \in Shown
      PROVE  /\ Deleted(rooms[x].messages, k) \in SUBSET Messages
             /\ SameIds(Deleted(rooms[x].messages, k))
             /\ \A m \in Deleted(rooms[x].messages, k) :
                  \E d \in rooms[x].messages : d.id = m.id /\ d.sender = m.sender
             /\ \A d \in rooms[x].messages :
                  \E m \in Deleted(rooms[x].messages, k) : m.id = d.id /\ m.sender = d.sender
  BY <1>2, DeletedProps DEF Mail, StoreOK
<1>4. ASSUME NEW x \in Shown
      PROVE  /\ new(x) \in Entries /\ new(x).unread = rooms[x].unread
             /\ new(x).isDM = rooms[x].isDM
             /\ new(x).messages = Deleted(rooms[x].messages, k)
  BY <1>2, <1>3 DEF Entries
<1> HIDE DEF new, r, k
<1>5. /\ Shown' = Shown /\ rooms' \in [Shown -> Entries]
      /\ \A x \in Shown : rooms'[x].isDM = rooms[x].isDM /\ rooms'[x].unread = rooms[x].unread
      /\ \A x \in Shown : \/ rooms'[x].messages = rooms[x].messages
                          \/ rooms'[x].messages = Deleted(rooms[x].messages, k)
  BY <1>1, <1>2, <1>4 DEF Shown
<1>6. \A x \in Shown : /\ SameIds(rooms'[x].messages)
                       /\ \A c \in rooms[x].messages : \E d \in rooms'[x].messages : d.id = c.id
                       /\ \A c \in rooms'[x].messages : Covered(x, c)
  BY <1>3, <1>5 DEF Mail, StoreOK, Covered
<1>7. StoreTakes
  BY <1>1, <1>5, <1>6, Shows DEF Typed
<1> QED
  BY <1>5, <1>7

\* What the store takes comes off what is under way.
LEMMA TakenMail ==
  ASSUME Typed, Mail, NEW t, Received(t), StoreTakes,
         IF t = "welcome" THEN userId' = Head(down).what ELSE UNCHANGED userId
  PROVE  Mail' /\ ServerTyped' /\ LogsGrow
<1>1. /\ down # <<>> /\ down' = Tail(down) /\ Head(down).type = t /\ down \in Seq(Notes)
      /\ UNCHANGED <<alive, conn, member, log, dmOwner, uncast, posts>>
  BY First DEF Received, Typed, ServerTyped
<1>2. Mail'
  BY <1>1, MailTaken DEF StoreTakes
<1>3. ServerTyped' /\ LogsGrow
  BY <1>1, Taken DEF Typed, ServerTyped, LogsGrow
<1> QED
  BY <1>2, <1>3

\* What the store knows of others it keeps knowing.
LEMMA PeersKept ==
  ASSUME Typed, Mail, StoreTakes, UNCHANGED log
  PROVE  \A r \in Shown : PeerIds(rooms[r].messages) \subseteq PeerIds(rooms'[r].messages)
<1> SUFFICES ASSUME NEW r \in Shown, NEW c \in rooms[r].messages, c.sender = 0
             PROVE  \E d \in rooms'[r].messages : d.id = c.id /\ d.sender = 0
  BY DEF PeerIds
<1>1. r \in Rooms /\ r \in Shown'
  BY DEF Typed, StoreTakes
<1>2. PICK d \in rooms'[r].messages : d.id = c.id
  BY DEF StoreTakes
<1>3. PICK l \in log[r] : l.id = c.id /\ l.sender = 0
  BY DEF Mail, StoreOK, Covered
<1>4. PICK k \in log[r] : k.id = d.id /\ k.sender = d.sender
  BY <1>1 DEF StoreTakes, StoreOK, Covered
<1>5. k = l
  BY <1>1, <1>2, <1>3, <1>4 DEF Mail, LogOK, SameIds
<1> QED
  BY <1>2, <1>3, <1>4, <1>5

\* Every handler of onmessage takes what has come.
LEMMA OnMessageTakes ==
  ASSUME Typed, Mail, OnMessage
  PROVE  /\ StoreTakes /\ Mail' /\ ServerTyped' /\ LogsGrow
         /\ \A r \in Shown : PeerIds(rooms[r].messages) \subseteq PeerIds(rooms'[r].messages)
<1>8. UNCHANGED log
  BY DEF OnMessage, HandleIdentity, HandleRoomJoined, HandleHistory, HandleMessage,
         HandleDeleted, HandleDmOpened, Received, serverVars
<1> SUFFICES StoreTakes /\ Mail' /\ ServerTyped' /\ LogsGrow
  BY <1>8, PeersKept
<1>1. CASE HandleIdentity
  BY <1>1, IdentityTaken, TakenMail DEF HandleIdentity
<1>2. ASSUME NEW t \in {"room_joined", "dm_opened"}, Received(t), UNCHANGED userId,
             NEW b \in BOOLEAN, b <=> Head(down).room \in DMs,
             rooms' = WithRoom(Head(down).room, b)
               \/ Activate(WithRoom(Head(down).room, b), Head(down).room)
      PROVE  StoreTakes /\ Mail' /\ ServerTyped' /\ LogsGrow
  <2>1. StoreTakes
    BY <1>2, WithRoomTaken
  <2> QED
    BY <1>2, <2>1, TakenMail
<1>3. CASE HandleRoomJoined
  <2>1. /\ Received("room_joined") /\ UNCHANGED userId
        /\ \/ rooms' = WithRoom(Head(down).room, Head(down).what)
           \/ Activate(WithRoom(Head(down).room, Head(down).what), Head(down).room)
    BY <1>3 DEF HandleRoomJoined
  <2>2. /\ Head(down) \in Notes /\ Head(down).type = "room_joined"
        /\ Head(down).what <=> Head(down).room \in DMs
    BY <2>1, First
  <2>3. Head(down).what \in BOOLEAN
    BY <2>2, NoteTypes
  <2> QED
    BY <1>2, <2>1, <2>2, <2>3
<1>4. CASE HandleHistory
  <2>1. Received("room_history") /\ UNCHANGED userId
    BY <1>4 DEF HandleHistory
  <2> QED
    BY <1>4, <2>1, HistoryTaken, TakenMail
<1>5. CASE HandleMessage
  <2>1. Received("message") /\ UNCHANGED userId
    BY <1>5 DEF HandleMessage
  <2> QED
    BY <1>5, <2>1, MessageTaken, TakenMail
<1>6. CASE HandleDeleted
  <2>1. Received("message_deleted") /\ UNCHANGED userId
    BY <1>6 DEF HandleDeleted
  <2> QED
    BY <1>6, <2>1, DeletedTaken, TakenMail
<1>7. CASE HandleDmOpened
  <2>1. /\ Received("dm_opened") /\ UNCHANGED userId
        /\ Activate(WithRoom(Head(down).room, TRUE), Head(down).room)
    BY <1>7 DEF HandleDmOpened
  <2>2. /\ Head(down) \in Notes /\ Head(down).type = "dm_opened"
        /\ Head(down).what <=> Head(down).room \in DMs
    BY <2>1, First
  <2>3. Head(down).room \in DMs
    BY <2>2, OpenedDM
  <2> QED
    BY <1>2, <2>1, <2>3
<1> QED
  BY <1>1, <1>3, <1>4, <1>5, <1>6, <1>7 DEF OnMessage

-----------------------------------------------------------------------------
(* Every step keeps the mail in order *)

\* A request to join, whether it arrives or not.
LEMMA JoinsMail ==
  ASSUME Typed, Mail, NEW r \in Public, Joins(r), UNCHANGED <<linkVars, userId, rooms, history>>
  PROVE  Mail' /\ ServerTyped' /\ LogsGrow
<1>1. UNCHANGED <<alive, conn, userId, rooms, posts>> /\ Shown' = Shown /\ posts \in Nat
  BY ChatClientAssumption DEF linkVars, history, Shown, Typed
<1>2. CASE Dropped
  BY <1>1, <1>2, MailSame DEF Dropped
<1>3. CASE Arrives /\ ServeJoin(r)
  BY <1>1, <1>3, ServeJoinMail DEF Arrives
<1> QED
  BY <1>2, <1>3 DEF Joins

\* One case per action of Next.
LEMMA StepMail ==
  ASSUME Typed, Mail, [Next]_vars
  PROVE  Mail' /\ ServerTyped' /\ LogsGrow
<1> posts \in Nat
  BY ChatClientAssumption DEF Typed
<1>1. ASSUME UNCHANGED <<alive, conn, down, userId, serverVars, rooms>>,
             UNCHANGED posts
      PROVE  Mail' /\ ServerTyped' /\ LogsGrow
  BY <1>1, MailSame DEF Shown
<1>2. CASE Connect
  BY <1>1, <1>2 DEF Connect, history
<1>3. CASE OnOpen
  BY <1>3, OnOpenMail
<1>4. CASE Break \/ OnClose
  BY <1>4, LostMail
<1>5. CASE Closing
  BY <1>1, <1>5 DEF Closing, history
<1>6. CASE OnMessage
  BY <1>6, OnMessageTakes
<1>7. CASE EnterName
  BY <1>7, JoinsMail, ChatClientAssumption DEF EnterName
<1>8. CASE PopRoute
  BY <1>1, <1>8 DEF PopRoute, Looks, linkVars, history
<1>9. CASE StartDM
  <2>1. UNCHANGED <<alive, conn, userId, rooms, posts>> /\ Shown' = Shown
    BY <1>9 DEF StartDM, Looks, linkVars, history, Shown
  <2>2. CASE Dropped
    BY <2>1, <2>2, <1>1 DEF Dropped
  <2>3. CASE Arrives /\ \E d \in DMs : OpenDM(d)
    BY <2>1, <2>3, OpenDMMail DEF Arrives
  <2> QED
    BY <1>9, <2>2, <2>3 DEF StartDM
<1>10. ASSUME NEW r \in Rooms, SelectRoom(r)
       PROVE  Mail' /\ ServerTyped' /\ LogsGrow
  <2>1. /\ UNCHANGED <<alive, conn, down, userId, serverVars>> /\ posts' = posts
        /\ Activate(rooms, r)
    BY <1>10 DEF SelectRoom, Looks, linkVars, history
  <2>2. Shown' = Shown /\ \A x \in Shown : rooms'[x].messages = rooms[x].messages
    BY <2>1, ActivateProps DEF Typed
  <2> QED
    BY <2>1, <2>2, MailSame
<1>11. ASSUME NEW r \in Rooms, JoinDiscovered(r) \/ CreateRoom(r) \/ JoinByName(r)
       PROVE  Mail' /\ ServerTyped' /\ LogsGrow
  <2>1. /\ r \in Public /\ Joins(r) /\ UNCHANGED <<linkVars, userId, rooms, history>>
    BY <1>11 DEF JoinDiscovered, CreateRoom, JoinByName, Looks, Discoverable, Typed
  <2> QED
    BY <2>1, JoinsMail
<1>12. CASE Type \/ CancelReply \/ CancelContext
  BY <1>1, <1>12 DEF Type, CancelReply, CancelContext, InChat, Looks, linkVars, history
<1>13. CASE SendEdit
  BY <1>1, <1>13 DEF SendEdit, InChat, Looks, linkVars
<1>14. CASE SendMessage
  <2>1. /\ UNCHANGED <<alive, conn, userId, rooms>> /\ activeRoomId \in Shown
        /\ posts' = posts + 1 /\ posts < MaxPosts
        /\ Dropped \/ (Arrives /\ ServeSend(activeRoomId, posts + 1))
    BY <1>14 DEF SendMessage, InChat, Looks, linkVars
  <2>2. CASE Dropped
    BY <2>1, <2>2, MailSame DEF Dropped, Shown
  <2>3. CASE Arrives /\ ServeSend(activeRoomId, posts + 1)
    BY <2>1, <2>3, ServeSendMail DEF Arrives
  <2> QED
    BY <2>1, <2>2, <2>3
<1>15. ASSUME activeRoomId \in Shown, NEW m \in rooms[activeRoomId].messages, Reply(m) \/ Edit(m)
       PROVE  Mail' /\ ServerTyped' /\ LogsGrow
  BY <1>1, <1>15 DEF Reply, Edit, InChat, Looks, linkVars, history
<1>16. ASSUME activeRoomId \in Shown, NEW m \in rooms[activeRoomId].messages, Delete(m)
       PROVE  Mail' /\ ServerTyped' /\ LogsGrow
  <2>1. /\ UNCHANGED <<alive, conn, userId, rooms, posts>>
        /\ Dropped \/ (Arrives /\ ServeDelete(activeRoomId, m.id))
    BY <1>16 DEF Delete, InChat, Looks, linkVars, history
  <2>2. CASE Dropped
    BY <2>1, <2>2, <1>1 DEF Dropped
  <2>3. m.id \in Nat
    BY <1>16 DEF Typed, Entries, Messages
  <2>4. CASE Arrives /\ ServeDelete(activeRoomId, m.id)
    BY <1>16, <2>1, <2>3, <2>4, ServeDeleteMail DEF Arrives
  <2> QED
    BY <2>1, <2>2, <2>4
<1>17. ASSUME NEW r \in Rooms, PeerPosts(r)
       PROVE  Mail' /\ ServerTyped' /\ LogsGrow
  BY <1>17, PeerPostsMail
<1>18. ASSUME NEW r \in Rooms, NEW n \in 1 .. MaxPosts, PeerBroadcast(r, n)
       PROVE  Mail' /\ ServerTyped' /\ LogsGrow
  BY <1>18, PeerBroadcastMail
<1>19. CASE PeerOpensDM
  <2>1. /\ UNCHANGED <<alive, conn, userId, rooms, posts>> /\ alive
        /\ \E d \in DMs : OpenDM(d)
    BY <1>19 DEF PeerOpensDM, ServerStep, linkVars
  <2> QED
    BY <2>1, OpenDMMail
<1>20. CASE UNCHANGED vars
  BY <1>1, <1>20 DEF vars, linkVars, history
<1> QED
  BY <1>2, <1>3, <1>4, <1>5, <1>6, <1>7, <1>8, <1>9, <1>10, <1>11, <1>12, <1>13, <1>14,
     <1>15, <1>16, <1>17, <1>18, <1>19, <1>20 DEF Next, User, Others

-----------------------------------------------------------------------------
(* Every step keeps the types *)

\* The list, or the list and a chat on it.
LEMMA RouteProps ==
  ASSUME Typed
  PROVE  /\ Mounted => Route \in Shown /\ SubSeq(contextStack, 1, Len(contextStack) - 1) = <<None>>
         /\ ~Mounted => contextStack = <<None>>
         /\ Mounted <=> Len(contextStack) > 1
<1>1. None \notin Shown
  BY ChatClientAssumption DEF Typed, Rooms
<1>2. CASE contextStack = <<None>>
  BY <1>2 DEF Mounted, Route
<1>3. ASSUME NEW r \in Shown, contextStack = <<None, r>>
      PROVE  Route = r /\ r # None /\ SubSeq(contextStack, 1, Len(contextStack) - 1) = <<None>>
             /\ Len(contextStack) > 1
  <2>1. Len(contextStack) = 2 /\ Route = r /\ r # None
    BY <1>1, <1>3 DEF Route
  <2>2. SubSeq(<<None, r>>, 1, 2 - 1) = <<None>>
    <3> DEFINE p == <<None, r>>
               q == SubSeq(p, 1, 1)
               S == {None, r}
    <3>1. p[1] = None /\ \A i \in 1 .. 1 : p[i] \in S
      OBVIOUS
    <3> HIDE DEF p
    <3>2. q \in Seq(S) /\ Len(q) = 1 /\ \A i \in 1 .. 1 : q[i] = p[1 + i - 1]
      BY <3>1, SubSeqProperties
    <3>3. q[1] = None
      BY <3>1, <3>2
    <3>4. <<None>> \in Seq(S) /\ Len(<<None>>) = 1
      OBVIOUS
    <3> HIDE DEF q, S
    <3>5. q = <<None>>
      BY <3>2, <3>3, <3>4, SeqEqual
    <3> QED
      BY <3>5 DEF p, q
  <2> QED
    BY <1>3, <2>1, <2>2
<1> QED
  BY <1>2, <1>3 DEF Typed, Mounted, Route

\* A step that leaves connection and store alone.
LEMMA TypedSame ==
  ASSUME Typed, ServerTyped', UNCHANGED <<linkVars, userId, rooms, activeRoomId>>,
         posts' \in 0 .. MaxPosts, named' \in BOOLEAN, available' \subseteq Public,
         down' # <<>> => conn > 0,
         contextStack' \in {<<None>>} \cup {<<None, r>> : r \in Shown},
         ~Mounted' => composer' = Empty,
         composer' \in [text : Shown \cup {None}, replyTo : Nat \cup {None},
                        editing : Nat \cup {None}],
         submitted' \subseteq [id : Nat, room : Shown, conn : 0 .. conn],
         referred' \subseteq Rooms \X Nat
  PROVE  Typed'
BY DEF Typed, linkVars, Shown

\* Without reply and edit, the text is left.
LEMMA Cleared ==
  ASSUME NEW A, NEW B, NEW c \in [text : A, replyTo : B, editing : B]
  PROVE  [c EXCEPT !.replyTo = None, !.editing = None]
           = [text |-> c.text, replyTo |-> None, editing |-> None]
<1> DEFINE d == [c EXCEPT !.replyTo = None, !.editing = None]
<1>1. /\ d \in [text : A, replyTo : B \cup {None}, editing : B \cup {None}]
      /\ d.text = c.text /\ d.replyTo = None /\ d.editing = None
  OBVIOUS
<1> HIDE DEF d
<1>2. d = [text |-> d.text, replyTo |-> d.replyTo, editing |-> d.editing]
  BY <1>1
<1> QED
  BY <1>1, <1>2 DEF d

\* A chat on the list.
LEMMA Pushed ==
  ASSUME NEW r
  PROVE  Append(<<None>>, r) = <<None, r>>
<1>1. ASSUME NEW S, NEW p \in Seq(S), NEW q \in Seq(S), NEW e \in S, Len(q) = Len(p) + 1,
             \A i \in 1 .. Len(p) : q[i] = p[i], q[Len(q)] = e
      PROVE  Append(p, e) = q
  <2>1. /\ Append(p, e) \in Seq(S) /\ Len(p) \in Nat /\ Len(Append(p, e)) = Len(p) + 1
        /\ \A i \in 1 .. Len(p) : Append(p, e)[i] = p[i]
        /\ Append(p, e)[Len(p) + 1] = e
    OBVIOUS
  <2>2. \A i \in 1 .. Len(q) : Append(p, e)[i] = q[i]
    BY <1>1, <2>1
  <2> QED
    BY <1>1, <2>1, <2>2, SeqEqual
<1>2. /\ <<None>> \in Seq({None, r}) /\ <<None, r>> \in Seq({None, r}) /\ r \in {None, r}
      /\ Len(<<None, r>>) = Len(<<None>>) + 1 /\ <<None, r>>[Len(<<None, r>>)] = r
      /\ \A i \in 1 .. Len(<<None>>) : <<None, r>>[i] = <<None>>[i]
  OBVIOUS
<1> QED
  BY <1>1, <1>2, Zenon

\* One case per action of Next.
LEMMA StepTyped ==
  ASSUME Typed, Mail, [Next]_vars
  PROVE  Typed'
<1> USE ChatClientAssumption
<1>1. ServerTyped'
  BY StepMail
<1>2. posts \in Nat /\ conn \in Nat /\ Shown \subseteq Rooms
  BY DEF Typed
<1>3. CASE Connect \/ Break \/ Closing
  <2>1. /\ UNCHANGED <<conn, down, rooms, userId, named, available, posts, submitted, referred,
                       activeRoomId, contextStack, composer, connected>>
        /\ Shown' = Shown /\ Mounted' = Mounted
    BY <1>3 DEF Connect, Break, Closing, viewVars, history, Shown, Mounted, Route
  <2>2. /\ ws' \in {"none", "connecting", "open", "closing"}
        /\ timer' \in BOOLEAN /\ alive' \in BOOLEAN
        /\ alive' => ws' = "open" /\ connected'
        /\ connected' => ws' \in {"open", "closing"} /\ conn' > 0
        /\ timer' => ws' = "none"
    <3>1. /\ connected \in BOOLEAN /\ timer \in BOOLEAN /\ alive \in BOOLEAN
          /\ ws \in {"none", "connecting", "open", "closing"}
          /\ alive => ws = "open" /\ connected
          /\ connected => ws \in {"open", "closing"} /\ conn > 0
          /\ timer => ws = "none"
      BY DEF Typed
    <3>2. CASE Connect
      <4>1. /\ timer /\ ws' = "connecting" /\ timer' = FALSE
            /\ UNCHANGED <<connected, alive>>
        BY <3>2 DEF Connect
      <4>2. ~connected /\ ~alive
        BY <3>1, <4>1
      <4> QED
        BY <3>1, <4>1, <4>2
    <3>3. CASE Break
      BY <3>1, <3>3, <2>1 DEF Break
    <3>4. CASE Closing
      BY <3>1, <3>4, <2>1 DEF Closing
    <3> QED
      BY <1>3, <3>2, <3>3, <3>4
  <2> QED
    BY <1>1, <2>1, <2>2 DEF Typed
<1>4. CASE OnOpen
  <2>1. /\ ws' = "open" /\ connected' = TRUE /\ alive' = TRUE /\ conn' = conn + 1
        /\ conn < MaxConns /\ ws = "connecting"
        /\ UNCHANGED <<timer, rooms, userId, named, available, posts, submitted, referred,
                       activeRoomId, contextStack, composer>>
    BY <1>4 DEF OnOpen, Accepted, viewVars, history
  <2>2. Shown' = Shown /\ Mounted' = Mounted
    BY <2>1 DEF Shown, Mounted, Route
  <2>3. conn' \in 0 .. MaxConns /\ conn' > 0 /\ 0 .. conn \subseteq 0 .. conn'
        /\ 1 .. conn \subseteq 1 .. conn'
    BY <1>2, <2>1
  <2>4. submitted' \subseteq [id : Nat, room : Shown, conn : 0 .. conn']
    BY <2>1, <2>3 DEF Typed
  <2> QED
    BY <1>1, <2>1, <2>2, <2>3, <2>4 DEF Typed
<1>5. CASE OnClose
  <2>1. /\ ws' = "none" /\ connected' = FALSE /\ timer' = TRUE /\ down' = <<>> /\ ws = "closing"
        /\ UNCHANGED <<alive, conn, rooms, userId, named, available, posts, submitted, referred,
                       activeRoomId, contextStack, composer>>
    BY <1>5 DEF OnClose, viewVars, history
  <2>2. Shown' = Shown /\ Mounted' = Mounted
    BY <2>1 DEF Shown, Mounted, Route
  <2> QED
    BY <1>1, <2>1, <2>2 DEF Typed
<1>6. CASE OnMessage
  <2>1. StoreTakes
    BY <1>6, OnMessageTakes
  <2>2. PICK t : /\ Received(t)
                 /\ t = "welcome" => userId' = Head(down).what
                 /\ t # "welcome" => UNCHANGED userId
    BY <1>6 DEF OnMessage, HandleIdentity, HandleRoomJoined, HandleHistory, HandleMessage,
                HandleDeleted, HandleDmOpened
  <2>3. /\ UNCHANGED <<linkVars, named, contextStack, history>> /\ conn > 0
        /\ t = "welcome" => Head(down).what = conn
        /\ Head(down).type = t
    BY <2>2, First DEF Received, linkVars, history
  <2>4. userId' \in 1 .. conn \cup {None}
    BY <1>2, <2>2, <2>3 DEF Typed
  <2>5. /\ available' \subseteq Public
        /\ \/ UNCHANGED <<activeRoomId, composer>>
           \/ /\ activeRoomId' = Head(down).room /\ t \in {"room_joined", "dm_opened"}
              /\ composer' = IF Head(down).room = activeRoomId THEN composer
                             ELSE [composer EXCEPT !.replyTo = None, !.editing = None]
    BY <1>6, <2>3 DEF OnMessage, HandleIdentity, HandleRoomJoined, HandleHistory,
                HandleMessage, HandleDeleted, HandleDmOpened, Activate, Received, Typed
  <2>6. activeRoomId' \in Shown' \cup {None}
    <3>1. t \in {"room_joined", "dm_opened"} => Head(down).room \in Shown'
      <4> SUFFICES ASSUME t \in {"room_joined", "dm_opened"} PROVE Head(down).room \in Shown'
        OBVIOUS
      <4>1. Head(down) \in Notes
        BY <2>2, First
      <4>2. Head(down).room \in Rooms /\ Opens(Head(down), Head(down).room)
        BY <2>3, <4>1, NoteTypes DEF Opens
      <4> QED
        BY <2>1, <4>2 DEF StoreTakes
    <3> QED
      BY <2>1, <2>5, <3>1 DEF StoreTakes, Typed
  <2>7. Shown \subseteq Shown'
    BY <2>1 DEF StoreTakes
  <2>8. /\ composer' \in [text : Shown' \cup {None}, replyTo : Nat \cup {None},
                          editing : Nat \cup {None}]
        /\ composer = Empty => composer' = Empty
    <3>1. composer \in [text : Shown' \cup {None}, replyTo : Nat \cup {None},
                         editing : Nat \cup {None}]
      BY <2>7 DEF Typed
    <3>2. \/ composer' = composer
          \/ composer' = [composer EXCEPT !.replyTo = None, !.editing = None]
      BY <2>5
    <3>3. [composer EXCEPT !.replyTo = None, !.editing = None] \in
            [text : Shown' \cup {None}, replyTo : Nat \cup {None}, editing : Nat \cup {None}]
      BY <3>1
    <3>4. composer = Empty => [composer EXCEPT !.replyTo = None, !.editing = None] = Empty
      <4> SUFFICES ASSUME composer = Empty
                   PROVE  [composer EXCEPT !.replyTo = None, !.editing = None] = Empty
        OBVIOUS
      <4>1. composer.text = None
        BY DEF Empty
      <4>2. [composer EXCEPT !.replyTo = None, !.editing = None]
              = [text |-> composer.text, replyTo |-> None, editing |-> None]
        BY <3>1, Cleared
      <4> QED
        BY <4>1, <4>2 DEF Empty
    <3> QED
      BY <3>1, <3>2, <3>3, <3>4
  <2>9. contextStack' \in {<<None>>} \cup {<<None, r>> : r \in Shown'}
    BY <2>3, <2>7 DEF Typed
  <2>10. ~Mounted' => composer' = Empty
    BY <2>3, <2>8 DEF Typed, Mounted, Route
  <2>11. submitted' \subseteq [id : Nat, room : Shown', conn : 0 .. conn]
    BY <2>3, <2>7 DEF Typed, history
  <2>12. rooms' \in [Shown' -> Entries] /\ Shown' \subseteq Rooms
         /\ \A r \in Shown' : rooms'[r].isDM = (r \in DMs)
    BY <2>1 DEF StoreTakes
  <2>13. UNCHANGED <<ws, connected, timer, alive, conn, posts, named, referred>>
    BY <2>3 DEF linkVars, history
  <2> QED
    BY <1>1, <2>3, <2>4, <2>5, <2>6, <2>8, <2>9, <2>10, <2>11, <2>12, <2>13 DEF Typed
<1>7. ASSUME UNCHANGED <<linkVars, userId, rooms, activeRoomId>>,
             UNCHANGED down \/ alive
      PROVE  down' # <<>> => conn > 0
  BY <1>7 DEF Typed
<1>8. /\ posts \in 0 .. MaxPosts /\ named \in BOOLEAN /\ available \subseteq Public
      /\ contextStack \in {<<None>>} \cup {<<None, r>> : r \in Shown}
      /\ ~Mounted => composer = Empty
      /\ composer \in [text : Shown \cup {None}, replyTo : Nat \cup {None},
                       editing : Nat \cup {None}]
      /\ submitted \subseteq [id : Nat, room : Shown, conn : 0 .. conn]
      /\ referred \subseteq Rooms \X Nat
  BY DEF Typed
<1>9. ASSUME UNCHANGED <<linkVars, userId, rooms, viewVars, available, submitted, referred>>,
             UNCHANGED down \/ alive, named' \in BOOLEAN, posts' \in 0 .. MaxPosts
      PROVE  Typed'
  <2>1. UNCHANGED <<activeRoomId, contextStack, composer, available, submitted, referred>>
        /\ Mounted' = Mounted
    BY <1>9 DEF viewVars, Mounted, Route
  <2>2. down' # <<>> => conn > 0
    BY <1>7, <1>9, <2>1
  <2> QED
    BY <1>1, <1>8, <1>9, <2>1, <2>2, TypedSame
<1>10. \A r : Joins(r) => UNCHANGED down \/ alive
  BY DEF Joins, Dropped, Arrives
<1>11. ASSUME NEW r,
              EnterName \/ StartDM \/ JoinDiscovered(r) \/ CreateRoom(r) \/ JoinByName(r)
       PROVE  Typed'
  <2>1. /\ UNCHANGED <<linkVars, userId, rooms, viewVars, available, history>>
        /\ UNCHANGED down \/ alive
        /\ named' = TRUE \/ UNCHANGED named
    BY <1>10, <1>11 DEF EnterName, StartDM, JoinDiscovered, CreateRoom, JoinByName, Looks,
                        Dropped, Arrives
  <2> QED
    BY <1>8, <1>9, <2>1 DEF history
<1>12. ASSUME NEW r, NEW n,
              PeerPosts(r) \/ PeerBroadcast(r, n) \/ PeerOpensDM
       PROVE  Typed'
  <2>1. /\ UNCHANGED <<linkVars, userId, rooms, viewVars, available, submitted, referred, named>>
        /\ UNCHANGED down \/ alive
        /\ UNCHANGED posts \/ (posts < MaxPosts /\ posts' = posts + 1)
    BY <1>12 DEF PeerPosts, PeerBroadcast, PeerOpensDM, ServerStep
  <2>2. posts' \in 0 .. MaxPosts
    BY <1>8, <2>1
  <2> QED
    BY <1>8, <1>9, <2>1, <2>2
<1>13. ASSUME NEW r \in Rooms, SelectRoom(r)
       PROVE  Typed'
  <2>1. /\ Activate(rooms, r) /\ r \in Shown /\ contextStack = <<None>>
        /\ contextStack' = <<None, r>>
        /\ UNCHANGED <<linkVars, userId, named, available, down, history>>
    <3>1. /\ Activate(rooms, r) /\ r \in Shown /\ ~Mounted
          /\ contextStack' = Append(contextStack, r)
          /\ UNCHANGED <<linkVars, userId, named, available, down, history>>
      BY <1>13 DEF SelectRoom, Looks, Sections
    <3> QED
      BY <3>1, Pushed, RouteProps
  <2>2. /\ Shown' = Shown /\ rooms' \in [Shown -> Entries]
        /\ \A x \in Shown : rooms'[x].isDM = rooms[x].isDM
    BY <2>1, ActivateProps DEF Typed
  <2>3. /\ activeRoomId' = r
        /\ composer' = IF r = activeRoomId THEN composer
                       ELSE [composer EXCEPT !.replyTo = None, !.editing = None]
    BY <2>1 DEF Activate
  <2>4. composer' \in [text : Shown \cup {None}, replyTo : Nat \cup {None},
                       editing : Nat \cup {None}]
    BY <1>8, <2>3
  <2>5. Mounted'
    <3>1. <<None, r>>[Len(<<None, r>>)] = r /\ r # None
      BY <1>2, <2>1 DEF Rooms
    <3> QED
      BY <2>1, <3>1 DEF Mounted, Route
  <2> QED
    BY <1>1, <2>1, <2>2, <2>3, <2>4, <2>5 DEF Typed, linkVars, history
<1>14. CASE PopRoute
  <2>1. /\ contextStack' = <<None>> /\ composer' = Empty
        /\ UNCHANGED <<linkVars, userId, named, available, down, rooms, activeRoomId, history>>
    BY <1>14, RouteProps DEF PopRoute, Looks
  <2>2. Empty \in [text : Shown \cup {None}, replyTo : Nat \cup {None},
                   editing : Nat \cup {None}]
    BY DEF Empty
  <2> QED
    BY <1>1, <1>7, <1>8, <2>1, <2>2, TypedSame DEF history
<1>15. ASSUME InChat, UNCHANGED down \/ alive, posts' \in 0 .. MaxPosts,
              composer' \in [text : Shown \cup {None}, replyTo : Nat \cup {None},
                             editing : Nat \cup {None}],
              submitted' \subseteq [id : Nat, room : Shown, conn : 0 .. conn],
              referred' \subseteq Rooms \X Nat
       PROVE  Typed'
  <2>1. /\ UNCHANGED <<linkVars, userId, named, available, rooms, activeRoomId, contextStack>>
        /\ Mounted
    BY <1>15 DEF InChat, Looks
  <2>2. Mounted'
    BY <2>1 DEF Mounted, Route
  <2>3. down' # <<>> => conn > 0
    BY <1>7, <1>15, <2>1
  <2> QED
    BY <1>1, <1>8, <1>15, <2>1, <2>2, <2>3, TypedSame
<1>16. ASSUME InChat PROVE activeRoomId \in Shown /\ Header \in Shown
  BY <1>16, RouteProps DEF InChat, Header, Looks
<1>17. CASE Type \/ CancelReply \/ CancelContext
  <2>1. InChat /\ UNCHANGED <<down, history>>
    BY <1>17 DEF Type, CancelReply, CancelContext
  <2>2. composer' \in [text : Shown \cup {None}, replyTo : Nat \cup {None},
                       editing : Nat \cup {None}]
    BY <1>8, <1>16, <1>17, <2>1 DEF Type, CancelReply, CancelContext
  <2> QED
    BY <1>8, <1>15, <2>1, <2>2 DEF history
<1>18. ASSUME activeRoomId \in Shown, NEW m \in rooms[activeRoomId].messages,
              Reply(m) \/ Edit(m) \/ Delete(m)
       PROVE  Typed'
  <2>1. m.id \in Nat
    BY <1>18 DEF Typed, Entries, Messages
  <2>2. InChat /\ (UNCHANGED down \/ alive) /\ UNCHANGED history
    BY <1>18 DEF Reply, Edit, Delete, Dropped, Arrives
  <2>3. composer' \in [text : Shown \cup {None}, replyTo : Nat \cup {None},
                       editing : Nat \cup {None}]
    <3>1. \/ composer' = [composer EXCEPT !.replyTo = m.id, !.editing = None]
          \/ composer' = [text |-> Header, replyTo |-> None, editing |-> m.id]
          \/ composer' = composer
      BY <1>18 DEF Reply, Edit, Delete
    <3>2. Header \in Shown
      BY <1>16, <2>2
    <3>3. /\ [composer EXCEPT !.replyTo = m.id, !.editing = None] \in
               [text : Shown \cup {None}, replyTo : Nat \cup {None}, editing : Nat \cup {None}]
          /\ [text |-> Header, replyTo |-> None, editing |-> m.id] \in
               [text : Shown \cup {None}, replyTo : Nat \cup {None}, editing : Nat \cup {None}]
      BY <1>8, <2>1, <3>2
    <3> QED
      BY <1>8, <3>1, <3>3
  <2> QED
    BY <1>8, <1>15, <2>2, <2>3 DEF history
<1>19. CASE SendEdit
  <2>1. /\ InChat /\ composer.editing # None
        /\ referred' = referred \cup {<<activeRoomId, composer.editing>>}
        /\ composer' = [composer EXCEPT !.text = None, !.editing = None]
        /\ UNCHANGED <<down, posts, submitted>>
    BY <1>19 DEF SendEdit
  <2>2. referred' \subseteq Rooms \X Nat
    BY <1>2, <1>8, <1>16, <2>1
  <2>3. composer' \in [text : Shown \cup {None}, replyTo : Nat \cup {None},
                       editing : Nat \cup {None}]
    BY <1>8, <2>1
  <2> QED
    BY <1>8, <1>15, <2>1, <2>2, <2>3
<1>20. CASE SendMessage
  <2>1. /\ InChat /\ posts < MaxPosts /\ posts' = posts + 1
        /\ UNCHANGED down \/ alive
        /\ composer' = [composer EXCEPT !.text = None, !.replyTo = None]
        /\ referred' = referred \cup
             {<<activeRoomId, n>> : n \in {composer.replyTo} \ {None}}
    BY <1>20 DEF SendMessage, Dropped, Arrives
  <2>2. submitted' = submitted \cup
          {[id |-> posts + 1, room |-> activeRoomId, conn |-> IF connected THEN conn ELSE 0]}
    BY <1>20 DEF SendMessage
  <2>3. referred' \subseteq Rooms \X Nat
    BY <1>2, <1>8, <1>16, <2>1
  <2>4. composer' \in [text : Shown \cup {None}, replyTo : Nat \cup {None},
                       editing : Nat \cup {None}]
    BY <1>8, <2>1
  <2>5. submitted' \subseteq [id : Nat, room : Shown, conn : 0 .. conn]
    BY <1>2, <1>8, <1>16, <2>1, <2>2
  <2>6. posts' \in 0 .. MaxPosts
    BY <1>8, <2>1
  <2> QED
    BY <1>15, <2>1, <2>3, <2>4, <2>5, <2>6
<1>21. CASE UNCHANGED vars
  BY <1>8, <1>9, <1>21 DEF vars, linkVars, history
<1> QED
  BY <1>3, <1>4, <1>5, <1>6, <1>11, <1>12, <1>13, <1>14, <1>17, <1>18, <1>19, <1>20, <1>21
     DEF Next, User, Others

-----------------------------------------------------------------------------
(* Every step keeps what the user has written where it belongs *)

\* How a step may change what reply and edit refer to.
LEMMA ComposerStep ==
  ASSUME Typed, Mail, [Next]_vars
  PROVE  \/ /\ activeRoomId' = activeRoomId
            /\ composer'.replyTo \in {None, composer.replyTo}
            /\ composer'.editing \in {None, composer.editing}
         \/ composer'.replyTo = None /\ composer'.editing = None
         \/ /\ activeRoomId' = activeRoomId /\ activeRoomId \in Shown
            /\ \E m \in rooms[activeRoomId].messages :
                 composer'.replyTo \in {None, m.id} /\ composer'.editing \in {None, m.id}
<1>1. composer \in [text : Shown \cup {None}, replyTo : Nat \cup {None},
                    editing : Nat \cup {None}]
  BY DEF Typed
<1>2. ASSUME UNCHANGED <<activeRoomId, composer>>
      PROVE  /\ activeRoomId' = activeRoomId
             /\ composer'.replyTo \in {None, composer.replyTo}
             /\ composer'.editing \in {None, composer.editing}
  BY <1>2
<1>3. ASSUME NEW rs, NEW r, Activate(rs, r)
      PROVE  \/ UNCHANGED <<activeRoomId, composer>>
             \/ composer'.replyTo = None /\ composer'.editing = None
  BY <1>1, <1>3 DEF Activate
<1>4. CASE Connect \/ OnOpen \/ Break \/ Closing \/ OnClose
  BY <1>2, <1>4 DEF Connect, OnOpen, Accepted, Break, Closing, OnClose, viewVars
<1>5. CASE OnMessage
  BY <1>2, <1>3, <1>5 DEF OnMessage, HandleIdentity, HandleRoomJoined, HandleHistory,
     HandleMessage, HandleDeleted, HandleDmOpened
<1>6. ASSUME NEW r, NEW n, Others
      PROVE  UNCHANGED <<activeRoomId, composer>>
  BY <1>6 DEF Others, PeerPosts, PeerBroadcast, PeerOpensDM, ServerStep, viewVars
<1>7. ASSUME NEW r, \/ EnterName \/ StartDM \/ JoinDiscovered(r)
                    \/ CreateRoom(r) \/ JoinByName(r) \/ UNCHANGED vars
      PROVE  UNCHANGED <<activeRoomId, composer>>
  BY <1>7 DEF EnterName, StartDM, JoinDiscovered, CreateRoom, JoinByName, viewVars, vars
<1>8. ASSUME NEW r, SelectRoom(r)
      PROVE  \/ UNCHANGED <<activeRoomId, composer>>
             \/ composer'.replyTo = None /\ composer'.editing = None
  BY <1>3, <1>8 DEF SelectRoom
<1>9. CASE PopRoute
  BY <1>9 DEF PopRoute, Empty
<1>10. ASSUME \/ Type \/ CancelReply \/ CancelContext \/ SendEdit \/ SendMessage
              \/ \E m \in rooms[activeRoomId].messages : Delete(m)
       PROVE  /\ activeRoomId' = activeRoomId
              /\ composer'.replyTo \in {None, composer.replyTo}
              /\ composer'.editing \in {None, composer.editing}
  BY <1>1, <1>10 DEF Type, CancelReply, CancelContext, SendEdit, SendMessage, Delete, InChat
<1>11. ASSUME NEW m \in rooms[activeRoomId].messages, Reply(m) \/ Edit(m)
       PROVE  /\ activeRoomId' = activeRoomId /\ activeRoomId \in Shown
              /\ composer'.replyTo \in {None, m.id} /\ composer'.editing \in {None, m.id}
  <2>1. activeRoomId' = activeRoomId /\ activeRoomId \in Shown
    BY <1>11 DEF Reply, Edit, InChat
  <2>2. CASE Reply(m)
    <3>1. composer' = [composer EXCEPT !.replyTo = m.id, !.editing = None]
      BY <2>2 DEF Reply
    <3> QED
      BY <1>1, <2>1, <3>1
  <2>3. CASE Edit(m)
    BY <2>1, <2>3 DEF Edit
  <2> QED
    BY <1>11, <2>2, <2>3
<1> QED
  BY <1>2, <1>4, <1>5, <1>6, <1>7, <1>8, <1>9, <1>10, <1>11 DEF Next, User

\* Reply and edit stay within the active room.
LEMMA StepComposer ==
  ASSUME Typed, Mail, ComposerOK, [Next]_vars
  PROVE  ComposerOK'
<1>1. LogsGrow
  BY StepMail
<1>2. Shown \subseteq Rooms /\ None \notin Rooms /\ activeRoomId \in Shown \cup {None}
  BY ChatClientAssumption DEF Typed, Rooms
<1>3. ASSUME NEW x, activeRoomId # None, \E l \in log[activeRoomId] : l.id = x
      PROVE  \E l \in log'[activeRoomId] : l.id = x
  BY <1>1, <1>2, <1>3 DEF LogsGrow
<1>4. CASE /\ activeRoomId' = activeRoomId
           /\ composer'.replyTo \in {None, composer.replyTo}
           /\ composer'.editing \in {None, composer.editing}
  BY <1>3, <1>4 DEF ComposerOK
<1>5. CASE composer'.replyTo = None /\ composer'.editing = None
  BY <1>5 DEF ComposerOK
<1>6. ASSUME activeRoomId' = activeRoomId, activeRoomId \in Shown,
             NEW m \in rooms[activeRoomId].messages,
             composer'.replyTo \in {None, m.id}, composer'.editing \in {None, m.id}
      PROVE  ComposerOK'
  <2>1. \E l \in log[activeRoomId] : l.id = m.id
    BY <1>6 DEF Mail, StoreOK, Covered
  <2>2. activeRoomId # None
    BY <1>2, <1>6
  <2> QED
    BY <1>3, <1>6, <2>1, <2>2 DEF ComposerOK
<1> QED
  BY <1>4, <1>5, <1>6, ComposerStep

\* What is sent refers to what the composer did.
LEMMA StepReferred ==
  ASSUME Typed, Mail, ComposerOK, RefersToItsRoom, [Next]_vars
  PROVE  RefersToItsRoom'
<1>1. LogsGrow
  BY StepMail
<1>2. Shown \subseteq Rooms /\ None \notin Rooms /\ activeRoomId \in Shown \cup {None}
      /\ referred \subseteq Rooms \X Nat
  BY ChatClientAssumption DEF Typed, Rooms
<1>3. \A y \in referred' : \/ y \in referred
                           \/ /\ y[1] = activeRoomId
                              /\ y[2] \in {composer.replyTo, composer.editing} \ {None}
  <2>1. CASE SendEdit
    BY <2>1 DEF SendEdit
  <2>2. CASE SendMessage
    BY <2>2 DEF SendMessage
  <2>3. CASE ~SendEdit /\ ~SendMessage
    <3>1. UNCHANGED referred
      BY <2>3 DEF Next, OnMessage, User, Others, Connect, OnOpen, Accepted, Break, Closing,
         OnClose, HandleIdentity, HandleRoomJoined, HandleHistory, HandleMessage,
         HandleDeleted, HandleDmOpened, Received, EnterName, PopRoute, StartDM, SelectRoom,
         JoinDiscovered, CreateRoom, JoinByName, Type, CancelReply, CancelContext,
         Reply, Edit, Delete, PeerPosts, PeerBroadcast, PeerOpensDM, ServerStep, history, vars
    <3> QED
      BY <3>1
  <2> QED
    BY <2>1, <2>2, <2>3
<1>4. ASSUME NEW y \in referred
      PROVE  \E m \in log'[y[1]] : m.id = y[2]
  <2>1. y[1] \in Rooms /\ \E m \in log[y[1]] : m.id = y[2]
    BY <1>2 DEF RefersToItsRoom
  <2> QED
    BY <1>1, <2>1 DEF LogsGrow
<1>5. ASSUME NEW x \in {composer.replyTo, composer.editing} \ {None}
      PROVE  \E m \in log'[activeRoomId] : m.id = x
  <2>1. activeRoomId \in Rooms /\ \E l \in log[activeRoomId] : l.id = x
    BY <1>2 DEF ComposerOK
  <2> QED
    BY <1>1, <2>1 DEF LogsGrow
<1> QED
  BY <1>3, <1>4, <1>5 DEF RefersToItsRoom

\* Identities are given once, and a connection that has broken does not come back.
LEMMA ConnStep ==
  ASSUME Typed, [Next]_vars
  PROVE  (UNCHANGED conn /\ (alive' => alive)) \/ conn' = conn + 1
<1>1. CASE OnOpen
  BY <1>1 DEF OnOpen, Accepted
<1>2. CASE Connect \/ Break \/ Closing \/ OnClose
  BY <1>2 DEF Connect, Break, Closing, OnClose
<1>3. CASE OnMessage \/ Others \/ UNCHANGED vars
  <2>1. UNCHANGED linkVars
    BY <1>3 DEF OnMessage, HandleIdentity, HandleRoomJoined, HandleHistory, HandleMessage,
       HandleDeleted, HandleDmOpened, Received, Others, PeerPosts, PeerBroadcast, PeerOpensDM,
       ServerStep, vars
  <2> QED
    BY <2>1 DEF linkVars
<1>4. CASE User
  <2>1. UNCHANGED linkVars
    BY <1>4 DEF User, EnterName, PopRoute, StartDM, SelectRoom, JoinDiscovered, CreateRoom,
       JoinByName, Type, CancelReply, CancelContext, SendEdit, SendMessage, Reply, Edit,
       Delete, InChat, Looks
  <2> QED
    BY <2>1 DEF linkVars
<1> QED
  BY <1>1, <1>2, <1>3, <1>4 DEF Next

\* Only the composer sends.
LEMMA SubmittedStep ==
  ASSUME [Next]_vars
  PROVE  UNCHANGED submitted \/ SendMessage
BY DEF Next, OnMessage, User, Others, Connect, OnOpen, Accepted, Break, Closing,
   OnClose, HandleIdentity, HandleRoomJoined, HandleHistory, HandleMessage,
   HandleDeleted, HandleDmOpened, Received, EnterName, PopRoute, StartDM, SelectRoom,
   JoinDiscovered, CreateRoom, JoinByName, Type, CancelReply, CancelContext, SendEdit,
   Reply, Edit, Delete, PeerPosts, PeerBroadcast, PeerOpensDM, ServerStep, history, vars

\* What was accounted for stays so, and so is what is sent.
LEMMA StepSubmitted ==
  ASSUME Typed, Mail, SubmittedAccounted, [Next]_vars
  PROVE  SubmittedAccounted'
<1> DEFINE Fine(s) == \/ \E m \in log'[s.room] : m.id = s.id
                      \/ s.conn # 0 /\ (s.conn < conn' \/ ~alive')
                      \/ s.room \in DMs /\ dmOwner'[s.room] # conn'
<1>1. LogsGrow
  BY StepMail
<1>2. conn \in Nat /\ posts \in Nat /\ dmOwner \in [DMs -> 0 .. conn] /\ Shown \subseteq Rooms
  BY ChatClientAssumption DEF Typed, ServerTyped
<1>3. (UNCHANGED conn /\ (alive' => alive)) \/ conn' = conn + 1
  BY ConnStep
<1>4. ASSUME NEW s \in submitted
      PROVE  Fine(s)
  <2>1. s.conn \in 0 .. conn /\ s.room \in Shown /\ s.room \in Rooms
    BY <1>2 DEF Typed
  <2>2. CASE \E m \in log[s.room] : m.id = s.id
    BY <1>1, <2>1, <2>2 DEF LogsGrow
  <2>3. CASE s.conn # 0 /\ (s.conn < conn \/ ~alive)
    BY <1>2, <1>3, <2>1, <2>3
  <2>4. CASE s.room \in DMs /\ dmOwner[s.room] # conn
    <3>1. dmOwner[s.room] # 0
      BY <2>1, <2>4 DEF Mail, Membership
    <3>2. dmOwner'[s.room] = dmOwner[s.room] /\ dmOwner[s.room] \in 0 .. conn
      BY <1>1, <1>2, <2>4, <3>1 DEF LogsGrow
    <3>3. dmOwner'[s.room] # conn'
      BY <1>2, <1>3, <2>4, <3>2
    <3> QED
      BY <2>4, <3>3
  <2> QED
    BY <2>2, <2>3, <2>4 DEF SubmittedAccounted
<1>5. ASSUME SendMessage, NEW s,
             s = [id |-> posts + 1, room |-> activeRoomId,
                  conn |-> IF connected THEN conn ELSE 0]
      PROVE  Fine(s)
  <2>1. /\ activeRoomId \in Shown /\ connected /\ UNCHANGED <<alive, conn, userId, rooms>>
        /\ posts < MaxPosts /\ posts' = posts + 1
        /\ Dropped \/ (Arrives /\ ServeSend(activeRoomId, posts + 1))
    BY <1>5 DEF SendMessage, InChat, CanSend, Looks, linkVars
  <2>2. s.id = posts + 1 /\ s.room = activeRoomId /\ s.conn = conn
    BY <1>5, <2>1
  <2>3. CASE Dropped
    <3>1. conn > 0 /\ ~alive
      BY <2>1, <2>3 DEF Dropped, Typed
    <3> QED
      BY <1>2, <2>1, <2>2, <3>1
  <2>4. CASE Arrives /\ ServeSend(activeRoomId, posts + 1)
    <3>1. CASE activeRoomId \in member
      BY <2>1, <2>2, <2>4, <3>1, ServeSendMail DEF Arrives
    <3>2. CASE activeRoomId \notin member
      <4>1. activeRoomId \in DMs /\ dmOwner[activeRoomId] # conn
        BY <1>2, <2>1, <2>4, <3>2 DEF Mail, Membership, Arrives
      <4>2. UNCHANGED dmOwner
        BY <2>4 DEF ServeSend
      <4> QED
        BY <2>1, <2>2, <4>1, <4>2
    <3> QED
      BY <3>1, <3>2
  <2> QED
    BY <2>1, <2>3, <2>4
<1>6. \A s \in submitted' : Fine(s)
  BY <1>4, <1>5, SubmittedStep DEF SendMessage
<1> QED
  BY <1>6 DEF SubmittedAccounted

-----------------------------------------------------------------------------
(* Every step keeps the badges honest *)
\* Ids of others are among the ids given so far.
LEMMA PeersFinite ==
  ASSUME NEW ms, NEW L, NEW n \in Nat,
         \A m \in ms : \E l \in L : l.id = m.id, \A l \in L : l.id \in 1 .. n
  PROVE  /\ IsFiniteSet(PeerIds(ms)) /\ Cardinality(PeerIds(ms)) \in Nat
         /\ Cardinality(PeerIds(ms)) <= n
<1>1. PeerIds(ms) \subseteq 1 .. n
  BY DEF PeerIds
<1>2. IsFiniteSet(1 .. n) /\ Cardinality(1 .. n) = n
  BY FS_Interval
<1>3. IsFiniteSet(PeerIds(ms)) /\ Cardinality(PeerIds(ms)) <= n
  BY <1>1, <1>2, FS_Subset
<1> QED
  BY <1>3, FS_CardinalityType

\* A step that leaves messages and active room alone.
LEMMA BadgesSame ==
  ASSUME Badges, UNCHANGED <<rooms, activeRoomId>>
  PROVE  Badges'
BY DEF Badges, Shown

\* One case per action of Next.
LEMMA StepBadges ==
  ASSUME Typed, Mail, Badges, [Next]_vars
  PROVE  Badges'
<1>1. Mail' /\ Typed'
  BY StepMail, StepTyped
<1>2. posts \in Nat /\ posts' \in Nat /\ Shown \subseteq Rooms /\ None \notin Shown
      /\ rooms \in [Shown -> Entries] /\ activeRoomId \in Shown \cup {None}
  BY <1>1, ChatClientAssumption DEF Typed, Rooms
<1>3. ASSUME NEW r \in Shown'
      PROVE  /\ IsFiniteSet(PeerIds(rooms'[r].messages))
             /\ Cardinality(PeerIds(rooms'[r].messages)) \in Nat
  <2>1. r \in Rooms
    BY <1>1 DEF Typed
  <2>2. /\ \A m \in rooms'[r].messages : \E l \in log'[r] : l.id = m.id
        /\ \A l \in log'[r] : l.id \in 1 .. posts'
    BY <1>1, <2>1 DEF Mail, StoreOK, Covered, LogOK
  <2> QED
    BY <1>2, <2>2, PeersFinite
<1>4. ASSUME NEW r \in Shown, r \in Shown',
             PeerIds(rooms[r].messages) \subseteq PeerIds(rooms'[r].messages)
      PROVE  rooms[r].unread <= Cardinality(PeerIds(rooms'[r].messages))
  <2>1. /\ Cardinality(PeerIds(rooms[r].messages)) <= Cardinality(PeerIds(rooms'[r].messages))
        /\ IsFiniteSet(PeerIds(rooms[r].messages))
    BY <1>3, <1>4, FS_Subset
  <2>2. /\ Cardinality(PeerIds(rooms[r].messages)) \in Nat
        /\ Cardinality(PeerIds(rooms'[r].messages)) \in Nat
        /\ rooms[r].unread \in Nat
    BY <1>2, <1>3, <1>4, <2>1, FS_CardinalityType DEF Entries
  <2> QED
    BY <2>1, <2>2 DEF Badges
<1>5. CASE Connect \/ OnOpen \/ Break \/ Closing \/ OnClose
  BY <1>5, BadgesSame DEF Connect, OnOpen, Accepted, Break, Closing, OnClose, viewVars
<1>6. CASE Others \/ UNCHANGED vars
  BY <1>6, BadgesSame
     DEF Others, PeerPosts, PeerBroadcast, PeerOpensDM, ServerStep, viewVars, vars
<1>7. ASSUME NEW r, SelectRoom(r)
      PROVE  Badges'
  <2>1. /\ Shown' = Shown /\ activeRoomId' = r
        /\ \A x \in Shown : /\ rooms'[x].messages = rooms[x].messages
                            /\ rooms'[x].unread = IF x = r THEN 0 ELSE rooms[x].unread
    <3>1. Activate(rooms, r)
      BY <1>7 DEF SelectRoom
    <3>2. activeRoomId' = r
      BY <3>1 DEF Activate
    <3> QED
      BY <1>2, <3>1, <3>2, ActivateProps
  <2> QED
    BY <1>3, <2>1 DEF Badges
<1>8. ASSUME User, \A r : ~SelectRoom(r)
      PROVE  Badges'
  <2>1. UNCHANGED <<rooms, activeRoomId>>
    BY <1>8 DEF User, EnterName, PopRoute, StartDM, JoinDiscovered, CreateRoom,
       JoinByName, Type, CancelReply, CancelContext, SendEdit, SendMessage, Reply, Edit,
       Delete, InChat, Looks, viewVars
  <2> QED
    BY <2>1, BadgesSame
<1>9. CASE OnMessage
  <2>1. /\ StoreTakes
        /\ \A r \in Shown : PeerIds(rooms[r].messages) \subseteq PeerIds(rooms'[r].messages)
    BY <1>9, OnMessageTakes
  <2>2. \A r \in Shown : rooms[r].unread <= Cardinality(PeerIds(rooms'[r].messages))
    BY <1>4, <2>1 DEF StoreTakes
  <2>3. ASSUME Shown' = Shown, UNCHANGED activeRoomId,
               \A x \in Shown : rooms'[x].unread = rooms[x].unread
        PROVE  Badges'
    BY <2>2, <2>3 DEF Badges
  <2>4. ASSUME NEW t \in {"room_joined", "dm_opened"}, Received(t),
               NEW b \in BOOLEAN, b <=> Head(down).room \in DMs,
               \/ rooms' = WithRoom(Head(down).room, b) /\ UNCHANGED activeRoomId
                    /\ activeRoomId # None
               \/ Activate(WithRoom(Head(down).room, b), Head(down).room)
        PROVE  Badges'
    <3>1. /\ Shown \subseteq Shown'
          /\ \A x \in Shown' \ Shown : rooms'[x].unread = 0
          /\ rooms' = WithRoom(Head(down).room, b)
               => \A x \in Shown : rooms'[x].unread = rooms[x].unread
          /\ Activate(WithRoom(Head(down).room, b), Head(down).room) =>
               \A x \in Shown : rooms'[x].unread =
                                  IF x = Head(down).room THEN 0 ELSE rooms[x].unread
      BY <2>4, WithRoomTaken
    <3>2. \A x \in Shown' \ Shown : 0 <= Cardinality(PeerIds(rooms'[x].messages))
      BY <1>3
    <3>3. \A x \in Shown : 0 <= Cardinality(PeerIds(rooms'[x].messages))
      BY <1>3, <3>1
    <3>4. CASE rooms' = WithRoom(Head(down).room, b) /\ UNCHANGED activeRoomId
                 /\ activeRoomId # None
      BY <1>2, <2>2, <3>1, <3>2, <3>4 DEF Badges
    <3>5. CASE Activate(WithRoom(Head(down).room, b), Head(down).room)
      <4>1. activeRoomId' = Head(down).room
        BY <3>5 DEF Activate
      <4> QED
        BY <2>2, <3>1, <3>2, <3>3, <3>5, <4>1 DEF Badges
    <3> QED
      BY <2>4, <3>4, <3>5
  <2>5. CASE HandleIdentity
    BY <2>5, BadgesSame DEF HandleIdentity
  <2>6. CASE HandleHistory
    BY <2>3, <2>6, HistoryTaken DEF HandleHistory
  <2>7. CASE HandleDeleted
    BY <2>3, <2>7, DeletedTaken DEF HandleDeleted
  <2>8. CASE HandleRoomJoined
    <3>1. /\ Received("room_joined")
          /\ \/ rooms' = WithRoom(Head(down).room, Head(down).what) /\ UNCHANGED activeRoomId
                  /\ activeRoomId # None
             \/ Activate(WithRoom(Head(down).room, Head(down).what), Head(down).room)
      BY <2>8 DEF HandleRoomJoined
    <3>2. /\ Head(down) \in Notes /\ Head(down).type = "room_joined"
          /\ Head(down).what <=> Head(down).room \in DMs
      BY <3>1, First
    <3>3. Head(down).what \in BOOLEAN
      BY <3>2, NoteTypes
    <3> QED
      BY <2>4, <3>1, <3>2, <3>3
  <2>9. CASE HandleDmOpened
    <3>1. /\ Received("dm_opened")
          /\ Activate(WithRoom(Head(down).room, TRUE), Head(down).room)
      BY <2>9 DEF HandleDmOpened
    <3>2. Head(down) \in Notes /\ Head(down).type = "dm_opened"
      BY <3>1, First
    <3>3. Head(down).room \in DMs
      BY <3>2, OpenedDM
    <3> QED
      BY <2>4, <3>1, <3>3
  <2>10. CASE HandleMessage
    <3> DEFINE r == Head(down).room
               m == Head(down).what
               old == PeerIds(rooms[r].messages)
               new == PeerIds(rooms'[r].messages)
    <3>1. /\ Shown' = Shown /\ r \in Shown /\ UNCHANGED activeRoomId
          /\ \A x \in Shown \ {r} : rooms'[x].unread = rooms[x].unread
          /\ \/ rooms'[r].unread = rooms[r].unread
             \/ /\ rooms'[r].unread = rooms[r].unread + 1
                /\ r # activeRoomId /\ m.sender = 0
                /\ \A k \in rooms[r].messages : k.id # m.id
                /\ \E k \in rooms'[r].messages : k.id = m.id /\ k.sender = 0
      BY <2>10, MessageTaken DEF HandleMessage
    <3>2. CASE rooms'[r].unread = rooms[r].unread
      BY <2>3, <3>1, <3>2
    <3>3. CASE /\ rooms'[r].unread = rooms[r].unread + 1
               /\ r # activeRoomId /\ m.sender = 0
               /\ \A k \in rooms[r].messages : k.id # m.id
               /\ \E k \in rooms'[r].messages : k.id = m.id /\ k.sender = 0
      <4>1. m.id \notin old /\ m.id \in new
        BY <3>3 DEF PeerIds
      <4>2. old \subseteq new /\ IsFiniteSet(new) /\ Cardinality(new) \in Nat
        BY <1>3, <2>1, <3>1
      <4> HIDE DEF old, new, m
      <4>3. IsFiniteSet(old) /\ Cardinality(old) \in Nat
        BY <4>2, FS_Subset, FS_CardinalityType
      <4>4. Cardinality(old \cup {m.id}) = Cardinality(old) + 1
        BY <4>1, <4>3, FS_AddElement
      <4>5. Cardinality(old \cup {m.id}) <= Cardinality(new)
        BY <4>1, <4>2, FS_Subset
      <4>6. rooms[r].unread <= Cardinality(old) /\ rooms[r].unread \in Nat
        BY <1>2, <3>1 DEF Badges, Entries, old
      <4>7. rooms'[r].unread <= Cardinality(new)
        BY <3>3, <4>2, <4>3, <4>4, <4>5, <4>6
      <4> QED
        BY <2>2, <3>1, <3>3, <4>7 DEF Badges, new
    <3> QED
      BY <3>1, <3>2, <3>3
  <2> QED
    BY <1>9, <2>5, <2>6, <2>7, <2>8, <2>9, <2>10 DEF OnMessage
<1> QED
  BY <1>5, <1>6, <1>7, <1>8, <1>9 DEF Next, User

-----------------------------------------------------------------------------
(* The invariant, and what follows from it *)

\* The first state.
LEMMA InitChatInv == Init => ChatInv
<1> SUFFICES ASSUME Init PROVE ChatInv
  OBVIOUS
<1> USE ChatClientAssumption DEF Init
<1>1. Shown = {} /\ Sent = {} /\ Route = None
  BY DEF Shown, Sent, Elements, Route
<1>2. ServerTyped
  <2>1. <<>> \in Seq(Notes)
    OBVIOUS
  <2> QED
    BY <2>1 DEF ServerTyped
<1>3. rooms \in [Shown -> Entries]
  BY <1>1 DEF Shown
<1>4. Typed
  <2>1. conn \in 0 .. MaxConns /\ posts \in 0 .. MaxPosts
    OBVIOUS
  <2>3. /\ ws = "connecting" /\ connected = FALSE /\ timer = FALSE /\ alive = FALSE
        /\ named = FALSE /\ userId = None /\ activeRoomId = None /\ down = <<>>
        /\ contextStack = <<None>> /\ available = {} /\ submitted = {} /\ referred = {}
    OBVIOUS
  <2>2. composer = Empty /\ composer \in [text : Shown \cup {None}, replyTo : Nat \cup {None},
                                         editing : Nat \cup {None}]
    BY DEF Empty
  <2> HIDE DEF Init
  <2> QED
    BY <1>1, <1>2, <1>3, <2>1, <2>2, <2>3 DEF Typed, Mounted
<1>5. Mail
  BY <1>1 DEF Mail, LogOK, SameIds, SentOK, Announced, IdentityKnown, StoreOK, Membership, Coming
<1>6. ComposerOK /\ RefersToItsRoom /\ Badges /\ SubmittedAccounted
  BY <1>1 DEF ComposerOK, RefersToItsRoom, Badges, SubmittedAccounted, Empty
<1> QED
  BY <1>4, <1>5, <1>6 DEF ChatInv

\* Every step.
LEMMA StepChatInv == ChatInv /\ [Next]_vars => ChatInv'
BY StepTyped, StepMail, StepComposer, StepReferred, StepBadges, StepSubmitted DEF ChatInv

\* The inductive invariant holds in every state.
THEOREM ChatInvariant == Spec => []ChatInv
BY InitChatInv, StepChatInv, PTL DEF Spec

\* Types follow from the invariant, the bound of the badges included.
LEMMA ChatInvTypeOK == ChatInv => TypeOK
<1> SUFFICES ASSUME ChatInv PROVE TypeOK
  OBVIOUS
<1>1. Typed /\ Mail /\ Badges
  BY DEF ChatInv
<1>2. ASSUME NEW r \in Shown
      PROVE  rooms[r].unread \in 0 .. MaxPosts
  <2>1. r \in Rooms /\ posts \in Nat /\ posts <= MaxPosts /\ rooms[r].unread \in Nat
    BY <1>1, ChatClientAssumption DEF Typed, Entries
  <2>2. /\ \A m \in rooms[r].messages : \E l \in log[r] : l.id = m.id
        /\ \A l \in log[r] : l.id \in 1 .. posts
    BY <1>1, <2>1 DEF Mail, StoreOK, Covered, LogOK
  <2>3. /\ Cardinality(PeerIds(rooms[r].messages)) \in Nat
        /\ Cardinality(PeerIds(rooms[r].messages)) <= posts
    BY <2>1, <2>2, PeersFinite
  <2> QED
    BY <1>1, <2>1, <2>3, ChatClientAssumption DEF Badges
<1> QED
  BY <1>1, <1>2 DEF Typed, TypeOK, ServerTyped

\* With nothing under way, what was coming is there.
LEMMA ChatInvPublic == ChatInv => PublicRejoined
<1> SUFFICES ASSUME ChatInv, alive, down = <<>>, NEW r \in Shown \cap Public
             PROVE  /\ r \in member
                    /\ \A m \in log[r] : \/ <<r, m.id>> \in uncast
                                         \/ \E c \in rooms[r].messages : c.id = m.id
  BY DEF PublicRejoined, Quiet
<1>1. Sent = {} /\ r \in Rooms /\ r \notin DMs
  BY ChatClientAssumption DEF Sent, Elements, Rooms
<1> QED
  BY <1>1 DEF ChatInv, Mail, Membership, Coming

\* Ids of others are as many as messages of others.
LEMMA ChatInvUnread == ChatInv => UnreadHonest
<1> SUFFICES ASSUME ChatInv, NEW r \in Shown
             PROVE  /\ Badge(r) <= Cardinality({m \in rooms[r].messages : m.sender = 0})
                    /\ r = activeRoomId => Badge(r) = 0
  BY DEF UnreadHonest
<1> DEFINE P == {m \in rooms[r].messages : m.sender = 0}
           f == [m \in P |-> m.id]
<1>1. SameIds(rooms[r].messages) /\ PeerIds(rooms[r].messages) = {m.id : m \in P}
  BY DEF ChatInv, Mail, StoreOK, PeerIds
<1>2. r \in Rooms /\ posts \in Nat
  BY ChatClientAssumption DEF ChatInv, Typed
<1>3. P = {m \in rooms[r].messages : m.sender = 0}
  OBVIOUS
<1>4. /\ f \in [P -> PeerIds(rooms[r].messages)]
      /\ \A a, b \in P : f[a] = f[b] => a = b
      /\ \A t \in PeerIds(rooms[r].messages) : \E s \in P : f[s] = t
  BY <1>1 DEF SameIds
<1>5. IsFiniteSet(PeerIds(rooms[r].messages))
  <2>1. /\ \A m \in rooms[r].messages : \E l \in log[r] : l.id = m.id
        /\ \A l \in log[r] : l.id \in 1 .. posts
    BY <1>2 DEF ChatInv, Mail, StoreOK, Covered, LogOK
  <2> QED
    BY <1>2, <2>1, PeersFinite
<1> HIDE DEF P, f
<1>6. /\ f \in Injection(P, PeerIds(rooms[r].messages))
      /\ f \in Surjection(P, PeerIds(rooms[r].messages))
  <2> DEFINE T == PeerIds(rooms[r].messages)
  <2>1. f \in [P -> T] /\ \A t \in T : \E s \in P : f[s] = t
    BY <1>4
  <2>2. \A a \in P : \A b \in P : f[a] = f[b] => a = b
    BY <1>4
  <2> HIDE DEF T
  <2>3. f \in Injection(P, T)
    BY <2>1, <2>2 DEF Injection, IsInjective
  <2>4. f \in Surjection(P, T)
    BY <2>1 DEF Surjection
  <2> QED
    BY <2>3, <2>4 DEF T
<1>7. Cardinality(P) = Cardinality(PeerIds(rooms[r].messages))
  BY <1>5, <1>6, FS_Injection
<1> QED
  BY <1>7 DEF ChatInv, Badges, Badge, P

\* Every variable of the browser and of its server keeps its type; a badge
\* never counts more than the messages written (chatStore.ts, useWebSocket.ts).
THEOREM ChatTypeCorrect == Spec => []TypeOK
BY ChatInvariant, ChatInvTypeOK, PTL

\* What has left the composer is in the log of its room, but for what was sent
\* into a broken connection or to a direct message of an earlier identity
\* (useWebSocket.ts, MessageInput.tsx).
THEOREM ChatSubmittedAccounted == Spec => []SubmittedAccounted
<1>1. ChatInv => SubmittedAccounted
  BY DEF ChatInv
<1> QED
  BY <1>1, ChatInvariant, PTL

\* After any number of reconnections the browser is in every public room it
\* shows, and shows all that was broadcast there (useWebSocket.ts, hub.go).
THEOREM ChatPublicRejoined == Spec => []PublicRejoined
BY ChatInvariant, ChatInvPublic, PTL

\* Replies and edits refer to messages of the room they are sent to
\* (ChatView.tsx, MessageInput.tsx).
THEOREM ChatRefersToItsRoom == Spec => []RefersToItsRoom
<1>1. ChatInv => RefersToItsRoom
  BY DEF ChatInv
<1> QED
  BY <1>1, ChatInvariant, PTL

\* Badges count messages of others, each once, and none in the active room
\* (chatStore.ts).
THEOREM ChatUnreadHonest == Spec => []UnreadHonest
BY ChatInvariant, ChatInvUnread, PTL
====
