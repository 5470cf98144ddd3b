-------------------------- MODULE PhoneMeshProofs --------------------------
(***************************************************************************)
(* Theorems about PhoneMesh for any phones, links and messages, and any    *)
(* number of connections.                                                  *)
(*                                                                         *)
(* All transports of a phone share one set seen_ids, so that what one of   *)
(* them marks may suppress what another has still to do.  MeshInv says why *)
(* it does not: a key is set only when what it stands for is done, or when *)
(* a queue that will not be suppressed still holds the message.            *)
(* NearInv says the same of two phones in range of each other only.        *)
(***************************************************************************)
EXTENDS PhoneMesh, SequencesExt, FiniteSetTheorems, SequenceTheorems, TLAPS

Distinct(s) == \A i, j \in DOMAIN s : s[i].id = s[j].id => i = j

\* What the server has sent a phone that it has not handled.
Contents(e) == IF e.type = "message" THEN {e.message} ELSE ToSet(e.messages)
Coming(p) == ToSet(history[p]) \cup UNION {Contents(e) : e \in ToSet(down[p])}

\* What a phone has asked the server to publish.
Asked(p) == {r.id : r \in {e \in ToSet(up[p]) : e.type = "send_message"}}

-----------------------------------------------------------------------------
(* No message twice *)

OneOfEach(s) == IsFiniteSet(Ids(s)) /\ Cardinality(Ids(s)) = Len(s)

Rooms == OneOfEach(serverLog) /\ \A p \in Phones : OneOfEach(log[p])

-----------------------------------------------------------------------------
(* Where messages come from *)

\* The server shows a message under a relay's name only if that phone's WebView
\* wrote it.
Attested(c) == \A p \in Phones : c.by[1] = p /\ c.by[2] = "relay" => c.id \in Ids(log[p])

Origins ==
  /\ \A c \in ToSet(serverLog) : Attested(c)
  /\ \A p \in Phones :
       /\ \A c \in ToSet(relayRx[p]) : Author[c.id] = p /\ c.id \in Ids(log[p])
       /\ \A r \in ToSet(up[p]) :
            r.type = "send_message" /\ r.path = "relay" => r.id \in Ids(log[p])
       /\ \A c \in Coming(p) : Attested(c) /\ c.id \in Ids(serverLog)
       /\ \A m \in Msgs : Key("relay-in", m) \in seen[p] => m \in Ids(log[p])

-----------------------------------------------------------------------------
(* How often a message goes up *)

Wrote(p, m) == Key("relay-out", m) \in seen[p] /\ Author[m] = p

\* Once when its author's relay takes it, once when it came in over BLE: what
\* waits in passRx has not been counted.
Counted(p, m) ==
  /\ m \in Ids(passRx[p]) =>
       Key("ble-in", m) \in seen[p] /\ uploads[p][m] <= IF Wrote(p, m) THEN 1 ELSE 0
  /\ uploads[p][m] <= (IF Wrote(p, m) THEN 1 ELSE 0)
                        + (IF Key("ble-in", m) \in seen[p] THEN 1 ELSE 0)

Uploads == \A p \in Phones : Distinct(passRx[p]) /\ \A m \in Msgs : Counted(p, m)

-----------------------------------------------------------------------------
(* What is at the server reaches the phones, and the other way round *)

\* The first thing the server reads on a connection is the join.
Joining ==
  \A p \in Phones : online[p] /\ p \notin joined => up[p] # <<>> /\ Head(up[p]) = Join

Reaches(p, m) == m \in Ids(log[p]) \/ \E c \in Coming(p) : c.id = m

Downwards == \A p \in joined : \A m \in Ids(serverLog) : Reaches(p, m)

\* What relay-out suppresses is at the server.
Upwards ==
  /\ \A p \in Phones : Distinct(relayRx[p])
  /\ \A p \in Phones : \A c \in ToSet(relayRx[p]) :
       Key("relay-out", c.id) \in seen[p] => c.id \in Ids(serverLog)
  /\ \A o \in owed :
       /\ online[o[1]]
       /\ o[2] \in Ids(serverLog) \cup Asked(o[1]) \cup Ids(relayRx[o[1]]) \cup Ids(passRx[o[1]])

Flow == Origins /\ Joining /\ Downwards /\ Upwards

MeshInv == TypeOK /\ Rooms /\ Uploads /\ Flow

-----------------------------------------------------------------------------
(* Sequences of messages *)

LEMMA AppendIs ==
  ASSUME NEW S, NEW s \in Seq(S), NEW c \in S
  PROVE  /\ Append(s, c) \in Seq(S) /\ Append(s, c) # <<>>
         /\ s # <<>> => Head(Append(s, c)) = Head(s)
         /\ s = <<>> => Head(Append(s, c)) = c
         /\ ToSet(Append(s, c)) = ToSet(s) \cup {c}
         /\ Ids(Append(s, c)) = Ids(s) \cup {c.id}
<1> DEFINE t == Append(s, c)
<1>1. /\ t \in Seq(S) /\ Len(t) = Len(s) + 1 /\ DOMAIN t = 1..(Len(s) + 1)
      /\ \A i \in 1..Len(s) : t[i] = s[i]
      /\ t[Len(s) + 1] = c
  BY AppendProperties
<1>2. Len(s) \in Nat /\ DOMAIN s = 1..Len(s) /\ (s # <<>> => Len(s) # 0)
  BY LenProperties, EmptySeq
<1>3. \A i : i \in DOMAIN t <=> i \in DOMAIN s \/ i = Len(s) + 1
  BY <1>1, <1>2
<1>4. \A i \in DOMAIN s : t[i] = s[i]
  BY <1>1, <1>2
<1>5. ToSet(t) = ToSet(s) \cup {c}
  BY <1>1, <1>3, <1>4, Zenon DEF ToSet
<1>6. Ids(t) = Ids(s) \cup {c.id}
  BY <1>1, <1>3, <1>4, Zenon DEF Ids
<1>7. t # <<>>
  BY <1>1, <1>2, EmptySeq
<1>8. s # <<>> => Head(t) = Head(s)
  BY <1>1, <1>2
<1>9. s = <<>> => Head(t) = c
  <2>1. s = <<>> => Len(s) = 0
    BY EmptySeq
  <2>2. Head(t) = t[1]
    BY <1>1, <1>2
  <2>3. QED
    BY <1>1, <2>1, <2>2
<1>10. QED
  BY <1>1, <1>5, <1>6, <1>7, <1>8, <1>9

LEMMA MemberIs ==
  ASSUME NEW S, NEW s \in Seq(S)
  PROVE  ToSet(s) \subseteq S /\ Ids(s) = {c.id : c \in ToSet(s)}
<1>1. \A i \in DOMAIN s : s[i] \in S
  BY ElementOfSeq, LenProperties
<1>2. QED
  BY <1>1 DEF ToSet, Ids

LEMMA TailIs ==
  ASSUME NEW S, NEW s \in Seq(S), s # <<>>
  PROVE  /\ Tail(s) \in Seq(S) /\ Head(s) \in S
         /\ ToSet(s) = {Head(s)} \cup ToSet(Tail(s))
         /\ Ids(s) = {Head(s).id} \cup Ids(Tail(s))
         /\ DOMAIN Tail(s) = 1..(Len(s) - 1) /\ DOMAIN s = 1..Len(s) /\ Len(s) \in Nat \ {0}
         /\ \A i \in 1..(Len(s) - 1) : Tail(s)[i] = s[i + 1]
<1> DEFINE t == Tail(s)
           h == Head(s)
<1>1. /\ t \in Seq(S) /\ h \in S /\ h = s[1]
      /\ DOMAIN t = 1..(Len(s) - 1)
      /\ \A i \in 1..(Len(s) - 1) : t[i] = s[i + 1]
  BY HeadTailProperties, LenProperties
<1>2. Len(s) \in Nat \ {0} /\ DOMAIN s = 1..Len(s)
  BY LenProperties, EmptySeq
<1> HIDE DEF t, h
<1>3. \A i \in DOMAIN s : s[i] = h \/ \E j \in DOMAIN t : t[j] = s[i]
  <2> SUFFICES ASSUME NEW i \in DOMAIN s
               PROVE  s[i] = h \/ \E j \in DOMAIN t : t[j] = s[i]
    OBVIOUS
  <2>1. i = 1 \/ (i - 1 \in DOMAIN t /\ t[i - 1] = s[i])
    BY <1>1, <1>2
  <2>2. QED
    BY <1>1, <2>1
<1>4. \A i \in DOMAIN t : \E j \in DOMAIN s : t[i] = s[j]
  <2> SUFFICES ASSUME NEW i \in DOMAIN t
               PROVE  \E j \in DOMAIN s : t[i] = s[j]
    OBVIOUS
  <2>1. i + 1 \in DOMAIN s /\ t[i] = s[i + 1]
    BY <1>1, <1>2
  <2>2. QED
    BY <2>1
<1>5. 1 \in DOMAIN s
  BY <1>2
<1>6. ToSet(s) = {h} \cup ToSet(t)
  BY <1>1, <1>3, <1>4, <1>5 DEF ToSet
<1>7. Ids(s) = {h.id} \cup Ids(t)
  <2>1. Ids(s) = {c.id : c \in ToSet(s)} /\ Ids(t) = {c.id : c \in ToSet(t)}
    BY <1>1, MemberIs
  <2>2. QED
    BY <1>6, <2>1
<1>8. QED
  BY <1>1, <1>2, <1>6, <1>7 DEF t, h

LEMMA EmptyIs == ToSet(<<>>) = {} /\ Ids(<<>>) = {} /\ Distinct(<<>>) /\ \A S : <<>> \in Seq(S)
BY EmptySeq DEF ToSet, Ids, Distinct

LEMMA DistinctSteps ==
  ASSUME NEW S, NEW s \in Seq(S), Distinct(s)
  PROVE  /\ \A c \in S : c.id \notin Ids(s) => Distinct(Append(s, c))
         /\ s # <<>> => Distinct(Tail(s)) /\ Head(s).id \notin Ids(Tail(s))
<1>1. ASSUME NEW c \in S, c.id \notin Ids(s)
      PROVE  Distinct(Append(s, c))
  <2> DEFINE t == Append(s, c)
  <2>1. /\ DOMAIN t = 1..(Len(s) + 1) /\ t[Len(s) + 1] = c
        /\ \A i \in 1..Len(s) : t[i] = s[i]
    BY AppendProperties
  <2>2. Len(s) \in Nat /\ DOMAIN s = 1..Len(s)
    BY LenProperties
  <2>3. \A i \in DOMAIN t : (i = Len(s) + 1 /\ t[i] = c) \/ (i \in DOMAIN s /\ t[i] = s[i])
    BY <2>1, <2>2
  <2>4. \A i \in DOMAIN s : s[i].id # c.id
    BY <1>1 DEF Ids
  <2> HIDE DEF t
  <2>5. QED
    BY <2>3, <2>4 DEF Distinct, t
<1>2. ASSUME s # <<>>
      PROVE  Distinct(Tail(s)) /\ Head(s).id \notin Ids(Tail(s))
  <2> DEFINE t == Tail(s)
  <2>1. /\ DOMAIN t = 1..(Len(s) - 1) /\ DOMAIN s = 1..Len(s) /\ Len(s) \in Nat \ {0}
        /\ \A i \in 1..(Len(s) - 1) : t[i] = s[i + 1]
    BY TailIs, <1>2
  <2>2. Head(s) = s[1] /\ 1 \in DOMAIN s
    BY HeadTailProperties, <1>2, <2>1
  <2>3. \A i \in DOMAIN t : i \in Nat \ {0} /\ i + 1 \in DOMAIN s /\ t[i] = s[i + 1]
    BY <2>1
  <2> HIDE DEF t
  <2>4. Distinct(t)
    BY <2>3 DEF Distinct
  <2>5. Head(s).id \notin Ids(t)
    BY <2>2, <2>3 DEF Distinct, Ids
  <2>6. QED
    BY <2>4, <2>5 DEF t
<1>3. QED
  BY <1>1, <1>2

LEMMA OneMore ==
  ASSUME NEW S, NEW s \in Seq(S), NEW c \in S, OneOfEach(s), c.id \notin Ids(s)
  PROVE  OneOfEach(Append(s, c))
<1>1. Ids(Append(s, c)) = Ids(s) \cup {c.id}
  BY AppendIs
<1>2. Len(Append(s, c)) = Len(s) + 1
  BY AppendProperties
<1>3. /\ IsFiniteSet(Ids(s) \cup {c.id})
      /\ Cardinality(Ids(s) \cup {c.id}) = Cardinality(Ids(s)) + 1
  BY FS_AddElement DEF OneOfEach
<1>4. QED
  BY <1>1, <1>2, <1>3 DEF OneOfEach

-----------------------------------------------------------------------------
(* Types *)

LEMMA SameSets ==
  ASSUME UNCHANGED sent
  PROVE  /\ Known' = Known /\ Requests' = Requests
         /\ Envelopes' = Envelopes /\ KnownKeys' = KnownKeys
BY DEF Known, Requests, Envelopes, KnownKeys

LEMMA GrownSets ==
  ASSUME sent \subseteq sent'
  PROVE  /\ Known \subseteq Known' /\ Requests \subseteq Requests'
         /\ Envelopes \subseteq Envelopes' /\ KnownKeys \subseteq KnownKeys'
<1>1. Known \subseteq Known'
  BY DEF Known
<1>2. Seq(Known) \subseteq Seq(Known')
  BY <1>1, SeqMonotonic
<1>3. Requests \subseteq Requests'
  BY DEF Requests
<1>4. Envelopes \subseteq Envelopes'
  BY <1>1, <1>2 DEF Envelopes
<1>5. KnownKeys \subseteq KnownKeys'
  BY <1>1 DEF KnownKeys
<1>6. QED
  BY <1>1, <1>3, <1>4, <1>5

LEMMA QueuesGrow ==
  ASSUME NEW S, NEW T, S \subseteq T, NEW A, NEW f \in [A -> Seq(S)]
  PROVE  f \in [A -> Seq(T)]
<1>1. Seq(S) \subseteq Seq(T)
  BY SeqMonotonic
<1>2. QED
  BY <1>1

LEMMA KnownIs ==
  /\ \A c \in Known : c.id \in sent /\ c \in ChatMessage
  /\ \A c \in Known, p \in Phones :
       /\ {Key("relay-in", c.id), Key("relay-out", c.id)} \subseteq KnownKeys
       /\ {Key("ble-sent", c.id), Key("ble-in", c.id), Key("ble-echo", c)} \subseteq KnownKeys
  /\ \A m \in sent, path \in {"relay", "pass"} : SendMessage(m, path) \in Requests
  /\ Join \in Requests
  /\ \A c \in Known : Message(c) \in Envelopes
  /\ \A cs \in Seq(Known) : RoomHistory(cs) \in Envelopes
  /\ \A e \in Envelopes :
       /\ e.type \in {"message", "room_history"}
       /\ e.type = "message" => e.message \in Known
       /\ e.type = "room_history" => e.messages \in Seq(Known)
  /\ \A r \in Requests : r.type = "send_message" => r.id \in sent /\ r.path \in {"relay", "pass"}
<1>1. \A c \in Known : c.id \in sent /\ c \in ChatMessage
  BY DEF Known
<1>2. ASSUME NEW c \in Known
      PROVE  /\ {Key("relay-in", c.id), Key("relay-out", c.id)} \subseteq KnownKeys
             /\ {Key("ble-sent", c.id), Key("ble-in", c.id), Key("ble-echo", c)} \subseteq KnownKeys
  BY <1>1 DEF KnownKeys, Key
<1>3. /\ \A m \in sent, path \in {"relay", "pass"} : SendMessage(m, path) \in Requests
      /\ Join \in Requests
  BY DEF Requests, SendMessage, Join
<1>4. /\ \A c \in Known : Message(c) \in Envelopes
      /\ \A cs \in Seq(Known) : RoomHistory(cs) \in Envelopes
  BY DEF Envelopes, Message, RoomHistory
<1>5. \A e \in Envelopes :
        /\ e.type \in {"message", "room_history"}
        /\ e.type = "message" => e.message \in Known
        /\ e.type = "room_history" => e.messages \in Seq(Known)
  BY DEF Envelopes
<1>6. \A r \in Requests : r.type = "send_message" => r.id \in sent /\ r.path \in {"relay", "pass"}
  BY DEF Requests, Join
<1>7. QED
  BY <1>1, <1>2, <1>3, <1>4, <1>5, <1>6

LEMMA WrittenIs ==
  ASSUME PhoneMeshAssumption, NEW m \in Msgs
  PROVE  /\ Written(m) \in ChatMessage /\ Written(m).id = m
         /\ Written(m).by = <<Author[m], "author", 0>>
BY DEF PhoneMeshAssumption, Written, ChatMessage, Stamps

\* What the operators of the actions do.
LEMMA Uploading ==
  ASSUME TypeOK, NEW p \in Phones, NEW m \in sent, NEW path \in {"relay", "pass"},
         Upload(p, m, path)
  PROVE  /\ up' \in [Phones -> Seq(Requests)] /\ uploads' \in [Phones -> [Msgs -> Nat]]
         /\ up'[p] = Append(up[p], SendMessage(m, path))
         /\ \A q \in Phones : q # p => up'[q] = up[q] /\ uploads'[q] = uploads[q]
         /\ uploads'[p][m] = uploads[p][m] + 1
         /\ \A n \in Msgs : n # m => uploads'[p][n] = uploads[p][n]
<1>1. up \in [Phones -> Seq(Requests)] /\ uploads \in [Phones -> [Msgs -> Nat]] /\ m \in Msgs
  BY DEF TypeOK, QueueTypes, RelayTypes, RoomTypes
<1>2. Append(up[p], SendMessage(m, path)) \in Seq(Requests)
  BY <1>1, KnownIs, AppendIs
<1>3. uploads[p][m] + 1 \in Nat
  BY <1>1
<1>4. QED
  BY <1>1, <1>2, <1>3 DEF Upload

LEMMA Injecting ==
  ASSUME TypeOK, NEW p \in Phones, NEW c \in Known, InjectExternalMessage(p, c)
  PROVE  /\ log' \in [Phones -> Seq(Known)] /\ roomRx' \in [Phones -> Seq(Known)]
         /\ \A q \in Phones : Ids(log[q]) \subseteq Ids(log'[q])
         /\ c.id \in Ids(log'[p])
         /\ \A q \in Phones : OneOfEach(log[q]) => OneOfEach(log'[q])
<1>1. log \in [Phones -> Seq(Known)] /\ roomRx \in [Phones -> Seq(Known)]
  BY DEF TypeOK, RoomTypes
<1>2. CASE c.id \in Ids(log[p])
  BY <1>1, <1>2 DEF InjectExternalMessage
<1>3. CASE c.id \notin Ids(log[p])
  <2>1. /\ log' = [log EXCEPT ![p] = Append(log[p], c)]
        /\ roomRx' = [roomRx EXCEPT ![p] = Append(roomRx[p], c)]
    BY <1>3 DEF InjectExternalMessage
  <2>2. /\ Append(log[p], c) \in Seq(Known) /\ Append(roomRx[p], c) \in Seq(Known)
        /\ Ids(Append(log[p], c)) = Ids(log[p]) \cup {c.id}
    BY <1>1, AppendIs
  <2>3. OneOfEach(log[p]) => OneOfEach(Append(log[p], c))
    BY <1>1, <1>3, OneMore
  <2>4. QED
    BY <1>1, <2>1, <2>2, <2>3
<1>4. QED
  BY <1>2, <1>3

LEMMA Taking ==
  ASSUME TypeOK, NEW p \in Phones, NEW c \in Known, TakeUpstream(p, c)
  PROVE  /\ log' \in [Phones -> Seq(Known)] /\ roomRx' \in [Phones -> Seq(Known)]
         /\ seen' \in [Phones -> SUBSET KnownKeys]
         /\ \A q \in Phones : Ids(log[q]) \subseteq Ids(log'[q])
         /\ \A q \in Phones : OneOfEach(log[q]) => OneOfEach(log'[q])
         /\ \/ UNCHANGED seen /\ Key("relay-in", c.id) \in seen[p]
            \/ seen' = [seen EXCEPT ![p] =
                          seen[p] \cup {Key("relay-in", c.id), Key("relay-out", c.id)}]
         /\ c.id \in Ids(log'[p]) \/ Key("relay-in", c.id) \in seen[p] \/ Own(p, c)
<1>1. /\ log \in [Phones -> Seq(Known)] /\ roomRx \in [Phones -> Seq(Known)]
      /\ seen \in [Phones -> SUBSET KnownKeys]
  BY DEF TypeOK, RoomTypes
<1>2. CASE Key("relay-in", c.id) \in seen[p]
  <2>1. UNCHANGED phoneVars
    BY <1>2 DEF TakeUpstream
  <2>2. QED
    BY <1>1, <1>2, <2>1 DEF phoneVars
<1>3. CASE Key("relay-in", c.id) \notin seen[p]
  <2>1. seen' = [seen EXCEPT ![p] = seen[p] \cup {Key("relay-in", c.id), Key("relay-out", c.id)}]
    BY <1>3 DEF TakeUpstream
  <2>2. seen' \in [Phones -> SUBSET KnownKeys]
    BY <1>1, <2>1, KnownIs
  <2>3. CASE Own(p, c)
    <3>1. UNCHANGED <<log, roomRx>>
      BY <1>3, <2>3 DEF TakeUpstream
    <3>2. QED
      BY <1>1, <2>1, <2>2, <2>3, <3>1
  <2>4. CASE ~Own(p, c)
    <3>1. InjectExternalMessage(p, c)
      BY <1>3, <2>4 DEF TakeUpstream
    <3>2. QED
      BY <2>1, <2>2, <3>1, Injecting
  <2>5. QED
    BY <2>3, <2>4
<1>4. QED
  BY <1>2, <1>3

LEMMA Publishing ==
  ASSUME TypeOK, sent \subseteq sent', NEW c \in Known', Publish(c)
  PROVE  /\ serverLog' \in Seq(Known') /\ down' \in [Phones -> Seq(Envelopes')]
         /\ Ids(serverLog') = Ids(serverLog) \cup {c.id}
         /\ ToSet(serverLog') \subseteq ToSet(serverLog) \cup {c}
         /\ OneOfEach(serverLog) => OneOfEach(serverLog')
         /\ \A p \in Phones : p \notin joined => down'[p] = down[p]
         /\ \A p \in joined : ToSet(down'[p]) = ToSet(down[p]) \cup {Message(c)}
<1>1. /\ Known \subseteq Known' /\ Envelopes \subseteq Envelopes'
  BY GrownSets
<1>2. serverLog \in Seq(Known') /\ down \in [Phones -> Seq(Envelopes')] /\ joined \subseteq Phones
  <2>1. serverLog \in Seq(Known) /\ down \in [Phones -> Seq(Envelopes)] /\ joined \subseteq Phones
    BY DEF TypeOK, RoomTypes, QueueTypes, RelayTypes
  <2>2. QED
    BY <1>1, <2>1, SeqMonotonic, QueuesGrow
<1>3. Message(c) \in Envelopes'
  BY DEF Envelopes, Message
<1>4. /\ serverLog' \in Seq(Known') /\ Ids(serverLog') = Ids(serverLog) \cup {c.id}
      /\ ToSet(serverLog') \subseteq ToSet(serverLog) \cup {c}
      /\ OneOfEach(serverLog) => OneOfEach(serverLog')
  <2>1. CASE c.id \in Ids(serverLog)
    BY <1>2, <2>1 DEF Publish
  <2>2. CASE c.id \notin Ids(serverLog)
    <3>1. serverLog' = Append(serverLog, c)
      BY <2>2 DEF Publish
    <3>2. /\ Append(serverLog, c) \in Seq(Known')
          /\ Ids(Append(serverLog, c)) = Ids(serverLog) \cup {c.id}
          /\ ToSet(Append(serverLog, c)) = ToSet(serverLog) \cup {c}
      BY <1>2, AppendIs
    <3>3. OneOfEach(serverLog) => OneOfEach(Append(serverLog, c))
      BY <1>2, <2>2, OneMore
    <3>4. QED
      BY <3>1, <3>2, <3>3
  <2>3. QED
    BY <2>1, <2>2
<1>5. \A p \in Phones :
        /\ Append(down[p], Message(c)) \in Seq(Envelopes')
        /\ ToSet(Append(down[p], Message(c))) = ToSet(down[p]) \cup {Message(c)}
  BY <1>2, <1>3, AppendIs
<1>6. down' = [p \in Phones |-> IF p \in joined THEN Append(down[p], Message(c)) ELSE down[p]]
  BY DEF Publish
<1>7. QED
  BY <1>2, <1>4, <1>5, <1>6

LEMMA BleSending ==
  ASSUME TypeOK, NEW p \in Phones, NEW cs \in Seq(Known), BleSend(p, cs)
  PROVE  ble' \in [Links -> Seq(Known)]
<1>1. ble \in [Links -> Seq(Known)]
  BY DEF TypeOK, BleTypes
<1>2. \A l \in Links : ble[l] \o cs \in Seq(Known)
  BY <1>1, ConcatProperties
<1>3. QED
  BY <1>1, <1>2 DEF BleSend

\* The actions one by one.
LEMMA SendLocalTypes ==
  ASSUME PhoneMeshAssumption, TypeOK, NEW p \in Phones, NEW m \in Msgs, SendLocal(p, m)
  PROVE  TypeOK'
<1>1. sent' = sent \cup {m} /\ sent \subseteq sent'
  BY DEF SendLocal
<1>2. /\ Known \subseteq Known' /\ Requests \subseteq Requests'
      /\ Envelopes \subseteq Envelopes' /\ KnownKeys \subseteq KnownKeys'
  BY <1>1, GrownSets
<1>3. Written(m) \in Known'
  BY <1>1, WrittenIs DEF Known
<1>4. /\ sent \subseteq Msgs /\ serverLog \in Seq(Known')
      /\ log \in [Phones -> Seq(Known')] /\ roomRx \in [Phones -> Seq(Known')]
      /\ seen \in [Phones -> SUBSET KnownKeys']
  BY <1>2, QueuesGrow, SeqMonotonic DEF TypeOK, RoomTypes
<1>5. /\ relayRx \in [Phones -> Seq(Known')] /\ passRx \in [Phones -> Seq(Known')]
      /\ up \in [Phones -> Seq(Requests')] /\ down \in [Phones -> Seq(Envelopes')]
      /\ history \in [Phones -> Seq(Known')]
  BY <1>2, QueuesGrow DEF TypeOK, QueueTypes
<1>6. RoomTypes'
  <2>1. /\ Append(log[p], Written(m)) \in Seq(Known')
        /\ Append(roomRx[p], Written(m)) \in Seq(Known')
    BY <1>3, <1>4, AppendIs
  <2>2. /\ log' = [log EXCEPT ![p] = Append(log[p], Written(m))]
        /\ roomRx' = [roomRx EXCEPT ![p] = Append(roomRx[p], Written(m))]
        /\ UNCHANGED <<serverLog, seen>>
    BY DEF SendLocal
  <2>3. QED
    BY <1>1, <1>4, <2>1, <2>2 DEF RoomTypes
<1>7. relayRx' \in [Phones -> Seq(Known')] /\ \A q \in Phones : ~online[q] => relayRx'[q] = relayRx[q]
  <2>1. Append(relayRx[p], Written(m)) \in Seq(Known')
    BY <1>3, <1>5, AppendIs
  <2>2. CASE UNCHANGED relayRx
    BY <1>5, <2>2
  <2>3. CASE online[p] /\ relayRx' = [relayRx EXCEPT ![p] = Append(relayRx[p], Written(m))]
    <3>1. relayRx' \in [Phones -> Seq(Known')]
      BY <1>5, <2>1, <2>3
    <3>2. \A q \in Phones : q # p => relayRx'[q] = relayRx[q]
      BY <1>5, <2>3
    <3>3. QED
      BY <2>3, <3>1, <3>2
  <2>4. QED
    BY <2>2, <2>3 DEF SendLocal
<1>8. QueueTypes'
  BY <1>5, <1>7 DEF QueueTypes, SendLocal
<1>9. RelayTypes'
  <2>1. owed' \subseteq owed \cup {<<p, m>>}
    BY DEF SendLocal
  <2>2. QED
    BY <1>1, <2>1 DEF TypeOK, RelayTypes, SendLocal
<1>10. BleTypes'
  BY <1>2, QueuesGrow DEF TypeOK, BleTypes, SendLocal, bleVars
<1>11. \A q \in Phones : ~online'[q] => Offline(q)'
  BY <1>7 DEF TypeOK, Offline, SendLocal
<1>12. QED
  BY <1>6, <1>8, <1>9, <1>10, <1>11 DEF TypeOK

LEMMA SendWebTypes ==
  ASSUME PhoneMeshAssumption, TypeOK, NEW m \in Msgs, SendWeb(m)
  PROVE  TypeOK'
<1>1. sent' = sent \cup {m} /\ sent \subseteq sent' /\ Publish(Written(m))
  BY DEF SendWeb
<1>2. /\ Known \subseteq Known' /\ Requests \subseteq Requests'
      /\ Envelopes \subseteq Envelopes' /\ KnownKeys \subseteq KnownKeys'
  BY <1>1, GrownSets
<1>3. Written(m) \in Known'
  BY <1>1, WrittenIs DEF Known
<1>4. /\ serverLog' \in Seq(Known') /\ down' \in [Phones -> Seq(Envelopes')]
      /\ \A p \in Phones : p \notin joined => down'[p] = down[p]
  BY <1>1, <1>3, Publishing
<1>5. RoomTypes'
  BY <1>1, <1>2, <1>4, QueuesGrow DEF TypeOK, RoomTypes, SendWeb, phoneVars
<1>6. QueueTypes'
  BY <1>2, <1>4, QueuesGrow DEF TypeOK, QueueTypes, SendWeb
<1>7. RelayTypes'
  BY <1>1 DEF TypeOK, RelayTypes, SendWeb, connVars
<1>8. BleTypes'
  BY <1>2, QueuesGrow DEF TypeOK, BleTypes, SendWeb, bleVars
<1>9. \A q \in Phones : ~online'[q] => Offline(q)'
  BY <1>4 DEF TypeOK, Offline, SendWeb, connVars
<1>10. QED
  BY <1>5, <1>6, <1>7, <1>8, <1>9 DEF TypeOK

LEMMA ConnectTypes ==
  ASSUME TypeOK, NEW p \in Phones, Connect(p)
  PROVE  TypeOK'
<1>1. Known' = Known /\ Requests' = Requests /\ Envelopes' = Envelopes /\ KnownKeys' = KnownKeys
  BY SameSets DEF Connect
<1>2. RoomTypes' /\ BleTypes'
  BY <1>1 DEF TypeOK, RoomTypes, BleTypes, Connect, phoneVars, bleVars
<1>3. <<Join>> \in Seq(Requests)
  BY KnownIs
<1>4. QueueTypes'
  BY <1>1, <1>3 DEF TypeOK, QueueTypes, Connect
<1>5. RelayTypes'
  BY DEF TypeOK, RelayTypes, Connect
<1>6. \A q \in Phones : ~online'[q] => Offline(q)'
  BY DEF TypeOK, QueueTypes, RelayTypes, Offline, Connect
<1>7. QED
  BY <1>2, <1>4, <1>5, <1>6 DEF TypeOK

LEMMA DisconnectTypes ==
  ASSUME TypeOK, NEW p \in Phones, Disconnect(p)
  PROVE  TypeOK'
<1>1. Known' = Known /\ Requests' = Requests /\ Envelopes' = Envelopes /\ KnownKeys' = KnownKeys
  BY SameSets DEF Disconnect
<1>2. RoomTypes' /\ BleTypes'
  BY <1>1 DEF TypeOK, RoomTypes, BleTypes, Disconnect, phoneVars, bleVars
<1>3. QueueTypes'
  BY <1>1, EmptySeq DEF TypeOK, QueueTypes, Disconnect
<1>4. RelayTypes'
  BY DEF TypeOK, RelayTypes, Disconnect
<1>5. \A q \in Phones : ~online'[q] => Offline(q)'
  BY DEF TypeOK, QueueTypes, RelayTypes, Offline, Disconnect, Idle
<1>6. QED
  BY <1>2, <1>3, <1>4, <1>5 DEF TypeOK

LEMMA ForwardUpstreamTypes ==
  ASSUME TypeOK, NEW p \in Phones, ForwardUpstream(p)
  PROVE  TypeOK'
<1>1. Known' = Known /\ Requests' = Requests /\ Envelopes' = Envelopes /\ KnownKeys' = KnownKeys
  BY SameSets DEF ForwardUpstream
<1> DEFINE m == Head(relayRx[p]).id
<1>2. relayRx \in [Phones -> Seq(Known)] /\ relayRx[p] # <<>> /\ online[p]
  BY DEF TypeOK, QueueTypes, RelayTypes, Offline, ForwardUpstream
<1>3. Head(relayRx[p]) \in Known /\ Tail(relayRx[p]) \in Seq(Known)
  BY <1>2, TailIs
<1>4. m \in sent /\ Key("relay-out", m) \in KnownKeys
  BY <1>3, KnownIs
<1>5. \/ UNCHANGED <<seen, up, uploads>>
      \/ /\ seen' = [seen EXCEPT ![p] = seen[p] \cup {Key("relay-out", m)}]
         /\ Upload(p, m, "relay")
  BY DEF ForwardUpstream
<1>6. /\ seen' \in [Phones -> SUBSET KnownKeys]
      /\ up' \in [Phones -> Seq(Requests)] /\ uploads' \in [Phones -> [Msgs -> Nat]]
      /\ \A q \in Phones : q # p => up'[q] = up[q]
  <2>1. CASE UNCHANGED <<seen, up, uploads>>
    BY <2>1 DEF TypeOK, RoomTypes, QueueTypes, RelayTypes
  <2>2. CASE /\ seen' = [seen EXCEPT ![p] = seen[p] \cup {Key("relay-out", m)}]
             /\ Upload(p, m, "relay")
    <3>1. seen' \in [Phones -> SUBSET KnownKeys]
      BY <1>4, <2>2 DEF TypeOK, RoomTypes
    <3>2. QED
      BY <1>4, <2>2, <3>1, Uploading
  <2>3. QED
    BY <1>5, <2>1, <2>2
<1>7. RoomTypes' /\ BleTypes'
  BY <1>1, <1>6 DEF TypeOK, RoomTypes, BleTypes, ForwardUpstream, bleVars
<1>8. relayRx' = [relayRx EXCEPT ![p] = Tail(relayRx[p])]
  BY DEF ForwardUpstream
<1>9. QueueTypes'
  BY <1>1, <1>3, <1>6, <1>8 DEF TypeOK, QueueTypes, ForwardUpstream
<1>10. RelayTypes'
  BY <1>6 DEF TypeOK, RelayTypes, ForwardUpstream, connVars
<1>11. \A q \in Phones : ~online'[q] => Offline(q)'
  BY <1>2, <1>6, <1>8 DEF TypeOK, Offline, ForwardUpstream, connVars
<1>12. QED
  BY <1>7, <1>9, <1>10, <1>11 DEF TypeOK

LEMMA PassThroughTypes ==
  ASSUME TypeOK, NEW p \in Phones, PassThrough(p)
  PROVE  TypeOK'
<1>1. Known' = Known /\ Requests' = Requests /\ Envelopes' = Envelopes /\ KnownKeys' = KnownKeys
  BY SameSets DEF PassThrough
<1> DEFINE m == Head(passRx[p]).id
<1>2. passRx \in [Phones -> Seq(Known)] /\ passRx[p] # <<>> /\ online[p]
  BY DEF TypeOK, QueueTypes, RelayTypes, Offline, PassThrough
<1>3. Head(passRx[p]) \in Known /\ Tail(passRx[p]) \in Seq(Known)
  BY <1>2, TailIs
<1>4. m \in sent
  BY <1>3, KnownIs
<1>5. /\ up' \in [Phones -> Seq(Requests)] /\ uploads' \in [Phones -> [Msgs -> Nat]]
      /\ \A q \in Phones : q # p => up'[q] = up[q]
  <2>1. Upload(p, m, "pass")
    BY DEF PassThrough
  <2>2. QED
    BY <1>4, <2>1, Uploading
<1>6. RoomTypes' /\ BleTypes'
  BY <1>1 DEF TypeOK, RoomTypes, BleTypes, PassThrough, phoneVars, bleVars
<1>7. passRx' = [passRx EXCEPT ![p] = Tail(passRx[p])]
  BY DEF PassThrough
<1>8. QueueTypes'
  BY <1>1, <1>3, <1>5, <1>7 DEF TypeOK, QueueTypes, PassThrough
<1>9. RelayTypes'
  BY <1>5 DEF TypeOK, RelayTypes, PassThrough, connVars
<1>10. \A q \in Phones : ~online'[q] => Offline(q)'
  BY <1>2, <1>5, <1>7 DEF TypeOK, Offline, PassThrough, connVars
<1>11. QED
  BY <1>6, <1>8, <1>9, <1>10 DEF TypeOK

\* A phone that is connected handles c, having taken it off its queue.
LEMMA TakingTypes ==
  ASSUME TypeOK, NEW p \in Phones, NEW c \in Known, TakeUpstream(p, c) \/ UNCHANGED phoneVars,
         online[p],
         UNCHANGED <<sent, serverLog, relayRx, passRx, up, uploads, connVars, bleVars>>,
         down' \in [Phones -> Seq(Envelopes)], history' \in [Phones -> Seq(Known)],
         \A q \in Phones : q # p => down'[q] = down[q] /\ history'[q] = history[q]
  PROVE  TypeOK'
<1>1. Known' = Known /\ Requests' = Requests /\ Envelopes' = Envelopes /\ KnownKeys' = KnownKeys
  BY SameSets
<1>2. /\ log' \in [Phones -> Seq(Known)] /\ roomRx' \in [Phones -> Seq(Known)]
      /\ seen' \in [Phones -> SUBSET KnownKeys]
  <2>1. CASE TakeUpstream(p, c)
    BY <2>1, Taking
  <2>2. CASE UNCHANGED phoneVars
    BY <2>2 DEF TypeOK, RoomTypes, phoneVars
  <2>3. QED
    BY <2>1, <2>2
<1>3. RoomTypes' /\ BleTypes'
  BY <1>1, <1>2 DEF TypeOK, RoomTypes, BleTypes, bleVars
<1>4. QueueTypes'
  BY <1>1 DEF TypeOK, QueueTypes
<1>5. RelayTypes'
  BY DEF TypeOK, RelayTypes, connVars
<1>6. \A q \in Phones : ~online'[q] => Offline(q)'
  BY DEF TypeOK, Offline, connVars
<1>7. QED
  BY <1>3, <1>4, <1>5, <1>6 DEF TypeOK

\* What a phone handles of what the server has sent.
LEMMA HandledIs ==
  ASSUME TypeOK, NEW p \in Phones, HandleUpstreamMessage(p)
  PROVE  /\ online[p] /\ history[p] = <<>> /\ down \in [Phones -> Seq(Envelopes)]
         /\ down[p] # <<>> /\ Head(down[p]) \in Envelopes /\ Tail(down[p]) \in Seq(Envelopes)
         /\ ToSet(down[p]) = {Head(down[p])} \cup ToSet(Tail(down[p]))
         /\ down' = [down EXCEPT ![p] = Tail(down[p])]
         /\ \/ /\ Head(down[p]).type = "message" /\ Head(down[p]).message \in Known
               /\ TakeUpstream(p, Head(down[p]).message) /\ UNCHANGED history
            \/ /\ Head(down[p]).type = "room_history" /\ Head(down[p]).messages \in Seq(Known)
               /\ history' = [history EXCEPT ![p] = Head(down[p]).messages]
               /\ UNCHANGED phoneVars
<1>1. down \in [Phones -> Seq(Envelopes)] /\ down[p] # <<>> /\ online[p] /\ history[p] = <<>>
  BY DEF TypeOK, QueueTypes, RelayTypes, Offline, HandleUpstreamMessage, Idle
<1>2. /\ Head(down[p]) \in Envelopes /\ Tail(down[p]) \in Seq(Envelopes)
      /\ ToSet(down[p]) = {Head(down[p])} \cup ToSet(Tail(down[p]))
  BY <1>1, TailIs
<1>3. /\ down' = [down EXCEPT ![p] = Tail(down[p])]
      /\ \/ /\ Head(down[p]).type = "message"
            /\ TakeUpstream(p, Head(down[p]).message) /\ UNCHANGED history
         \/ /\ Head(down[p]).type = "room_history"
            /\ history' = [history EXCEPT ![p] = Head(down[p]).messages]
            /\ UNCHANGED phoneVars
  BY DEF HandleUpstreamMessage
<1>4. QED
  BY <1>1, <1>2, <1>3, KnownIs

LEMMA HandleUpstreamTypes ==
  ASSUME TypeOK, NEW p \in Phones, HandleUpstreamMessage(p)
  PROVE  TypeOK'
<1>1. /\ online[p] /\ down' \in [Phones -> Seq(Envelopes)]
      /\ \A q \in Phones : q # p => down'[q] = down[q]
  BY HandledIs
<1>2. UNCHANGED <<sent, serverLog, relayRx, passRx, up, uploads, connVars, bleVars>>
  BY DEF HandleUpstreamMessage
<1>3. history \in [Phones -> Seq(Known)]
  BY DEF TypeOK, QueueTypes
<1> DEFINE e == Head(down[p])
<1>4. CASE e.type = "message" /\ e.message \in Known /\ TakeUpstream(p, e.message) /\ UNCHANGED history
  BY <1>1, <1>2, <1>3, <1>4, TakingTypes
<1>5. CASE /\ e.type = "room_history" /\ e.messages \in Seq(Known)
           /\ history' = [history EXCEPT ![p] = e.messages]
           /\ UNCHANGED phoneVars
  <2>1. Known' = Known /\ Requests' = Requests /\ Envelopes' = Envelopes /\ KnownKeys' = KnownKeys
    BY <1>2, SameSets
  <2>2. RoomTypes' /\ BleTypes'
    BY <1>2, <1>5, <2>1 DEF TypeOK, RoomTypes, BleTypes, phoneVars, bleVars
  <2>3. QueueTypes'
    BY <1>1, <1>2, <1>3, <1>5, <2>1 DEF TypeOK, QueueTypes
  <2>4. RelayTypes'
    BY <1>2 DEF TypeOK, RelayTypes, connVars
  <2>5. \A q \in Phones : ~online'[q] => Offline(q)'
    BY <1>1, <1>2, <1>3, <1>5 DEF TypeOK, Offline, connVars
  <2>6. QED
    BY <2>2, <2>3, <2>4, <2>5 DEF TypeOK
<1>6. QED
  BY <1>4, <1>5, HandledIs

LEMMA HistoryIs ==
  ASSUME TypeOK, NEW p \in Phones, HandleHistory(p)
  PROVE  /\ online[p] /\ history \in [Phones -> Seq(Known)] /\ history[p] # <<>>
         /\ Head(history[p]) \in Known /\ Tail(history[p]) \in Seq(Known)
         /\ ToSet(history[p]) = {Head(history[p])} \cup ToSet(Tail(history[p]))
         /\ history' = [history EXCEPT ![p] = Tail(history[p])] /\ UNCHANGED down
         /\ \/ Own(p, Head(history[p])) /\ UNCHANGED phoneVars
            \/ TakeUpstream(p, Head(history[p]))
<1>1. history \in [Phones -> Seq(Known)] /\ history[p] # <<>> /\ online[p]
  BY DEF TypeOK, QueueTypes, RelayTypes, Offline, HandleHistory
<1>2. /\ Head(history[p]) \in Known /\ Tail(history[p]) \in Seq(Known)
      /\ ToSet(history[p]) = {Head(history[p])} \cup ToSet(Tail(history[p]))
  BY <1>1, TailIs
<1>3. /\ history' = [history EXCEPT ![p] = Tail(history[p])] /\ UNCHANGED down
      /\ \/ Own(p, Head(history[p])) /\ UNCHANGED phoneVars
         \/ TakeUpstream(p, Head(history[p]))
  BY DEF HandleHistory
<1>4. QED
  BY <1>1, <1>2, <1>3

LEMMA HandleHistoryTypes ==
  ASSUME TypeOK, NEW p \in Phones, HandleHistory(p)
  PROVE  TypeOK'
<1>1. /\ UNCHANGED <<sent, serverLog, relayRx, passRx, up, uploads, connVars, bleVars>>
      /\ down' \in [Phones -> Seq(Envelopes)]
  BY DEF HandleHistory, TypeOK, QueueTypes
<1>2. /\ online[p] /\ Head(history[p]) \in Known /\ history' \in [Phones -> Seq(Known)]
      /\ TakeUpstream(p, Head(history[p])) \/ UNCHANGED phoneVars
      /\ \A q \in Phones : q # p => down'[q] = down[q] /\ history'[q] = history[q]
  BY HistoryIs
<1>3. QED
  BY <1>1, <1>2, TakingTypes

\* What the server reads.
LEMMA ReceivedIs ==
  ASSUME TypeOK, NEW p \in Phones, ServerReceive(p)
  PROVE  /\ online[p] /\ up \in [Phones -> Seq(Requests)] /\ up[p] # <<>>
         /\ Head(up[p]) \in Requests /\ Tail(up[p]) \in Seq(Requests)
         /\ ToSet(up[p]) = {Head(up[p])} \cup ToSet(Tail(up[p]))
         /\ up' = [up EXCEPT ![p] = Tail(up[p])]
         /\ LET r == Head(up[p]) IN
            \/ r.type = "join_room" /\ ServerJoin(p)
            \/ /\ r.type = "send_message" /\ r.id \in sent /\ r.path \in {"relay", "pass"}
               /\ [id |-> r.id, by |-> <<p, r.path, conns[p]>>] \in Known
               /\ \/ p \in joined /\ Publish([id |-> r.id, by |-> <<p, r.path, conns[p]>>])
                  \/ p \notin joined /\ UNCHANGED <<serverLog, down>>
               /\ UNCHANGED joined
<1> DEFINE r == Head(up[p])
           c == [id |-> r.id, by |-> <<p, r.path, conns[p]>>]
<1>1. up \in [Phones -> Seq(Requests)] /\ up[p] # <<>> /\ online[p]
  BY DEF TypeOK, QueueTypes, RelayTypes, Offline, ServerReceive
<1>2. /\ r \in Requests /\ Tail(up[p]) \in Seq(Requests)
      /\ ToSet(up[p]) = {r} \cup ToSet(Tail(up[p]))
  BY <1>1, TailIs
<1>3. /\ up' = [up EXCEPT ![p] = Tail(up[p])]
      /\ \/ r.type = "join_room" /\ ServerJoin(p)
         \/ /\ r.type = "send_message"
            /\ \/ p \in joined /\ Publish(c)
               \/ p \notin joined /\ UNCHANGED <<serverLog, down>>
            /\ UNCHANGED joined
  BY DEF ServerReceive
<1>4. ASSUME r.type = "send_message"
      PROVE  r.id \in sent /\ r.path \in {"relay", "pass"} /\ c \in Known
  <2>1. r.id \in sent /\ r.path \in {"relay", "pass"} /\ r.id \in Msgs /\ conns[p] \in Nat
    BY <1>2, <1>4, KnownIs DEF TypeOK, RoomTypes, RelayTypes
  <2>2. c \in ChatMessage /\ c.id = r.id
    BY <2>1 DEF ChatMessage, Stamps
  <2>3. QED
    BY <2>1, <2>2 DEF Known
<1> HIDE DEF r, c
<1>5. \/ r.type = "join_room" /\ ServerJoin(p)
      \/ /\ r.type = "send_message" /\ r.id \in sent /\ r.path \in {"relay", "pass"} /\ c \in Known
         /\ \/ p \in joined /\ Publish(c)
            \/ p \notin joined /\ UNCHANGED <<serverLog, down>>
         /\ UNCHANGED joined
  BY <1>3, <1>4, Zenon
<1>6. QED
  BY <1>1, <1>2, <1>3, <1>5, Zenon DEF r, c

LEMMA ServerReceiveTypes ==
  ASSUME TypeOK, NEW p \in Phones, ServerReceive(p)
  PROVE  TypeOK'
<1>1. UNCHANGED <<sent, phoneVars, relayRx, passRx, history, uploads, online, conns, owed, bleVars>>
  BY DEF ServerReceive
<1>2. Known' = Known /\ Requests' = Requests /\ Envelopes' = Envelopes /\ KnownKeys' = KnownKeys
  BY <1>1, SameSets
<1>3. /\ online[p] /\ up' \in [Phones -> Seq(Requests)]
      /\ \A q \in Phones : q # p => up'[q] = up[q]
  <2>1. /\ online[p] /\ up \in [Phones -> Seq(Requests)] /\ Tail(up[p]) \in Seq(Requests)
        /\ up' = [up EXCEPT ![p] = Tail(up[p])]
    BY ReceivedIs, Zenon
  <2>2. QED
    BY <2>1
<1>4. /\ serverLog' \in Seq(Known) /\ down' \in [Phones -> Seq(Envelopes)]
      /\ joined' \subseteq joined \cup {p}
      /\ \A q \in Phones : q # p /\ q \notin joined => down'[q] = down[q]
  <2>1. serverLog \in Seq(Known) /\ down \in [Phones -> Seq(Envelopes)]
    BY DEF TypeOK, RoomTypes, QueueTypes
  <2> DEFINE r == Head(up[p])
             c == [id |-> r.id, by |-> <<p, r.path, conns[p]>>]
  <2>2. CASE ServerJoin(p)
    <3>1. Append(down[p], RoomHistory(serverLog)) \in Seq(Envelopes)
      BY <2>1, KnownIs, AppendIs
    <3>2. QED
      BY <2>1, <2>2, <3>1 DEF ServerJoin
  <2>3. CASE c \in Known /\ Publish(c) /\ UNCHANGED joined
    <3>1. /\ serverLog' \in Seq(Known') /\ down' \in [Phones -> Seq(Envelopes')]
          /\ \A q \in Phones : q \notin joined => down'[q] = down[q]
      <4> HIDE DEF c
      <4>1. c \in Known' /\ sent \subseteq sent'
        BY <1>1, <1>2, <2>3
      <4>2. QED
        BY <2>3, <4>1, Publishing
    <3>2. QED
      BY <1>2, <2>3, <3>1
  <2>4. CASE UNCHANGED <<serverLog, down, joined>>
    BY <2>1, <2>4
  <2>5. QED
    BY <2>2, <2>3, <2>4, ReceivedIs
<1>5. RoomTypes' /\ BleTypes'
  BY <1>1, <1>2, <1>4 DEF TypeOK, RoomTypes, BleTypes, phoneVars, bleVars
<1>6. QueueTypes'
  BY <1>1, <1>2, <1>3, <1>4 DEF TypeOK, QueueTypes
<1>7. RelayTypes'
  BY <1>1, <1>4 DEF TypeOK, RelayTypes
<1>8. \A q \in Phones : ~online'[q] => Offline(q)'
  BY <1>1, <1>3, <1>4 DEF TypeOK, Offline
<1>9. QED
  BY <1>5, <1>6, <1>7, <1>8 DEF TypeOK

LEMMA BridgeQueuesTypes ==
  ASSUME TypeOK, UNCHANGED <<sent, serverLog, relayVars, connVars>>,
         log' \in [Phones -> Seq(Known)], roomRx' \in [Phones -> Seq(Known)],
         seen' \in [Phones -> SUBSET KnownKeys], ble' \in [Links -> Seq(Known)],
         linked' \subseteq Links, greeted' \subseteq linked'
  PROVE  TypeOK'
<1>1. Known' = Known /\ Requests' = Requests /\ Envelopes' = Envelopes /\ KnownKeys' = KnownKeys
  BY SameSets
<1>2. RoomTypes' /\ BleTypes'
  BY <1>1 DEF TypeOK, RoomTypes, BleTypes
<1>3. QueueTypes'
  BY <1>1 DEF TypeOK, QueueTypes, relayVars
<1>4. RelayTypes'
  BY DEF TypeOK, RelayTypes, relayVars, connVars
<1>5. \A q \in Phones : ~online'[q] => Offline(q)'
  BY DEF TypeOK, Offline, relayVars, connVars
<1>6. QED
  BY <1>2, <1>3, <1>4, <1>5 DEF TypeOK

LEMMA LinkUpTypes ==
  ASSUME PhoneMeshAssumption, TypeOK, NEW p \in Phones, NEW q \in Phones, LinkUp(p, q)
  PROVE  TypeOK'
<1>1. linked' = linked \cup {<<p, q>>, <<q, p>>} /\ <<p, q>> \in Links
  BY DEF LinkUp
<1>2. <<q, p>> \in Links
  BY <1>1 DEF PhoneMeshAssumption
<1>3. QED
  BY <1>1, <1>2, BridgeQueuesTypes DEF LinkUp, phoneVars, TypeOK, RoomTypes, BleTypes

LEMMA PeerConnectedTypes ==
  ASSUME TypeOK, NEW p \in Phones, NEW q \in Phones, PeerConnected(p, q)
  PROVE  TypeOK'
<1>1. ble' \in [Links -> Seq(Known)]
  <2>1. log[p] \in Seq(Known)
    BY DEF TypeOK, RoomTypes
  <2>2. BleSend(p, log[p])
    BY DEF PeerConnected, SyncRoomHistory
  <2>3. QED
    BY <2>1, <2>2, BleSending
<1>2. greeted' \subseteq linked
  BY DEF PeerConnected, Peers, TypeOK, BleTypes
<1>3. QED
  BY <1>1, <1>2, BridgeQueuesTypes DEF PeerConnected, phoneVars, TypeOK, RoomTypes, BleTypes

LEMMA ForwardToBleTypes ==
  ASSUME TypeOK, NEW p \in Phones, ForwardToBle(p)
  PROVE  TypeOK'
<1> DEFINE c == Head(roomRx[p])
<1>1. roomRx \in [Phones -> Seq(Known)] /\ roomRx[p] # <<>>
  BY DEF ForwardToBle, TypeOK, RoomTypes
<1>2. c \in Known /\ Tail(roomRx[p]) \in Seq(Known)
  BY <1>1, TailIs
<1>3. roomRx' \in [Phones -> Seq(Known)]
  BY <1>1, <1>2 DEF ForwardToBle
<1>4. seen' \in [Phones -> SUBSET KnownKeys]
  BY <1>2, KnownIs DEF ForwardToBle, TypeOK, RoomTypes
<1>5. ble' \in [Links -> Seq(Known)]
  <2>1. UNCHANGED ble \/ BleSend(p, <<c>>)
    BY DEF ForwardToBle
  <2>2. <<c>> \in Seq(Known)
    BY <1>2
  <2>3. QED
    BY <2>1, <2>2, BleSending DEF TypeOK, BleTypes
<1>6. QED
  BY <1>3, <1>4, <1>5, BridgeQueuesTypes DEF ForwardToBle, TypeOK, RoomTypes, BleTypes

LEMMA ArrivedIs ==
  ASSUME TypeOK, NEW p \in Phones, NEW q \in Phones, BleReceive(p, q)
  PROVE  LET c == Head(ble[<<q, p>>]) IN
         /\ c \in Known /\ ble' \in [Links -> Seq(Known)]
         /\ \/ UNCHANGED <<phoneVars, passRx, owed>>
            \/ /\ seen' = [seen EXCEPT ![p] =
                             seen[p] \cup {Key("ble-echo", c), Key("ble-in", c.id)}]
               /\ \/ Key("ble-in", c.id) \in seen[p] /\ UNCHANGED <<log, roomRx, passRx, owed>>
                  \/ /\ Key("ble-in", c.id) \notin seen[p]
                     /\ InjectExternalMessage(p, c) /\ PassUp(p, c)
<1> DEFINE l == <<q, p>>
           c == Head(ble[l])
<1>1. ble \in [Links -> Seq(Known)] /\ l \in Links /\ ble[l] # <<>>
  BY DEF TypeOK, BleTypes, BleReceive, Arrives
<1>2. c \in Known /\ Tail(ble[l]) \in Seq(Known)
  BY <1>1, TailIs
<1>3. ble' = [ble EXCEPT ![l] = Tail(ble[l])] \/ ble' = ble
  BY DEF BleReceive, Arrives
<1>4. ble' \in [Links -> Seq(Known)]
  BY <1>1, <1>2, <1>3
<1>5. \/ UNCHANGED <<phoneVars, passRx, owed>>
      \/ /\ seen' = [seen EXCEPT ![p] = seen[p] \cup {Key("ble-echo", c), Key("ble-in", c.id)}]
         /\ \/ Key("ble-in", c.id) \in seen[p] /\ UNCHANGED <<log, roomRx, passRx, owed>>
            \/ /\ Key("ble-in", c.id) \notin seen[p]
               /\ InjectExternalMessage(p, c) /\ PassUp(p, c)
  BY DEF BleReceive
<1>6. QED
  BY <1>2, <1>4, <1>5

LEMMA PassingUp ==
  ASSUME TypeOK, NEW p \in Phones, NEW c \in Known, PassUp(p, c)
  PROVE  /\ passRx' \in [Phones -> Seq(Known)] /\ owed' \subseteq owed \cup {<<p, c.id>>}
         /\ owed' \subseteq Phones \X sent
         /\ \A r \in Phones : ~online[r] => passRx'[r] = passRx[r]
         /\ \/ UNCHANGED <<passRx, owed>>
            \/ /\ online[p] /\ passRx' = [passRx EXCEPT ![p] = Append(passRx[p], c)]
               /\ Append(passRx[p], c) \in Seq(Known)
<1>1. passRx \in [Phones -> Seq(Known)] /\ owed \subseteq Phones \X sent
  BY DEF TypeOK, QueueTypes, RelayTypes
<1>2. c.id \in sent
  BY KnownIs
<1>3. CASE online[p]
  <2>1. Append(passRx[p], c) \in Seq(Known)
    BY <1>1, AppendIs
  <2>2. /\ passRx' = [passRx EXCEPT ![p] = Append(passRx[p], c)]
        /\ owed' = owed \cup {<<p, c.id>>}
    BY <1>3 DEF PassUp
  <2>3. QED
    BY <1>1, <1>2, <1>3, <2>1, <2>2
<1>4. CASE ~online[p]
  BY <1>1, <1>4 DEF PassUp
<1>5. QED
  BY <1>3, <1>4

LEMMA BleReceiveTypes ==
  ASSUME TypeOK, NEW p \in Phones, NEW q \in Phones, BleReceive(p, q)
  PROVE  TypeOK'
<1>1. UNCHANGED <<sent, serverLog, relayRx, up, down, history, uploads, online, conns, joined,
                  linked, greeted>>
  BY DEF BleReceive
<1>2. Known' = Known /\ Requests' = Requests /\ Envelopes' = Envelopes /\ KnownKeys' = KnownKeys
  BY <1>1, SameSets
<1> DEFINE c == Head(ble[<<q, p>>])
<1>3. c \in Known /\ ble' \in [Links -> Seq(Known)]
  BY ArrivedIs
<1>4. /\ {Key("ble-echo", c), Key("ble-in", c.id)} \subseteq KnownKeys
      /\ log \in [Phones -> Seq(Known)] /\ roomRx \in [Phones -> Seq(Known)]
      /\ seen \in [Phones -> SUBSET KnownKeys] /\ passRx \in [Phones -> Seq(Known)]
      /\ owed \subseteq Phones \X sent
  BY <1>3, KnownIs DEF TypeOK, RoomTypes, QueueTypes, RelayTypes
<1>5. /\ log' \in [Phones -> Seq(Known)] /\ roomRx' \in [Phones -> Seq(Known)]
      /\ seen' \in [Phones -> SUBSET KnownKeys] /\ passRx' \in [Phones -> Seq(Known)]
      /\ owed' \subseteq Phones \X sent
      /\ \A r \in Phones : ~online[r] => passRx'[r] = passRx[r]
  <2>1. CASE UNCHANGED <<phoneVars, passRx, owed>>
    BY <1>4, <2>1 DEF phoneVars
  <2>2. CASE /\ seen' = [seen EXCEPT ![p] = seen[p] \cup {Key("ble-echo", c), Key("ble-in", c.id)}]
             /\ UNCHANGED <<log, roomRx, passRx, owed>>
    BY <1>4, <2>2
  <2>3. CASE /\ seen' = [seen EXCEPT ![p] = seen[p] \cup {Key("ble-echo", c), Key("ble-in", c.id)}]
             /\ InjectExternalMessage(p, c) /\ PassUp(p, c)
    <3>1. seen' \in [Phones -> SUBSET KnownKeys]
      BY <1>4, <2>3
    <3> HIDE DEF c
    <3>2. log' \in [Phones -> Seq(Known)] /\ roomRx' \in [Phones -> Seq(Known)]
      BY <1>3, <2>3, Injecting
    <3>3. /\ passRx' \in [Phones -> Seq(Known)] /\ owed' \subseteq Phones \X sent
          /\ \A r \in Phones : ~online[r] => passRx'[r] = passRx[r]
      BY <1>3, <2>3, PassingUp
    <3>4. QED
      BY <3>1, <3>2, <3>3
  <2>4. QED
    BY <2>1, <2>2, <2>3, ArrivedIs
<1>6. RoomTypes' /\ BleTypes'
  BY <1>1, <1>2, <1>3, <1>5 DEF TypeOK, RoomTypes, BleTypes
<1>7. QueueTypes'
  BY <1>1, <1>2, <1>5 DEF TypeOK, QueueTypes
<1>8. RelayTypes'
  BY <1>1, <1>5 DEF TypeOK, RelayTypes
<1>9. \A r \in Phones : ~online'[r] => Offline(r)'
  BY <1>1, <1>5 DEF TypeOK, Offline
<1>10. QED
  BY <1>6, <1>7, <1>8, <1>9 DEF TypeOK

LEMMA InitTypes ==
  ASSUME PhoneMeshAssumption, Init
  PROVE  TypeOK
<1>1. \A S : <<>> \in Seq(S)
  BY EmptySeq
<1>2. RoomTypes
  BY <1>1 DEF Init, RoomTypes
<1>3. QueueTypes
  BY <1>1 DEF Init, QueueTypes
<1>4. RelayTypes
  BY DEF Init, RelayTypes
<1>5. BleTypes
  BY <1>1 DEF Init, BleTypes
<1>6. \A p \in Phones : ~online[p] => Offline(p)
  BY DEF Init, Offline
<1>7. QED
  BY <1>2, <1>3, <1>4, <1>5, <1>6 DEF TypeOK

\* The actions of Next, for the proofs by cases.
LEMMA NextIs ==
  ASSUME Next
  PROVE  \/ \E m \in Msgs : SendWeb(m)
         \/ \E p \in Phones, m \in Msgs : SendLocal(p, m)
         \/ \E p \in Phones : Connect(p)
         \/ \E p \in Phones : Disconnect(p)
         \/ \E p \in Phones, q \in Phones : LinkUp(p, q)
         \/ \E p \in Phones : ForwardUpstream(p)
         \/ \E p \in Phones : PassThrough(p)
         \/ \E p \in Phones : ServerReceive(p)
         \/ \E p \in Phones : HandleUpstreamMessage(p)
         \/ \E p \in Phones : HandleHistory(p)
         \/ \E p \in Phones : ForwardToBle(p)
         \/ \E p \in Phones, q \in Phones : PeerConnected(p, q)
         \/ \E p \in Phones, q \in Phones : BleReceive(p, q)
BY Zenon DEF Next, RelayStep, BridgeStep

LEMMA StepTypes ==
  ASSUME PhoneMeshAssumption, TypeOK, [Next]_vars
  PROVE  TypeOK'
<1>1. CASE UNCHANGED vars
  <2>1. Known' = Known /\ Requests' = Requests /\ Envelopes' = Envelopes /\ KnownKeys' = KnownKeys
    BY <1>1, SameSets DEF vars
  <2>2. UNCHANGED <<phoneVars, relayVars, connVars, bleVars, sent, serverLog>>
    BY <1>1 DEF vars
  <2>3. RoomTypes' /\ QueueTypes'
    BY <2>1, <2>2 DEF TypeOK, RoomTypes, QueueTypes, phoneVars, relayVars
  <2>4. RelayTypes' /\ BleTypes'
    BY <2>1, <2>2 DEF TypeOK, RelayTypes, BleTypes, relayVars, connVars, bleVars
  <2>5. \A p \in Phones : ~online'[p] => Offline(p)'
    BY <2>2 DEF TypeOK, Offline, relayVars, connVars
  <2>6. QED
    BY <2>3, <2>4, <2>5 DEF TypeOK
<1>2. CASE Next
  BY <1>2, NextIs, SendWebTypes, SendLocalTypes, ConnectTypes, DisconnectTypes, LinkUpTypes,
     ForwardUpstreamTypes, PassThroughTypes, ServerReceiveTypes, HandleUpstreamTypes,
     HandleHistoryTypes, ForwardToBleTypes, PeerConnectedTypes, BleReceiveTypes
<1>3. QED
  BY <1>1, <1>2

-----------------------------------------------------------------------------
(* Rooms and keys only grow, and no message comes twice *)

Grows ==
  /\ sent \subseteq sent' /\ Ids(serverLog) \subseteq Ids(serverLog')
  /\ \A p \in Phones : Ids(log[p]) \subseteq Ids(log'[p]) /\ seen[p] \subseteq seen'[p]

LEMMA IdsAreSent ==
  ASSUME NEW s \in Seq(Known)
  PROVE  Ids(s) \subseteq sent
<1>1. ToSet(s) \subseteq Known /\ Ids(s) = {c.id : c \in ToSet(s)}
  BY MemberIs
<1>2. QED
  BY <1>1, KnownIs

LEMMA TakingGrows ==
  ASSUME TypeOK, NEW p \in Phones, NEW c \in Known, TakeUpstream(p, c) \/ UNCHANGED phoneVars,
         UNCHANGED <<sent, serverLog>>
  PROVE  Grows /\ (Rooms => Rooms')
<1>1. CASE TakeUpstream(p, c)
  <2>1. seen \in [Phones -> SUBSET KnownKeys]
    BY DEF TypeOK, RoomTypes
  <2>2. /\ \A q \in Phones : Ids(log[q]) \subseteq Ids(log'[q])
        /\ \A q \in Phones : OneOfEach(log[q]) => OneOfEach(log'[q])
        /\ \/ UNCHANGED seen
           \/ seen' = [seen EXCEPT ![p] =
                         seen[p] \cup {Key("relay-in", c.id), Key("relay-out", c.id)}]
    BY <1>1, Taking
  <2>3. \A q \in Phones : seen[q] \subseteq seen'[q]
    BY <2>1, <2>2
  <2>4. QED
    BY <2>2, <2>3 DEF Grows, Rooms
<1>2. CASE UNCHANGED phoneVars
  BY <1>2 DEF phoneVars, Grows, Rooms
<1>3. QED
  BY <1>1, <1>2

LEMMA SendLocalGrows ==
  ASSUME PhoneMeshAssumption, TypeOK, NEW p \in Phones, NEW m \in Msgs, SendLocal(p, m)
  PROVE  /\ Grows /\ (Rooms => Rooms')
         /\ log \in [Phones -> Seq(ChatMessage)]
         /\ log' = [log EXCEPT ![p] = Append(log[p], Written(m))]
         /\ Ids(log'[p]) = Ids(log[p]) \cup {m}
<1>1. /\ log' = [log EXCEPT ![p] = Append(log[p], Written(m))] /\ m \notin sent
      /\ sent' = sent \cup {m} /\ UNCHANGED <<serverLog, seen>>
  BY DEF SendLocal
<1>2. log \in [Phones -> Seq(Known)]
  BY DEF TypeOK, RoomTypes
<1>3. log \in [Phones -> Seq(ChatMessage)] /\ Written(m) \in ChatMessage /\ Written(m).id = m
  BY <1>2, QueuesGrow, WrittenIs DEF Known
<1>4. Ids(Append(log[p], Written(m))) = Ids(log[p]) \cup {m}
  BY <1>3, AppendIs
<1>5. OneOfEach(log[p]) => OneOfEach(Append(log[p], Written(m)))
  <2>1. m \notin Ids(log[p])
    BY <1>1, <1>2, IdsAreSent
  <2>2. QED
    BY <1>3, <2>1, OneMore
<1>6. Grows
  BY <1>1, <1>3, <1>4 DEF Grows
<1>7. Rooms => Rooms'
  BY <1>1, <1>3, <1>5 DEF Rooms
<1>8. QED
  BY <1>1, <1>3, <1>4, <1>6, <1>7

LEMMA StepGrows ==
  ASSUME PhoneMeshAssumption, TypeOK, [Next]_vars
  PROVE  Grows /\ (Rooms => Rooms')
<1> USE DEF phoneVars
<1>1. ASSUME UNCHANGED <<sent, serverLog, phoneVars>>
      PROVE  Grows /\ (Rooms => Rooms')
  BY <1>1 DEF Grows, Rooms
<1>2. ASSUME NEW m \in Msgs, SendWeb(m)
      PROVE  Grows /\ (Rooms => Rooms')
  <2>1. sent' = sent \cup {m} /\ sent \subseteq sent' /\ Publish(Written(m)) /\ UNCHANGED phoneVars
    BY <1>2 DEF SendWeb
  <2>2. Written(m) \in Known'
    BY <2>1, WrittenIs DEF Known
  <2>3. /\ Ids(serverLog) \subseteq Ids(serverLog')
        /\ OneOfEach(serverLog) => OneOfEach(serverLog')
    BY <2>1, <2>2, Publishing
  <2>4. QED
    BY <2>1, <2>3 DEF Grows, Rooms
<1>3. ASSUME NEW p \in Phones, ForwardUpstream(p)
      PROVE  Grows /\ (Rooms => Rooms')
  <2>1. UNCHANGED <<sent, serverLog, log>>
    BY <1>3 DEF ForwardUpstream
  <2>2. UNCHANGED seen \/ \E m : seen' = [seen EXCEPT ![p] = seen[p] \cup {Key("relay-out", m)}]
    BY <1>3 DEF ForwardUpstream
  <2>3. \A q \in Phones : seen[q] \subseteq seen'[q]
    BY <2>2 DEF TypeOK, RoomTypes
  <2>4. QED
    BY <2>1, <2>3 DEF Grows, Rooms
<1>4. ASSUME NEW p \in Phones, ServerReceive(p)
      PROVE  Grows /\ (Rooms => Rooms')
  <2>1. UNCHANGED <<sent, phoneVars>> /\ Known' = Known
    BY <1>4, SameSets DEF ServerReceive
  <2> DEFINE c == [id |-> Head(up[p]).id, by |-> <<p, Head(up[p]).path, conns[p]>>]
  <2>2. UNCHANGED serverLog \/ (c \in Known /\ Publish(c))
    BY <1>4, ReceivedIs DEF ServerJoin
  <2> HIDE DEF c
  <2>3. CASE UNCHANGED serverLog
    BY <2>1, <2>3, <1>1
  <2>4. CASE c \in Known /\ Publish(c)
    <3>1. c \in Known' /\ sent \subseteq sent'
      BY <2>1, <2>4
    <3>2. /\ Ids(serverLog) \subseteq Ids(serverLog')
          /\ OneOfEach(serverLog) => OneOfEach(serverLog')
      BY <2>4, <3>1, Publishing
    <3>3. QED
      BY <2>1, <3>1, <3>2 DEF Grows, Rooms
  <2>5. QED
    BY <2>2, <2>3, <2>4
<1>5. ASSUME NEW p \in Phones, HandleUpstreamMessage(p)
      PROVE  Grows /\ (Rooms => Rooms')
  <2>1. UNCHANGED <<sent, serverLog>>
    BY <1>5 DEF HandleUpstreamMessage
  <2>2. UNCHANGED phoneVars \/ \E c \in Known : TakeUpstream(p, c)
    BY <1>5, HandledIs, Zenon
  <2>3. QED
    BY <1>1, <2>1, <2>2, TakingGrows
<1>6. ASSUME NEW p \in Phones, HandleHistory(p)
      PROVE  Grows /\ (Rooms => Rooms')
  <2>1. UNCHANGED <<sent, serverLog>>
    BY <1>6 DEF HandleHistory
  <2>2. UNCHANGED phoneVars \/ \E c \in Known : TakeUpstream(p, c)
    BY <1>6, HistoryIs, Zenon
  <2>3. QED
    BY <1>1, <2>1, <2>2, TakingGrows
<1>7. ASSUME NEW p \in Phones, ForwardToBle(p)
      PROVE  Grows /\ (Rooms => Rooms')
  <2>1. UNCHANGED <<sent, serverLog, log>>
    BY <1>7 DEF ForwardToBle
  <2>2. \E k : seen' = [seen EXCEPT ![p] = seen[p] \cup {k}]
    BY <1>7 DEF ForwardToBle
  <2>3. \A q \in Phones : seen[q] \subseteq seen'[q]
    BY <2>2 DEF TypeOK, RoomTypes
  <2>4. QED
    BY <2>1, <2>3 DEF Grows, Rooms
<1>8. ASSUME NEW p \in Phones, NEW q \in Phones, BleReceive(p, q)
      PROVE  Grows /\ (Rooms => Rooms')
  <2>1. UNCHANGED <<sent, serverLog>>
    BY <1>8 DEF BleReceive
  <2> DEFINE c == Head(ble[<<q, p>>])
  <2>2. c \in Known
    BY <1>8, ArrivedIs
  <2>3. \/ UNCHANGED phoneVars
        \/ /\ seen' = [seen EXCEPT ![p] = seen[p] \cup {Key("ble-echo", c), Key("ble-in", c.id)}]
           /\ UNCHANGED log \/ InjectExternalMessage(p, c)
    BY <1>8, ArrivedIs
  <2> HIDE DEF c
  <2>4. CASE UNCHANGED phoneVars
    BY <1>1, <2>1, <2>4
  <2>5. CASE /\ seen' = [seen EXCEPT ![p] = seen[p] \cup {Key("ble-echo", c), Key("ble-in", c.id)}]
             /\ UNCHANGED log \/ InjectExternalMessage(p, c)
    <3>1. \A r \in Phones : seen[r] \subseteq seen'[r]
      BY <2>5 DEF TypeOK, RoomTypes
    <3>2. \A r \in Phones : /\ Ids(log[r]) \subseteq Ids(log'[r])
                            /\ OneOfEach(log[r]) => OneOfEach(log'[r])
      <4>1. CASE UNCHANGED log
        BY <4>1
      <4>2. CASE InjectExternalMessage(p, c)
        BY <2>2, <4>2, Injecting
      <4>3. QED
        BY <2>5, <4>1, <4>2
    <3>3. QED
      BY <2>1, <3>1, <3>2 DEF Grows, Rooms
  <2>6. QED
    BY <2>3, <2>4, <2>5
<1>9. ASSUME NEW p \in Phones, NEW m \in Msgs, SendLocal(p, m)
      PROVE  Grows /\ (Rooms => Rooms')
  BY <1>9, SendLocalGrows
<1>10. ASSUME NEW p \in Phones, Connect(p) \/ Disconnect(p) \/ PassThrough(p)
       PROVE  Grows /\ (Rooms => Rooms')
  BY <1>1, <1>10 DEF Connect, Disconnect, PassThrough
<1>11. ASSUME NEW p \in Phones, NEW q \in Phones, LinkUp(p, q) \/ PeerConnected(p, q)
       PROVE  Grows /\ (Rooms => Rooms')
  BY <1>1, <1>11 DEF LinkUp, PeerConnected
<1>12. CASE UNCHANGED vars
  BY <1>1, <1>12 DEF vars
<1>13. CASE Next
  BY <1>2, <1>3, <1>4, <1>5, <1>6, <1>7, <1>8, <1>9, <1>10, <1>11, <1>13, NextIs
<1>14. QED
  BY <1>12, <1>13

-----------------------------------------------------------------------------
(* How often a message goes up *)

LEMMA CountedStays ==
  ASSUME NEW q \in Phones, NEW m \in Msgs, Counted(q, m), uploads[q][m] \in Nat,
         seen[q] \subseteq seen'[q], uploads'[q][m] = uploads[q][m],
         m \in Ids(passRx'[q]) => m \in Ids(passRx[q])
  PROVE  Counted(q, m)'
<1> DEFINE u == uploads[q][m]
           w == Wrote(q, m)
           v == Wrote(q, m)'
           b == Key("ble-in", m) \in seen[q]
           d == Key("ble-in", m) \in seen'[q]
<1>1. (w => v) /\ (b => d)
  BY DEF Wrote
<1>2. /\ m \in Ids(passRx'[q]) => b /\ u <= IF w THEN 1 ELSE 0
      /\ u <= (IF w THEN 1 ELSE 0) + (IF b THEN 1 ELSE 0)
  BY DEF Counted
<1>3. u \in Nat
  OBVIOUS
<1> HIDE DEF u, w, v, b, d
<1>4. /\ m \in Ids(passRx'[q]) => d /\ u <= IF v THEN 1 ELSE 0
      /\ u <= (IF v THEN 1 ELSE 0) + (IF d THEN 1 ELSE 0)
  BY <1>1, <1>2, <1>3
<1>5. QED
  BY <1>4 DEF Counted, u, v, d

LEMMA UploadsStay ==
  ASSUME TypeOK, Uploads, Grows, UNCHANGED <<passRx, uploads>>
  PROVE  Uploads'
<1>1. \A q \in Phones, m \in Msgs : uploads[q][m] \in Nat
  BY DEF TypeOK, RelayTypes
<1>2. ASSUME NEW q \in Phones, NEW m \in Msgs
      PROVE  Counted(q, m)'
  BY <1>1, CountedStays DEF Uploads, Grows
<1>3. QED
  BY <1>2 DEF Uploads

LEMMA ForwardUpstreamUploads ==
  ASSUME TypeOK, Origins, Uploads, Grows, NEW p \in Phones, ForwardUpstream(p)
  PROVE  Uploads'
<1>0. PICK m : m = Head(relayRx[p]).id
  OBVIOUS
<1>1. relayRx \in [Phones -> Seq(Known)] /\ relayRx[p] # <<>> /\ UNCHANGED passRx
  BY DEF TypeOK, QueueTypes, ForwardUpstream
<1>2. Head(relayRx[p]) \in Known /\ Head(relayRx[p]) \in ToSet(relayRx[p])
  BY <1>1, TailIs
<1>3. m \in sent /\ m \in Msgs /\ Author[m] = p
  BY <1>0, <1>2, KnownIs DEF TypeOK, RoomTypes, Origins
<1>4. CASE UNCHANGED <<seen, up, uploads>>
  BY <1>1, <1>4, UploadsStay
<1>5. CASE /\ Key("relay-out", m) \notin seen[p]
           /\ seen' = [seen EXCEPT ![p] = seen[p] \cup {Key("relay-out", m)}]
           /\ Upload(p, m, "relay")
  <2>1. seen \in [Phones -> SUBSET KnownKeys] /\ uploads \in [Phones -> [Msgs -> Nat]]
    BY DEF TypeOK, RoomTypes, RelayTypes
  <2>2. /\ uploads'[p][m] = uploads[p][m] + 1
        /\ \A q \in Phones : q # p => uploads'[q] = uploads[q]
        /\ \A n \in Msgs : n # m => uploads'[p][n] = uploads[p][n]
    BY <1>3, <1>5, Uploading
  <2>3. seen'[p] = seen[p] \cup {Key("relay-out", m)}
    BY <1>5, <2>1
  <2>4. Counted(p, m)'
    <3> DEFINE u == uploads[p][m]
               b == Key("ble-in", m) \in seen[p]
    <3>1. ~Wrote(p, m) /\ Wrote(p, m)'
      BY <1>3, <1>5, <2>3 DEF Wrote
    <3>2. Key("ble-in", m) \in seen'[p] <=> b
      BY <2>3 DEF Key
    <3>3. /\ m \in Ids(passRx[p]) => b /\ u <= 0
          /\ u <= IF b THEN 1 ELSE 0
          /\ u \in Nat
      <4>1. Counted(p, m) /\ u \in Nat
        BY <1>3, <2>1 DEF Uploads
      <4>2. QED
        BY <3>1, <4>1 DEF Counted
    <3>4. uploads'[p][m] = u + 1 /\ passRx'[p] = passRx[p]
      BY <1>1, <2>2
    <3> HIDE DEF u, b
    <3>5. /\ m \in Ids(passRx'[p]) => Key("ble-in", m) \in seen'[p] /\ uploads'[p][m] <= 1
          /\ uploads'[p][m] <= 1 + (IF Key("ble-in", m) \in seen'[p] THEN 1 ELSE 0)
      BY <3>2, <3>3, <3>4
    <3>6. QED
      BY <3>1, <3>5 DEF Counted
  <2>5. ASSUME NEW q \in Phones, NEW n \in Msgs, q # p \/ n # m
        PROVE  Counted(q, n)'
    <3>1. uploads'[q][n] = uploads[q][n] /\ uploads[q][n] \in Nat
      BY <2>1, <2>2, <2>5
    <3>2. Counted(q, n) /\ seen[q] \subseteq seen'[q] /\ passRx'[q] = passRx[q]
      BY <1>1 DEF Uploads, Grows
    <3>3. QED
      BY <3>1, <3>2, CountedStays
  <2>6. QED
    BY <1>1, <2>4, <2>5 DEF Uploads
<1>6. QED
  BY <1>0, <1>4, <1>5 DEF ForwardUpstream

LEMMA PassThroughUploads ==
  ASSUME TypeOK, Uploads, Grows, NEW p \in Phones, PassThrough(p)
  PROVE  Uploads'
<1>0. PICK m : m = Head(passRx[p]).id
  OBVIOUS
<1>1. /\ passRx \in [Phones -> Seq(Known)] /\ passRx[p] # <<>>
      /\ passRx' = [passRx EXCEPT ![p] = Tail(passRx[p])]
      /\ UNCHANGED seen
  BY DEF TypeOK, QueueTypes, PassThrough, phoneVars
<1>2. /\ Head(passRx[p]) \in Known
      /\ Ids(passRx[p]) = {m} \cup Ids(Tail(passRx[p]))
  BY <1>0, <1>1, TailIs
<1>3. m \in sent /\ m \in Msgs
  BY <1>0, <1>2, KnownIs DEF TypeOK, RoomTypes
<1>4. Distinct(Tail(passRx[p])) /\ m \notin Ids(Tail(passRx[p]))
  BY <1>0, <1>1, DistinctSteps DEF Uploads
<1>5. /\ uploads \in [Phones -> [Msgs -> Nat]]
      /\ uploads'[p][m] = uploads[p][m] + 1
      /\ \A q \in Phones : q # p => uploads'[q] = uploads[q]
      /\ \A n \in Msgs : n # m => uploads'[p][n] = uploads[p][n]
  BY <1>0, <1>3, Uploading DEF PassThrough, TypeOK, RelayTypes
<1>6. /\ \A q \in Phones : Distinct(passRx'[q])
      /\ \A q \in Phones : Ids(passRx'[q]) \subseteq Ids(passRx[q])
      /\ m \notin Ids(passRx'[p]) /\ m \in Ids(passRx[p])
  BY <1>1, <1>2, <1>4 DEF Uploads
<1>7. Counted(p, m)'
  <2> DEFINE u == uploads[p][m]
             w == Wrote(p, m)
  <2>1. Counted(p, m) /\ u \in Nat /\ uploads'[p][m] = u + 1
    BY <1>3, <1>5 DEF Uploads
  <2>2. Key("ble-in", m) \in seen[p] /\ u <= IF w THEN 1 ELSE 0
    BY <1>6, <2>1 DEF Counted
  <2>3. Wrote(p, m)' = w /\ seen' = seen
    BY <1>1 DEF Wrote
  <2> HIDE DEF u, w
  <2>4. u + 1 <= (IF w THEN 1 ELSE 0) + 1
    BY <2>1, <2>2
  <2>5. QED
    BY <1>6, <2>1, <2>2, <2>3, <2>4 DEF Counted
<1>8. ASSUME NEW q \in Phones, NEW n \in Msgs, q # p \/ n # m
      PROVE  Counted(q, n)'
  <2>1. uploads'[q][n] = uploads[q][n] /\ uploads[q][n] \in Nat
    BY <1>5, <1>8
  <2>2. /\ Counted(q, n) /\ seen[q] \subseteq seen'[q]
        /\ n \in Ids(passRx'[q]) => n \in Ids(passRx[q])
    BY <1>6 DEF Uploads, Grows
  <2>3. QED
    BY <2>1, <2>2, CountedStays
<1>9. QED
  BY <1>6, <1>7, <1>8 DEF Uploads

LEMMA BleReceiveUploads ==
  ASSUME TypeOK, Uploads, Grows, NEW p \in Phones, NEW q \in Phones, BleReceive(p, q)
  PROVE  Uploads'
<1>0. PICK c : c = Head(ble[<<q, p>>])
  OBVIOUS
<1>1. UNCHANGED uploads /\ c \in Known
  BY <1>0, ArrivedIs DEF BleReceive
<1>2. passRx \in [Phones -> Seq(Known)] /\ seen \in [Phones -> SUBSET KnownKeys]
  BY DEF TypeOK, RoomTypes, QueueTypes
<1>3. \/ UNCHANGED passRx
      \/ /\ seen' = [seen EXCEPT ![p] = seen[p] \cup {Key("ble-echo", c), Key("ble-in", c.id)}]
         /\ Key("ble-in", c.id) \notin seen[p] /\ PassUp(p, c)
  BY <1>0, ArrivedIs
<1>4. CASE UNCHANGED passRx
  BY <1>1, <1>4, UploadsStay
<1>5. CASE /\ seen' = [seen EXCEPT ![p] = seen[p] \cup {Key("ble-echo", c), Key("ble-in", c.id)}]
           /\ Key("ble-in", c.id) \notin seen[p]
           /\ passRx' = [passRx EXCEPT ![p] = Append(passRx[p], c)]
  <2>0. PICK m : m = c.id
    OBVIOUS
  <2>1. /\ Ids(Append(passRx[p], c)) = Ids(passRx[p]) \cup {m} /\ m \in Msgs
    BY <1>1, <1>2, <2>0, AppendIs, KnownIs DEF TypeOK, RoomTypes
  <2>2. Counted(p, m) /\ uploads[p][m] \in Nat
    BY <2>1 DEF Uploads, TypeOK, RelayTypes
  <2>3. m \notin Ids(passRx[p])
    BY <1>5, <2>0, <2>2 DEF Counted
  <2>4. \A r \in Phones : Distinct(passRx'[r])
    <3>1. Distinct(Append(passRx[p], c))
      BY <1>1, <1>2, <2>0, <2>3, DistinctSteps DEF Uploads
    <3>2. QED
      BY <1>2, <1>5, <3>1 DEF Uploads
  <2>5. Counted(p, m)'
    <3> DEFINE u == uploads[p][m]
               w == Wrote(p, m)
               v == Wrote(p, m)'
    <3>1. u <= IF w THEN 1 ELSE 0
      BY <1>5, <2>0, <2>2 DEF Counted
    <3>2. (w => v) /\ u \in Nat
      BY <2>2 DEF Wrote, Grows
    <3>3. Key("ble-in", m) \in seen'[p] /\ uploads'[p][m] = u
      BY <1>1, <1>2, <1>5, <2>0
    <3> HIDE DEF u, w, v
    <3>4. u <= (IF v THEN 1 ELSE 0) /\ u <= (IF v THEN 1 ELSE 0) + 1
      BY <3>1, <3>2
    <3>5. QED
      BY <3>3, <3>4 DEF Counted, v
  <2>6. ASSUME NEW r \in Phones, NEW n \in Msgs, r # p \/ n # m
        PROVE  Counted(r, n)'
    <3>1. uploads'[r][n] = uploads[r][n] /\ uploads[r][n] \in Nat
      BY <1>1 DEF TypeOK, RelayTypes
    <3>2. /\ Counted(r, n) /\ seen[r] \subseteq seen'[r]
          /\ n \in Ids(passRx'[r]) => n \in Ids(passRx[r])
      BY <1>2, <1>5, <2>0, <2>1, <2>6 DEF Uploads, Grows
    <3>3. QED
      BY <3>1, <3>2, CountedStays
  <2>7. QED
    BY <2>1, <2>4, <2>5, <2>6 DEF Uploads
<1>6. QED
  BY <1>1, <1>3, <1>4, <1>5, PassingUp

LEMMA StepUploads ==
  ASSUME TypeOK, Origins, Uploads, Grows, [Next]_vars
  PROVE  Uploads'
<1>1. ASSUME NEW m \in Msgs, SendWeb(m)
      PROVE  Uploads'
  BY <1>1, UploadsStay DEF SendWeb
<1>2. ASSUME NEW p \in Phones, NEW m \in Msgs, SendLocal(p, m)
      PROVE  Uploads'
  BY <1>2, UploadsStay DEF SendLocal
<1>3. ASSUME NEW p \in Phones, Connect(p) \/ ServerReceive(p) \/ HandleUpstreamMessage(p)
                                 \/ HandleHistory(p) \/ ForwardToBle(p)
      PROVE  Uploads'
  BY <1>3, UploadsStay
     DEF Connect, ServerReceive, HandleUpstreamMessage, HandleHistory, ForwardToBle, relayVars
<1>4. ASSUME NEW p \in Phones, NEW q \in Phones, LinkUp(p, q) \/ PeerConnected(p, q)
      PROVE  Uploads'
  BY <1>4, UploadsStay DEF LinkUp, PeerConnected, relayVars
<1>5. ASSUME NEW p \in Phones, Disconnect(p)
      PROVE  Uploads'
  <2>1. UNCHANGED uploads /\ passRx' = [passRx EXCEPT ![p] = <<>>]
    BY <1>5 DEF Disconnect
  <2>2. \A q \in Phones : passRx'[q] = passRx[q] \/ passRx'[q] = <<>>
    BY <2>1 DEF TypeOK, QueueTypes
  <2>3. \A q \in Phones : Distinct(passRx'[q]) /\ Ids(passRx'[q]) \subseteq Ids(passRx[q])
    BY <2>2, EmptyIs DEF Uploads
  <2>4. ASSUME NEW q \in Phones, NEW n \in Msgs
        PROVE  Counted(q, n)'
    <3>1. Counted(q, n) /\ uploads[q][n] \in Nat /\ seen[q] \subseteq seen'[q]
      BY DEF Uploads, Grows, TypeOK, RelayTypes
    <3>2. QED
      BY <2>1, <2>3, <3>1, CountedStays
  <2>5. QED
    BY <2>3, <2>4 DEF Uploads
<1>6. CASE UNCHANGED vars
  BY <1>6, UploadsStay DEF vars, relayVars
<1>7. CASE Next
  BY <1>1, <1>2, <1>3, <1>4, <1>5, <1>7, NextIs, ForwardUpstreamUploads, PassThroughUploads,
     BleReceiveUploads
<1>8. QED
  BY <1>6, <1>7

-----------------------------------------------------------------------------
(* What a step has to keep *)

LEMMA OriginsKept ==
  ASSUME Origins, Grows,
         \A c \in ToSet(serverLog') : c \in ToSet(serverLog) \/ Attested(c)',
         \A p \in Phones :
           /\ \A c \in ToSet(relayRx'[p]) :
                c \in ToSet(relayRx[p]) \/ (Author[c.id] = p /\ c.id \in Ids(log'[p]))
           /\ \A r \in ToSet(up'[p]) : r.type = "send_message" /\ r.path = "relay" =>
                r \in ToSet(up[p]) \/ r.id \in Ids(log'[p])
           /\ \A c \in Coming(p)' :
                c \in Coming(p) \/ (Attested(c)' /\ c.id \in Ids(serverLog'))
           /\ \A m \in Msgs : Key("relay-in", m) \in seen'[p] =>
                Key("relay-in", m) \in seen[p] \/ m \in Ids(log'[p])
  PROVE  Origins'
<1>1. ASSUME NEW c, Attested(c)
      PROVE  Attested(c)'
  BY <1>1 DEF Attested, Grows
<1>2. \A c \in ToSet(serverLog') : Attested(c)'
  BY <1>1 DEF Origins
<1>3. ASSUME NEW p \in Phones
      PROVE  /\ \A c \in ToSet(relayRx'[p]) : Author[c.id] = p /\ c.id \in Ids(log'[p])
             /\ \A r \in ToSet(up'[p]) :
                  r.type = "send_message" /\ r.path = "relay" => r.id \in Ids(log'[p])
             /\ \A c \in Coming(p)' : Attested(c)' /\ c.id \in Ids(serverLog')
             /\ \A m \in Msgs : Key("relay-in", m) \in seen'[p] => m \in Ids(log'[p])
  <2>1. Ids(log[p]) \subseteq Ids(log'[p]) /\ Ids(serverLog) \subseteq Ids(serverLog')
    BY DEF Grows
  <2>2. \A c \in ToSet(relayRx'[p]) : Author[c.id] = p /\ c.id \in Ids(log'[p])
    BY <2>1 DEF Origins
  <2>3. \A r \in ToSet(up'[p]) :
          r.type = "send_message" /\ r.path = "relay" => r.id \in Ids(log'[p])
    BY <2>1 DEF Origins
  <2>4. \A c \in Coming(p)' : Attested(c)' /\ c.id \in Ids(serverLog')
    BY <1>1, <2>1 DEF Origins
  <2>5. \A m \in Msgs : Key("relay-in", m) \in seen'[p] => m \in Ids(log'[p])
    BY <2>1 DEF Origins
  <2>6. QED
    BY <2>2, <2>3, <2>4, <2>5
<1>4. QED
  BY <1>2, <1>3 DEF Origins

LEMMA DownwardsKept ==
  ASSUME TypeOK, Downwards, Grows, UNCHANGED serverLog, joined' \subseteq joined,
         \A p \in joined' : \A c \in Coming(p) : c \in Coming(p)' \/ c.id \in Ids(log'[p])
  PROVE  Downwards'
<1>1. joined \subseteq Phones
  BY DEF TypeOK, RelayTypes
<1>2. ASSUME NEW p \in joined', NEW m \in Ids(serverLog')
      PROVE  Reaches(p, m)'
  <2>1. Reaches(p, m) /\ p \in Phones
    BY <1>1 DEF Downwards
  <2>2. CASE m \in Ids(log[p])
    BY <2>1, <2>2 DEF Reaches, Grows
  <2>3. CASE \E c \in Coming(p) : c.id = m
    BY <2>3 DEF Reaches
  <2>4. QED
    BY <2>1, <2>2, <2>3 DEF Reaches
<1>3. QED
  BY <1>2 DEF Downwards

\* What holds m for the server.
Held(p) == Ids(serverLog) \cup Asked(p) \cup Ids(relayRx[p]) \cup Ids(passRx[p])

LEMMA UpwardsKept ==
  ASSUME Upwards, Grows,
         \A p \in Phones : Distinct(relayRx'[p]),
         \A p \in Phones : \A c \in ToSet(relayRx'[p]) :
           Key("relay-out", c.id) \in seen'[p] =>
             \/ c \in ToSet(relayRx[p]) /\ Key("relay-out", c.id) \in seen[p]
             \/ c.id \in Ids(serverLog'),
         \A o \in owed' :
           /\ online'[o[1]]
           /\ (o \in owed /\ Held(o[1]) \subseteq Held(o[1])') \/ o[2] \in Held(o[1])'
  PROVE  Upwards'
<1>1. \A p \in Phones : \A c \in ToSet(relayRx'[p]) :
        Key("relay-out", c.id) \in seen'[p] => c.id \in Ids(serverLog')
  BY DEF Upwards, Grows
<1>2. \A o \in owed' : online'[o[1]] /\ o[2] \in Held(o[1])'
  <2>1. \A o \in owed : o[2] \in Held(o[1])
    BY DEF Upwards, Held
  <2>2. QED
    BY <2>1
<1>3. QED
  BY <1>1, <1>2 DEF Upwards, Held

\* The step changes nothing of the traffic with the server, and no key of it.
LEMMA OutOfBand ==
  ASSUME TypeOK, Origins, Joining, Downwards, Upwards, Grows,
         UNCHANGED <<serverLog, relayVars, connVars>>,
         \A p \in Phones, m \in Msgs :
           /\ Key("relay-in", m) \in seen'[p] => Key("relay-in", m) \in seen[p]
           /\ Key("relay-out", m) \in seen'[p] => Key("relay-out", m) \in seen[p]
  PROVE  Origins' /\ Joining' /\ Downwards' /\ Upwards'
<1> USE DEF relayVars, connVars
<1>1. \A p \in Phones : Coming(p)' = Coming(p) /\ Held(p)' = Held(p)
  BY DEF Coming, Held, Asked
<1>2. joined \subseteq Phones /\ relayRx \in [Phones -> Seq(Known)] /\ sent \subseteq Msgs
      /\ owed \subseteq Phones \X sent
  BY DEF TypeOK, RelayTypes, QueueTypes, RoomTypes
<1>3. Origins'
  BY <1>1, OriginsKept
<1>4. Joining'
  BY DEF Joining
<1>5. Downwards'
  BY <1>1, <1>2, DownwardsKept
<1>6. Upwards'
  <2>1. \A p \in Phones : \A c \in ToSet(relayRx[p]) : c.id \in Msgs
    BY <1>2, MemberIs, KnownIs
  <2>2. \A o \in owed : o[1] \in Phones /\ online[o[1]]
    BY <1>2 DEF Upwards
  <2>3. \A p \in Phones : Distinct(relayRx[p])
    BY DEF Upwards
  <2>4. QED
    BY <1>1, <2>1, <2>2, <2>3, UpwardsKept
<1>7. QED
  BY <1>3, <1>4, <1>5, <1>6

LEMMA KeysAreSent ==
  ASSUME TypeOK, NEW p \in Phones, NEW m, Key("relay-out", m) \in seen[p]
  PROVE  m \in sent
<1>1. <<"relay-out", m>> \in KnownKeys
  BY DEF TypeOK, RoomTypes, Key
<1>2. QED
  BY <1>1 DEF KnownKeys

LEMMA Together ==
  ASSUME NEW p \in Phones
  PROVE  /\ \A c : c \in Coming(p) <=>
              c \in ToSet(history[p]) \/ \E e \in ToSet(down[p]) : c \in Contents(e)
         /\ \A m : m \in Asked(p) <=> \E r \in ToSet(up[p]) : r.type = "send_message" /\ r.id = m
BY DEF Coming, Asked

-----------------------------------------------------------------------------
(* The steps of the traffic with the server *)

LEMMA SendLocalFlow ==
  ASSUME PhoneMeshAssumption, TypeOK, Flow, Grows, NEW p \in Phones, NEW m \in Msgs,
         SendLocal(p, m)
  PROVE  Flow'
<1>1. /\ UNCHANGED <<serverLog, seen, passRx, up, down, history, online, joined>>
      /\ Author[m] = p /\ m \notin sent
      /\ \/ UNCHANGED <<relayRx, owed>>
         \/ /\ online[p] /\ relayRx' = [relayRx EXCEPT ![p] = Append(relayRx[p], Written(m))]
            /\ owed' = owed \cup {<<p, m>>}
  BY DEF SendLocal
<1>2. /\ relayRx \in [Phones -> Seq(Known)] /\ owed \subseteq Phones \X sent
      /\ joined \subseteq Phones
  BY DEF TypeOK, QueueTypes, RelayTypes
<1>3. relayRx[p] \in Seq(ChatMessage) /\ Written(m) \in ChatMessage /\ Written(m).id = m
  <2>1. Known \subseteq ChatMessage
    BY DEF Known
  <2>2. relayRx[p] \in Seq(Known)
    BY <1>2
  <2>3. relayRx[p] \in Seq(ChatMessage)
    BY <2>1, <2>2, SeqMonotonic
  <2>4. QED
    BY <2>3, WrittenIs
<1>4. m \notin Ids(relayRx[p])
  BY <1>1, <1>2, IdsAreSent
<1>5. /\ ToSet(Append(relayRx[p], Written(m))) = ToSet(relayRx[p]) \cup {Written(m)}
      /\ Ids(Append(relayRx[p], Written(m))) = Ids(relayRx[p]) \cup {m}
      /\ Distinct(Append(relayRx[p], Written(m)))
  <2>1. Distinct(relayRx[p])
    BY DEF Flow, Upwards
  <2>2. Distinct(Append(relayRx[p], Written(m)))
    BY <1>3, <1>4, <2>1, DistinctSteps
  <2>3. QED
    BY <1>3, <2>2, AppendIs
<1>6. m \in Ids(log'[p])
  <2>1. Ids(log'[p]) = Ids(log[p]) \cup {m}
    BY SendLocalGrows
  <2>2. QED
    BY <2>1
<1>7. \A q \in Phones :
        /\ Distinct(relayRx'[q]) /\ Ids(relayRx[q]) \subseteq Ids(relayRx'[q])
        /\ \A c \in ToSet(relayRx'[q]) : c \in ToSet(relayRx[q]) \/ (q = p /\ c = Written(m))
  <2>1. \A q \in Phones : Distinct(relayRx[q])
    BY DEF Flow, Upwards
  <2>2. \A q \in Phones :
          relayRx'[q] = relayRx[q] \/ (q = p /\ relayRx'[q] = Append(relayRx[q], Written(m)))
    BY <1>1, <1>2
  <2>3. QED
    BY <1>5, <2>1, <2>2
<1>8. \A o \in owed' : o \in owed \/ (o = <<p, m>> /\ online[p] /\ m \in Ids(relayRx'[p]))
  BY <1>1, <1>2, <1>5
<1>9. \A q \in Phones : Coming(q)' = Coming(q) /\ Asked(q)' = Asked(q)
  BY <1>1 DEF Coming, Asked
<1>10. Origins'
  BY <1>1, <1>3, <1>6, <1>7, <1>9, OriginsKept DEF Flow
<1>11. Joining'
  BY <1>1 DEF Joining, Flow
<1>12. Downwards'
  BY <1>1, <1>2, <1>9, DownwardsKept DEF Flow
<1>13. Upwards'
  <2>1. Key("relay-out", m) \notin seen[p]
    BY <1>1, KeysAreSent
  <2>2. \A q \in Phones : Held(q) \subseteq Held(q)'
    BY <1>1, <1>7, <1>9 DEF Held
  <2>3. \A o \in owed : o[1] \in Phones /\ online[o[1]]
    BY <1>2 DEF Upwards, Flow
  <2>4. \A o \in owed' :
          /\ online'[o[1]]
          /\ (o \in owed /\ Held(o[1]) \subseteq Held(o[1])') \/ o[2] \in Held(o[1])'
    BY <1>1, <1>8, <2>2, <2>3 DEF Held
  <2>5. \A q \in Phones : \A c \in ToSet(relayRx'[q]) :
          Key("relay-out", c.id) \in seen'[q] =>
            c \in ToSet(relayRx[q]) /\ Key("relay-out", c.id) \in seen[q]
    BY <1>1, <1>3, <1>7, <2>1
  <2>6. QED
    BY <1>7, <2>4, <2>5, UpwardsKept DEF Flow
<1>14. QED
  BY <1>10, <1>11, <1>12, <1>13 DEF Flow

LEMMA ConnectFlow ==
  ASSUME TypeOK, Flow, Grows, NEW p \in Phones, Connect(p)
  PROVE  Flow'
<1>1. /\ ~online[p] /\ online' = [online EXCEPT ![p] = TRUE] /\ up' = [up EXCEPT ![p] = <<Join>>]
      /\ UNCHANGED <<serverLog, phoneVars, relayRx, passRx, down, history, joined, owed>>
  BY DEF Connect
<1>2. /\ online \in [Phones -> BOOLEAN] /\ up \in [Phones -> Seq(Requests)] /\ up[p] = <<>>
      /\ owed \subseteq Phones \X sent /\ joined \subseteq Phones
  BY <1>1 DEF TypeOK, RelayTypes, QueueTypes, Offline
<1>3. ToSet(<<Join>>) = {Join} /\ Join.type # "send_message"
  BY DEF ToSet, Join
<1>4. \A q \in Phones : q # p => up'[q] = up[q]
  BY <1>1, <1>2
<1>5. up'[p] = <<Join>>
  BY <1>1, <1>2
<1>6. \A q \in Phones : Coming(q)' = Coming(q)
  BY <1>1 DEF Coming
<1>7. \A q \in Phones : Asked(q) \subseteq Asked(q)'
  BY <1>2, <1>4, EmptyIs DEF Asked
<1>8. Origins'
  <2>1. \A q \in Phones : \A r \in ToSet(up'[q]) :
          r.type = "send_message" => r \in ToSet(up[q])
    BY <1>3, <1>4, <1>5
  <2>2. QED
    BY <1>1, <1>6, <2>1, OriginsKept DEF Flow, phoneVars
<1>9. Joining'
  BY <1>1, <1>2, <1>4, <1>5 DEF Joining, Flow
<1>10. Downwards'
  BY <1>1, <1>2, <1>6, DownwardsKept DEF Flow
<1>11. Upwards'
  <2>1. \A q \in Phones : Held(q) \subseteq Held(q)'
    BY <1>1, <1>7 DEF Held
  <2>2. \A o \in owed' : o \in owed /\ o[1] \in Phones /\ online'[o[1]]
    BY <1>1, <1>2 DEF Upwards, Flow
  <2>3. \A q \in Phones : Distinct(relayRx'[q])
    BY <1>1 DEF Upwards, Flow
  <2>4. QED
    BY <1>1, <2>1, <2>2, <2>3, UpwardsKept DEF Flow, phoneVars
<1>12. QED
  BY <1>8, <1>9, <1>10, <1>11 DEF Flow

LEMMA DisconnectFlow ==
  ASSUME TypeOK, Flow, Grows, NEW p \in Phones, Disconnect(p)
  PROVE  Flow'
<1>1. /\ online' = [online EXCEPT ![p] = FALSE] /\ joined' = joined \ {p}
      /\ relayRx' = [relayRx EXCEPT ![p] = <<>>] /\ passRx' = [passRx EXCEPT ![p] = <<>>]
      /\ up' = [up EXCEPT ![p] = <<>>] /\ down' = [down EXCEPT ![p] = <<>>]
      /\ owed' = {o \in owed : o[1] # p}
      /\ UNCHANGED <<serverLog, phoneVars, history>>
  BY DEF Disconnect
<1>2. /\ online \in [Phones -> BOOLEAN] /\ joined \subseteq Phones /\ owed \subseteq Phones \X sent
      /\ relayRx \in [Phones -> Seq(Known)] /\ passRx \in [Phones -> Seq(Known)]
      /\ up \in [Phones -> Seq(Requests)] /\ down \in [Phones -> Seq(Envelopes)]
  BY DEF TypeOK, RelayTypes, QueueTypes
<1>3. \A q \in Phones : q # p =>
        /\ relayRx'[q] = relayRx[q] /\ passRx'[q] = passRx[q] /\ up'[q] = up[q]
        /\ down'[q] = down[q] /\ online'[q] = online[q]
  BY <1>1, <1>2
<1>4. relayRx'[p] = <<>> /\ up'[p] = <<>> /\ down'[p] = <<>> /\ ~online'[p]
  BY <1>1, <1>2
<1>5. \A q \in Phones : Coming(q)' \subseteq Coming(q)
  BY <1>1, <1>3, <1>4, EmptyIs DEF Coming
<1>6. \A q \in Phones : q # p => Coming(q)' = Coming(q) /\ Held(q)' = Held(q)
  BY <1>1, <1>3 DEF Coming, Held, Asked
<1>7. Origins'
  <2>1. \A q \in Phones : /\ ToSet(relayRx'[q]) \subseteq ToSet(relayRx[q])
                          /\ ToSet(up'[q]) \subseteq ToSet(up[q])
    BY <1>3, <1>4, EmptyIs
  <2>2. QED
    BY <1>1, <1>5, <2>1, OriginsKept DEF Flow, phoneVars
<1>8. Joining'
  BY <1>1, <1>3, <1>4 DEF Joining, Flow
<1>9. Downwards'
  <2>1. joined' \subseteq joined /\ \A q \in joined' : q \in Phones /\ q # p
    BY <1>1, <1>2
  <2>2. QED
    BY <1>1, <1>6, <2>1, DownwardsKept DEF Flow
<1>10. Upwards'
  <2>1. \A o \in owed' : o \in owed /\ o[1] \in Phones /\ o[1] # p /\ online'[o[1]]
    BY <1>1, <1>2, <1>3 DEF Upwards, Flow
  <2>2. \A q \in Phones : Distinct(relayRx'[q])
    BY <1>3, <1>4, EmptyIs DEF Upwards, Flow
  <2>3. \A q \in Phones : ToSet(relayRx'[q]) \subseteq ToSet(relayRx[q])
    BY <1>3, <1>4, EmptyIs
  <2>4. QED
    BY <1>1, <1>6, <2>1, <2>2, <2>3, UpwardsKept DEF Flow, phoneVars
<1>11. QED
  BY <1>7, <1>8, <1>9, <1>10 DEF Flow

\* A request is put into the websocket, for one message taken off a channel.
LEMMA UploadingFlow ==
  ASSUME TypeOK, NEW p \in Phones, NEW m \in sent, NEW path \in {"relay", "pass"},
         Upload(p, m, path), Joining, UNCHANGED <<online, joined>>
  PROVE  /\ Asked(p)' = Asked(p) \cup {m}
         /\ \A q \in Phones : q # p => up'[q] = up[q] /\ Asked(q)' = Asked(q)
         /\ ToSet(up'[p]) = ToSet(up[p]) \cup {SendMessage(m, path)}
         /\ Joining'
<1>1. /\ up'[p] = Append(up[p], SendMessage(m, path))
      /\ \A q \in Phones : q # p => up'[q] = up[q]
  BY Uploading
<1>2. up[p] \in Seq(Requests) /\ SendMessage(m, path) \in Requests
  BY KnownIs DEF TypeOK, QueueTypes
<1>3. /\ ToSet(up'[p]) = ToSet(up[p]) \cup {SendMessage(m, path)}
      /\ up'[p] # <<>> /\ (up[p] # <<>> => Head(up'[p]) = Head(up[p]))
  BY <1>1, <1>2, AppendIs
<1>4. SendMessage(m, path).type = "send_message" /\ SendMessage(m, path).id = m
  BY DEF SendMessage
<1>5. Asked(p)' = Asked(p) \cup {m}
  BY <1>3, <1>4 DEF Asked
<1>6. \A q \in Phones : q # p => Asked(q)' = Asked(q)
  BY <1>1 DEF Asked
<1>7. Joining'
  BY <1>1, <1>3 DEF Joining
<1>8. QED
  BY <1>1, <1>3, <1>5, <1>6, <1>7

LEMMA ForwardUpstreamFlow ==
  ASSUME TypeOK, Flow, Grows, NEW p \in Phones, ForwardUpstream(p)
  PROVE  Flow'
<1>0. PICK m : m = Head(relayRx[p]).id
  OBVIOUS
<1>1. /\ relayRx \in [Phones -> Seq(Known)] /\ relayRx[p] # <<>>
      /\ relayRx' = [relayRx EXCEPT ![p] = Tail(relayRx[p])]
      /\ UNCHANGED <<serverLog, log, passRx, down, history, online, joined, owed>>
  BY DEF TypeOK, QueueTypes, ForwardUpstream, connVars
<1>2. /\ joined \subseteq Phones /\ owed \subseteq Phones \X sent /\ sent \subseteq Msgs
      /\ seen \in [Phones -> SUBSET KnownKeys]
  BY DEF TypeOK, RelayTypes, RoomTypes
<1>3. /\ Head(relayRx[p]) \in Known
      /\ ToSet(relayRx[p]) = {Head(relayRx[p])} \cup ToSet(Tail(relayRx[p]))
      /\ Ids(relayRx[p]) = {m} \cup Ids(Tail(relayRx[p]))
      /\ Tail(relayRx[p]) \in Seq(Known)
  BY <1>0, <1>1, TailIs
<1>4. m \in sent /\ m \in Ids(log[p])
  BY <1>0, <1>3, KnownIs DEF Flow, Origins
<1>5. Distinct(Tail(relayRx[p])) /\ m \notin Ids(Tail(relayRx[p]))
  <2>1. Distinct(relayRx[p]) /\ relayRx[p] \in Seq(Known)
    BY <1>1 DEF Flow, Upwards
  <2>2. QED
    BY <1>0, <1>1, <2>1, DistinctSteps
<1>6. \A c \in ToSet(Tail(relayRx[p])) : c.id # m
  <2>1. Ids(Tail(relayRx[p])) = {c.id : c \in ToSet(Tail(relayRx[p]))}
    BY <1>3, MemberIs
  <2>2. QED
    BY <1>5, <2>1
<1>7. \A q \in Phones : Coming(q)' = Coming(q)
  BY <1>1 DEF Coming
<1>8. /\ \A q \in Phones : Distinct(relayRx'[q])
      /\ \A q \in Phones : ToSet(relayRx'[q]) \subseteq ToSet(relayRx[q])
      /\ \A q \in Phones : q # p => relayRx'[q] = relayRx[q]
      /\ \A c \in ToSet(relayRx'[p]) : c.id # m
      /\ Ids(relayRx[p]) = Ids(relayRx'[p]) \cup {m}
  <2>1. \A q \in Phones : Distinct(relayRx[q])
    BY DEF Flow, Upwards
  <2>2. relayRx'[p] = Tail(relayRx[p]) /\ \A q \in Phones : q # p => relayRx'[q] = relayRx[q]
    BY <1>1
  <2>3. QED
    BY <1>3, <1>5, <1>6, <2>1, <2>2
<1>9. Downwards'
  BY <1>1, <1>2, <1>7, DownwardsKept DEF Flow
<1>10. CASE UNCHANGED <<seen, up, uploads>> /\ Key("relay-out", m) \in seen[p]
  <2>1. m \in Ids(serverLog)
    BY <1>0, <1>3, <1>10 DEF Flow, Upwards
  <2>2. Origins'
    BY <1>1, <1>7, <1>8, <1>10, OriginsKept DEF Flow
  <2>3. Joining'
    BY <1>1, <1>10 DEF Flow, Joining
  <2>4. Upwards'
    <3>1. \A q \in Phones : Asked(q)' = Asked(q)
      BY <1>10 DEF Asked
    <3>2. \A q \in Phones : Held(q) \subseteq Held(q)'
      BY <1>1, <1>8, <2>1, <3>1 DEF Held
    <3>3. \A o \in owed' : o \in owed /\ o[1] \in Phones /\ online'[o[1]]
      BY <1>1, <1>2 DEF Upwards, Flow
    <3>4. QED
      BY <1>8, <1>10, <3>2, <3>3, UpwardsKept DEF Flow
  <2>5. QED
    BY <1>9, <2>2, <2>3, <2>4 DEF Flow
<1>11. CASE /\ seen' = [seen EXCEPT ![p] = seen[p] \cup {Key("relay-out", m)}]
            /\ Upload(p, m, "relay")
  <2>1. /\ Asked(p)' = Asked(p) \cup {m}
        /\ \A q \in Phones : q # p => up'[q] = up[q] /\ Asked(q)' = Asked(q)
        /\ ToSet(up'[p]) = ToSet(up[p]) \cup {SendMessage(m, "relay")}
        /\ Joining'
    BY <1>1, <1>4, <1>11, UploadingFlow DEF Flow
  <2>2. \A q \in Phones : \A n : n # m \/ q # p =>
          (Key("relay-out", n) \in seen'[q] => Key("relay-out", n) \in seen[q])
    BY <1>2, <1>11 DEF Key
  <2>3. \A q \in Phones : \A n : Key("relay-in", n) \in seen'[q] => Key("relay-in", n) \in seen[q]
    BY <1>2, <1>11 DEF Key
  <2>4. Origins'
    <3>1. \A q \in Phones : \A r \in ToSet(up'[q]) : r.type = "send_message" /\ r.path = "relay" =>
            r \in ToSet(up[q]) \/ r.id \in Ids(log'[q])
      <4>1. SendMessage(m, "relay").id = m /\ m \in Ids(log'[p])
        BY <1>1, <1>4 DEF SendMessage
      <4>2. \A q \in Phones : \A r \in ToSet(up'[q]) :
              r \in ToSet(up[q]) \/ (q = p /\ r = SendMessage(m, "relay"))
        BY <2>1
      <4>3. QED
        BY <4>1, <4>2
    <3>2. QED
      BY <1>1, <1>7, <1>8, <2>3, <3>1, OriginsKept DEF Flow
  <2>5. Upwards'
    <3>1. \A q \in Phones : Held(q) \subseteq Held(q)'
      BY <1>1, <1>8, <2>1 DEF Held
    <3>2. \A o \in owed' : o \in owed /\ o[1] \in Phones /\ online'[o[1]]
      BY <1>1, <1>2 DEF Upwards, Flow
    <3>3. \A q \in Phones : \A c \in ToSet(relayRx'[q]) :
            Key("relay-out", c.id) \in seen'[q] =>
              c \in ToSet(relayRx[q]) /\ Key("relay-out", c.id) \in seen[q]
      BY <1>8, <2>2
    <3>4. QED
      BY <1>8, <3>1, <3>2, <3>3, UpwardsKept DEF Flow
  <2>6. QED
    BY <1>9, <2>1, <2>4, <2>5 DEF Flow
<1>12. QED
  BY <1>0, <1>10, <1>11 DEF ForwardUpstream

LEMMA PassThroughFlow ==
  ASSUME TypeOK, Flow, Grows, NEW p \in Phones, PassThrough(p)
  PROVE  Flow'
<1>0. PICK m : m = Head(passRx[p]).id
  OBVIOUS
<1>1. /\ passRx \in [Phones -> Seq(Known)] /\ passRx[p] # <<>>
      /\ passRx' = [passRx EXCEPT ![p] = Tail(passRx[p])]
      /\ UNCHANGED <<serverLog, phoneVars, relayRx, down, history, online, joined, owed>>
      /\ Upload(p, m, "pass")
  BY <1>0 DEF TypeOK, QueueTypes, PassThrough, connVars
<1>2. joined \subseteq Phones /\ owed \subseteq Phones \X sent
  BY DEF TypeOK, RelayTypes
<1>3. Head(passRx[p]) \in Known /\ Ids(passRx[p]) = {m} \cup Ids(Tail(passRx[p]))
  BY <1>0, <1>1, TailIs
<1>4. m \in sent
  BY <1>0, <1>3, KnownIs
<1>5. /\ Asked(p)' = Asked(p) \cup {m}
      /\ \A q \in Phones : q # p => up'[q] = up[q] /\ Asked(q)' = Asked(q)
      /\ ToSet(up'[p]) = ToSet(up[p]) \cup {SendMessage(m, "pass")}
      /\ Joining'
  BY <1>1, <1>4, UploadingFlow DEF Flow
<1>6. \A q \in Phones : Coming(q)' = Coming(q)
  BY <1>1 DEF Coming
<1>7. Origins'
  <2>1. \A q \in Phones : \A r \in ToSet(up'[q]) :
          r.type = "send_message" /\ r.path = "relay" => r \in ToSet(up[q])
    BY <1>5 DEF SendMessage
  <2>2. QED
    BY <1>1, <1>6, <2>1, OriginsKept DEF Flow, phoneVars
<1>8. Downwards'
  BY <1>1, <1>2, <1>6, DownwardsKept DEF Flow
<1>9. Upwards'
  <2>1. \A q \in Phones : Ids(passRx[q]) \subseteq Ids(passRx'[q]) \cup (IF q = p THEN {m} ELSE {})
    BY <1>1, <1>3
  <2>2. \A q \in Phones : Held(q) \subseteq Held(q)'
    BY <1>1, <1>5, <2>1 DEF Held
  <2>3. \A o \in owed' : o \in owed /\ o[1] \in Phones /\ online'[o[1]]
    BY <1>1, <1>2 DEF Upwards, Flow
  <2>4. \A q \in Phones : Distinct(relayRx'[q])
    BY <1>1 DEF Upwards, Flow
  <2>5. QED
    BY <1>1, <2>2, <2>3, <2>4, UpwardsKept DEF Flow, phoneVars
<1>10. QED
  BY <1>5, <1>7, <1>8, <1>9 DEF Flow

\* p handles message c of what the server has sent, and keeps the rest.
LEMMA TakingFlow ==
  ASSUME TypeOK, Flow, Grows, NEW p \in Phones, NEW c \in Known,
         TakeUpstream(p, c) \/ (UNCHANGED phoneVars /\ Own(p, c)),
         c \in Coming(p), Coming(p)' \subseteq Coming(p), Coming(p) \subseteq Coming(p)' \cup {c},
         \A q \in Phones : q # p => Coming(q)' = Coming(q),
         UNCHANGED <<serverLog, relayRx, passRx, up, uploads, connVars>>
  PROVE  Flow'
<1>1. /\ joined \subseteq Phones /\ owed \subseteq Phones \X sent
      /\ seen \in [Phones -> SUBSET KnownKeys] /\ relayRx \in [Phones -> Seq(Known)]
  BY DEF TypeOK, RoomTypes, RelayTypes, QueueTypes
<1>2. Attested(c) /\ c.id \in Ids(serverLog) /\ c.id \in sent /\ c.id \in Msgs
  BY KnownIs DEF Flow, Origins, TypeOK, RoomTypes
<1>3. Own(p, c) => c.id \in Ids(log[p])
  <2>1. Own(p, c) => c.by[1] = p /\ c.by[2] = "relay"
    BY DEF Own
  <2>2. QED
    BY <1>2, <2>1 DEF Attested
<1>4. Key("relay-in", c.id) \in seen[p] => c.id \in Ids(log[p])
  BY <1>2 DEF Flow, Origins
<1>5. c.id \in Ids(log'[p])
  <2>1. Ids(log[p]) \subseteq Ids(log'[p])
    BY DEF Grows
  <2>2. c.id \in Ids(log'[p]) \/ Key("relay-in", c.id) \in seen[p] \/ Own(p, c)
    BY Taking
  <2>3. QED
    BY <1>3, <1>4, <2>1, <2>2
<1>6. \/ UNCHANGED seen
      \/ seen' = [seen EXCEPT ![p] = seen[p] \cup {Key("relay-in", c.id), Key("relay-out", c.id)}]
  BY Taking DEF phoneVars
<1>7. \A q \in Phones : \A m :
        /\ Key("relay-in", m) \in seen'[q] => Key("relay-in", m) \in seen[q] \/ (q = p /\ m = c.id)
        /\ Key("relay-out", m) \in seen'[q] => Key("relay-out", m) \in seen[q] \/ (q = p /\ m = c.id)
  BY <1>1, <1>6 DEF Key
<1>8. Origins'
  <2>1. \A q \in Phones : Coming(q)' \subseteq Coming(q)
    OBVIOUS
  <2>2. \A q \in Phones, m \in Msgs : Key("relay-in", m) \in seen'[q] =>
          Key("relay-in", m) \in seen[q] \/ m \in Ids(log'[q])
    BY <1>5, <1>7
  <2>3. QED
    BY <2>1, <2>2, OriginsKept DEF Flow
<1>9. Joining'
  BY DEF Joining, Flow, connVars
<1>10. Downwards'
  <2>1. \A q \in joined' : \A d \in Coming(q) : d \in Coming(q)' \/ d.id \in Ids(log'[q])
    BY <1>1, <1>5 DEF connVars
  <2>2. QED
    BY <2>1, DownwardsKept DEF Flow, connVars
<1>11. Upwards'
  <2>1. \A q \in Phones : Held(q)' = Held(q)
    BY DEF Held, Asked
  <2>2. \A o \in owed' : o \in owed /\ o[1] \in Phones /\ online'[o[1]]
    BY <1>1 DEF Upwards, Flow, connVars
  <2>3. \A q \in Phones : Distinct(relayRx'[q])
    BY DEF Upwards, Flow
  <2>4. \A q \in Phones : \A d \in ToSet(relayRx'[q]) :
          Key("relay-out", d.id) \in seen'[q] =>
            \/ d \in ToSet(relayRx[q]) /\ Key("relay-out", d.id) \in seen[q]
            \/ d.id \in Ids(serverLog')
    BY <1>2, <1>7
  <2>5. QED
    BY <2>1, <2>2, <2>3, <2>4, UpwardsKept DEF Flow
<1>12. QED
  BY <1>8, <1>9, <1>10, <1>11 DEF Flow

LEMMA HandleUpstreamFlow ==
  ASSUME TypeOK, Flow, Grows, NEW p \in Phones, HandleUpstreamMessage(p)
  PROVE  Flow'
<1>0. PICK e : e = Head(down[p])
  OBVIOUS
<1>1. /\ history[p] = <<>> /\ down \in [Phones -> Seq(Envelopes)]
      /\ ToSet(down[p]) = {e} \cup ToSet(Tail(down[p]))
      /\ down' = [down EXCEPT ![p] = Tail(down[p])]
      /\ \/ /\ e.type = "message" /\ e.message \in Known
            /\ TakeUpstream(p, e.message) /\ UNCHANGED history
         \/ /\ e.type = "room_history" /\ e.messages \in Seq(Known)
            /\ history' = [history EXCEPT ![p] = e.messages]
            /\ UNCHANGED phoneVars
  BY <1>0, HandledIs
<1>2. UNCHANGED <<serverLog, relayRx, passRx, up, uploads, connVars>>
  BY DEF HandleUpstreamMessage
<1>3. history \in [Phones -> Seq(Known)]
  BY DEF TypeOK, QueueTypes
<1>4. /\ ToSet(down'[p]) = ToSet(Tail(down[p]))
      /\ \A q \in Phones : q # p => down'[q] = down[q]
  BY <1>1
<1>5. CASE /\ e.type = "message" /\ e.message \in Known
           /\ TakeUpstream(p, e.message) /\ UNCHANGED history
  <2>1. Contents(e) = {e.message}
    BY <1>5 DEF Contents
  <2>2. /\ e.message \in Coming(p) /\ Coming(p)' \subseteq Coming(p)
        /\ Coming(p) \subseteq Coming(p)' \cup {e.message}
    <3>1. Coming(p) = Coming(p)' \cup Contents(e)
      BY <1>1, <1>4, <1>5 DEF Coming
    <3>2. QED
      BY <2>1, <3>1
  <2>3. \A q \in Phones : q # p => Coming(q)' = Coming(q)
    BY <1>4, <1>5 DEF Coming
  <2>4. QED
    BY <1>2, <1>5, <2>2, <2>3, TakingFlow
<1>6. CASE /\ e.type = "room_history" /\ e.messages \in Seq(Known)
           /\ history' = [history EXCEPT ![p] = e.messages]
           /\ UNCHANGED phoneVars
  <2>1. Contents(e) = ToSet(e.messages) /\ ToSet(history[p]) = {}
    BY <1>1, <1>6, EmptyIs DEF Contents
  <2>2. history'[p] = e.messages /\ \A q \in Phones : q # p => history'[q] = history[q]
    BY <1>3, <1>6
  <2>3. Coming(p)' = Coming(p)
    BY <1>1, <1>4, <2>1, <2>2 DEF Coming
  <2>4. \A q \in Phones : Coming(q)' = Coming(q)
    <3>1. \A q \in Phones : q # p => Coming(q)' = Coming(q)
      BY <1>4, <2>2 DEF Coming
    <3>2. QED
      BY <2>3, <3>1
  <2>5. joined \subseteq Phones /\ owed \subseteq Phones \X sent
    BY DEF TypeOK, RelayTypes
  <2>6. Origins'
    BY <1>2, <1>6, <2>4, OriginsKept DEF Flow, phoneVars
  <2>7. Joining'
    BY <1>2 DEF Joining, Flow, connVars
  <2>8. Downwards'
    BY <1>2, <2>4, <2>5, DownwardsKept DEF Flow, connVars
  <2>9. Upwards'
    <3>1. \A q \in Phones : Held(q)' = Held(q)
      BY <1>2 DEF Held, Asked
    <3>2. \A o \in owed' : o \in owed /\ o[1] \in Phones /\ online'[o[1]]
      BY <1>2, <2>5 DEF Upwards, Flow, connVars
    <3>3. \A q \in Phones : Distinct(relayRx'[q])
      BY <1>2 DEF Upwards, Flow
    <3>4. QED
      BY <1>2, <1>6, <3>1, <3>2, <3>3, UpwardsKept DEF Flow, phoneVars
  <2>10. QED
    BY <2>6, <2>7, <2>8, <2>9 DEF Flow
<1>7. QED
  BY <1>1, <1>5, <1>6

LEMMA HandleHistoryFlow ==
  ASSUME TypeOK, Flow, Grows, NEW p \in Phones, HandleHistory(p)
  PROVE  Flow'
<1>0. PICK c : c = Head(history[p])
  OBVIOUS
<1>1. /\ history \in [Phones -> Seq(Known)] /\ c \in Known
      /\ ToSet(history[p]) = {c} \cup ToSet(Tail(history[p]))
      /\ history' = [history EXCEPT ![p] = Tail(history[p])] /\ UNCHANGED down
      /\ TakeUpstream(p, c) \/ (UNCHANGED phoneVars /\ Own(p, c))
  BY <1>0, HistoryIs
<1>2. UNCHANGED <<serverLog, relayRx, passRx, up, uploads, connVars>>
  BY DEF HandleHistory
<1>3. /\ ToSet(history'[p]) = ToSet(Tail(history[p]))
      /\ \A q \in Phones : q # p => history'[q] = history[q]
  BY <1>1
<1>4. /\ c \in Coming(p) /\ Coming(p)' \subseteq Coming(p)
      /\ Coming(p) \subseteq Coming(p)' \cup {c}
  BY <1>1, <1>3 DEF Coming
<1>5. \A q \in Phones : q # p => Coming(q)' = Coming(q)
  BY <1>1, <1>3 DEF Coming
<1>6. QED
  BY <1>1, <1>2, <1>4, <1>5, TakingFlow

\* The server publishes c: from somebody there, or taken off the websocket of a
\* phone that it lists.
LEMMA PublishFlow ==
  ASSUME TypeOK, Flow, Grows, NEW c \in Known', Publish(c), Attested(c)',
         UNCHANGED <<phoneVars, relayRx, passRx, history, online, joined, owed>>,
         \A p \in Phones : ToSet(up'[p]) \subseteq ToSet(up[p]),
         \A p \in Phones : Asked(p) \subseteq Asked(p)' \cup {c.id},
         Joining'
  PROVE  Flow'
<1>1. /\ serverLog' \in Seq(Known') /\ Ids(serverLog') = Ids(serverLog) \cup {c.id}
      /\ ToSet(serverLog') \subseteq ToSet(serverLog) \cup {c}
      /\ \A p \in Phones : p \notin joined => down'[p] = down[p]
      /\ \A p \in joined : ToSet(down'[p]) = ToSet(down[p]) \cup {Message(c)}
  BY Publishing DEF Grows
<1>2. joined \subseteq Phones /\ owed \subseteq Phones \X sent
  BY DEF TypeOK, RelayTypes
<1>3. Contents(Message(c)) = {c}
  BY DEF Contents, Message
<1>4. /\ \A p \in Phones : p \notin joined => Coming(p)' = Coming(p)
      /\ \A p \in joined : Coming(p)' = Coming(p) \cup {c}
  <2>1. ASSUME NEW p \in joined
        PROVE  Coming(p)' = Coming(p) \cup {c}
    BY <1>1, <1>3 DEF Coming
  <2>2. QED
    BY <1>1, <2>1 DEF Coming
<1>5. Origins'
  BY <1>1, <1>2, <1>4, OriginsKept DEF Flow, phoneVars
<1>6. Downwards'
  <2>1. ASSUME NEW p \in joined, NEW m \in Ids(serverLog')
        PROVE  Reaches(p, m)'
    <3>1. CASE m \in Ids(serverLog)
      <4>1. Reaches(p, m) /\ p \in Phones
        BY <1>2, <3>1 DEF Downwards, Flow
      <4>2. QED
        BY <1>4, <4>1 DEF Reaches, phoneVars
    <3>2. CASE m = c.id
      BY <1>4, <3>2 DEF Reaches
    <3>3. QED
      BY <1>1, <3>1, <3>2
  <2>2. QED
    BY <2>1 DEF Downwards
<1>7. Upwards'
  <2>1. \A q \in Phones : Held(q) \subseteq Held(q)'
    BY <1>1 DEF Held
  <2>2. \A o \in owed' : o \in owed /\ o[1] \in Phones /\ online'[o[1]]
    BY <1>2 DEF Upwards, Flow
  <2>3. \A q \in Phones : Distinct(relayRx'[q])
    BY DEF Upwards, Flow
  <2>4. QED
    BY <2>1, <2>2, <2>3, UpwardsKept DEF Flow, phoneVars
<1>8. QED
  BY <1>5, <1>6, <1>7 DEF Flow

LEMMA SendWebFlow ==
  ASSUME PhoneMeshAssumption, TypeOK, Flow, Grows, NEW m \in Msgs, SendWeb(m)
  PROVE  Flow'
<1>1. /\ Publish(Written(m)) /\ sent' = sent \cup {m}
      /\ UNCHANGED <<phoneVars, relayRx, passRx, up, history, online, joined, owed>>
  BY DEF SendWeb, connVars
<1>2. Written(m) \in Known' /\ Written(m).by[2] = "author"
  BY <1>1, WrittenIs DEF Known
<1>3. Attested(Written(m))'
  BY <1>2 DEF Attested
<1>4. Joining' /\ \A p \in Phones : Asked(p)' = Asked(p)
  BY <1>1 DEF Joining, Flow, Asked
<1>5. QED
  BY <1>1, <1>2, <1>3, <1>4, PublishFlow

LEMMA ServerReceiveFlow ==
  ASSUME TypeOK, Flow, Grows, NEW p \in Phones, ServerReceive(p)
  PROVE  Flow'
<1>0. PICK r : r = Head(up[p])
  OBVIOUS
<1>1. PICK c : c = [id |-> r.id, by |-> <<p, r.path, conns[p]>>]
  OBVIOUS
<1>2. /\ up \in [Phones -> Seq(Requests)] /\ up[p] # <<>> /\ online[p]
      /\ ToSet(up[p]) = {r} \cup ToSet(Tail(up[p]))
      /\ up' = [up EXCEPT ![p] = Tail(up[p])]
      /\ \/ r.type = "join_room" /\ ServerJoin(p)
         \/ /\ r.type = "send_message" /\ c \in Known
            /\ \/ p \in joined /\ Publish(c)
               \/ p \notin joined /\ UNCHANGED <<serverLog, down>>
            /\ UNCHANGED joined
  BY <1>0, <1>1, ReceivedIs
<1>3. UNCHANGED <<sent, phoneVars, relayRx, passRx, history, uploads, online, conns, owed>>
  BY DEF ServerReceive
<1>4. /\ up'[p] = Tail(up[p]) /\ \A q \in Phones : q # p => up'[q] = up[q]
      /\ \A q \in Phones : ToSet(up'[q]) \subseteq ToSet(up[q])
  BY <1>2
<1>5. joined \subseteq Phones /\ owed \subseteq Phones \X sent
  BY DEF TypeOK, RelayTypes
<1>6. ASSUME p \in joined', joined \subseteq joined'
      PROVE  Joining'
  BY <1>3, <1>4, <1>6 DEF Joining, Flow
<1>7. ASSUME r.type = "join_room", ServerJoin(p)
      PROVE  Flow'
  <2>1. /\ joined' = joined \cup {p} /\ UNCHANGED serverLog
        /\ down' = [down EXCEPT ![p] = Append(down[p], RoomHistory(serverLog))]
    BY <1>7 DEF ServerJoin
  <2>2. /\ down \in [Phones -> Seq(Envelopes)] /\ RoomHistory(serverLog) \in Envelopes
        /\ serverLog \in Seq(Known)
    BY KnownIs DEF TypeOK, QueueTypes, RoomTypes
  <2>3. /\ ToSet(down'[p]) = ToSet(down[p]) \cup {RoomHistory(serverLog)}
        /\ \A q \in Phones : q # p => down'[q] = down[q]
    <3>1. ToSet(Append(down[p], RoomHistory(serverLog)))
            = ToSet(down[p]) \cup {RoomHistory(serverLog)}
      BY <2>2, AppendIs
    <3>2. QED
      BY <2>1, <2>2, <3>1
  <2>4. Contents(RoomHistory(serverLog)) = ToSet(serverLog)
    BY DEF Contents, RoomHistory
  <2>5. /\ Coming(p)' = Coming(p) \cup ToSet(serverLog)
        /\ \A q \in Phones : q # p => Coming(q)' = Coming(q)
    <3>1. Coming(p)' = Coming(p) \cup ToSet(serverLog)
      BY <1>3, <2>3, <2>4 DEF Coming
    <3>2. QED
      BY <1>3, <2>3, <3>1 DEF Coming
  <2>6. Ids(serverLog) = {d.id : d \in ToSet(serverLog)}
    BY <2>2, MemberIs
  <2>7. \A q \in Phones : Asked(q)' = Asked(q)
    <3>1. Asked(p)' = Asked(p)
      BY <1>2, <1>4, <1>7 DEF Asked
    <3>2. QED
      BY <1>4, <3>1 DEF Asked
  <2>8. Origins'
    <3>1. \A d \in ToSet(serverLog) : Attested(d)' /\ d.id \in Ids(serverLog')
      BY <1>3, <2>1, <2>6 DEF Flow, Origins, Attested, phoneVars
    <3>2. \A q \in Phones : \A d \in Coming(q)' :
            d \in Coming(q) \/ (Attested(d)' /\ d.id \in Ids(serverLog'))
      BY <2>5, <3>1
    <3>3. QED
      BY <1>3, <1>4, <2>1, <3>2, OriginsKept DEF Flow, phoneVars
  <2>9. Downwards'
    <3>1. ASSUME NEW q \in joined', NEW m \in Ids(serverLog')
          PROVE  Reaches(q, m)'
      <4>1. CASE q = p
        BY <2>1, <2>5, <2>6, <4>1 DEF Reaches
      <4>2. CASE q # p
        <5>1. Reaches(q, m) /\ q \in Phones
          BY <1>5, <2>1, <4>2 DEF Flow, Downwards
        <5>2. QED
          BY <1>3, <2>5, <4>2, <5>1 DEF Reaches, phoneVars
      <4>3. QED
        BY <4>1, <4>2
    <3>2. QED
      BY <3>1 DEF Downwards
  <2>10. Upwards'
    <3>1. \A q \in Phones : Held(q) \subseteq Held(q)'
      BY <1>3, <2>1, <2>7 DEF Held
    <3>2. \A o \in owed' : o \in owed /\ o[1] \in Phones /\ online'[o[1]]
      BY <1>3, <1>5 DEF Upwards, Flow
    <3>3. \A q \in Phones : Distinct(relayRx'[q])
      BY <1>3 DEF Upwards, Flow
    <3>4. QED
      BY <1>3, <3>1, <3>2, <3>3, UpwardsKept DEF Flow, phoneVars
  <2>11. QED
    BY <1>6, <2>1, <2>8, <2>9, <2>10 DEF Flow
<1>8. ASSUME r.type = "send_message", c \in Known, p \in joined, Publish(c), UNCHANGED joined
      PROVE  Flow'
  <2>1. c \in Known' /\ c.id = r.id /\ c.by[1] = p /\ c.by[2] = r.path
    BY <1>1, <1>3, <1>8, SameSets
  <2>2. Attested(c)'
    <3>1. r.path = "relay" => r.id \in Ids(log[p])
      BY <1>2, <1>8 DEF Flow, Origins
    <3>2. QED
      BY <1>3, <2>1, <3>1 DEF Attested, phoneVars
  <2>3. \A q \in Phones : Asked(q) \subseteq Asked(q)' \cup {c.id}
    <3>1. Asked(p) \subseteq Asked(p)' \cup {r.id}
      BY <1>2, <1>4 DEF Asked
    <3>2. QED
      BY <1>4, <2>1, <3>1 DEF Asked
  <2>4. Joining'
    BY <1>6, <1>8
  <2>5. QED
    BY <1>3, <1>4, <1>8, <2>1, <2>2, <2>3, <2>4, PublishFlow
<1>9. ASSUME r.type = "send_message", p \notin joined
      PROVE  FALSE
  <2>1. r = Join
    BY <1>0, <1>2, <1>9 DEF Flow, Joining
  <2>2. QED
    BY <1>9, <2>1 DEF Join
<1>10. QED
  BY <1>2, <1>7, <1>8, <1>9

LEMMA BleReceiveFlow ==
  ASSUME TypeOK, Flow, Grows, NEW p \in Phones, NEW q \in Phones, BleReceive(p, q)
  PROVE  Flow'
<1>0. PICK c : c = Head(ble[<<q, p>>])
  OBVIOUS
<1>1. UNCHANGED <<serverLog, relayRx, up, down, history, online, joined>> /\ c \in Known
  BY <1>0, ArrivedIs DEF BleReceive
<1>2. /\ passRx \in [Phones -> Seq(Known)] /\ owed \subseteq Phones \X sent
      /\ joined \subseteq Phones /\ seen \in [Phones -> SUBSET KnownKeys]
      /\ relayRx \in [Phones -> Seq(Known)] /\ sent \subseteq Msgs
  BY DEF TypeOK, QueueTypes, RelayTypes, RoomTypes
<1>3. /\ \/ UNCHANGED seen
         \/ seen' = [seen EXCEPT ![p] = seen[p] \cup {Key("ble-echo", c), Key("ble-in", c.id)}]
      /\ UNCHANGED <<passRx, owed>> \/ PassUp(p, c)
  BY <1>0, ArrivedIs DEF phoneVars
<1>4. \A r \in Phones : \A m :
        /\ Key("relay-in", m) \in seen'[r] => Key("relay-in", m) \in seen[r]
        /\ Key("relay-out", m) \in seen'[r] => Key("relay-out", m) \in seen[r]
  <2>1. \A m, k : /\ Key("relay-in", m) # Key("ble-echo", k)
                 /\ Key("relay-in", m) # Key("ble-in", k)
                 /\ Key("relay-out", m) # Key("ble-echo", k)
                 /\ Key("relay-out", m) # Key("ble-in", k)
    BY DEF Key
  <2>2. \A r \in Phones :
          seen'[r] \subseteq seen[r] \cup {Key("ble-echo", c), Key("ble-in", c.id)}
    BY <1>2, <1>3
  <2>3. QED
    BY <2>1, <2>2
<1>5. /\ \A r \in Phones : Ids(passRx[r]) \subseteq Ids(passRx'[r])
      /\ \A o \in owed' : o \in owed \/ (o = <<p, c.id>> /\ online[p] /\ c.id \in Ids(passRx'[p]))
  <2>1. CASE UNCHANGED <<passRx, owed>>
    BY <2>1
  <2>2. CASE PassUp(p, c) /\ ~UNCHANGED <<passRx, owed>>
    <3>1. /\ online[p] /\ passRx' = [passRx EXCEPT ![p] = Append(passRx[p], c)]
          /\ owed' \subseteq owed \cup {<<p, c.id>>}
      BY <1>1, <2>2, PassingUp
    <3>2. Ids(Append(passRx[p], c)) = Ids(passRx[p]) \cup {c.id}
      BY <1>1, <1>2, AppendIs
    <3>3. QED
      BY <1>2, <3>1, <3>2
  <2>3. QED
    BY <1>3, <2>1, <2>2
<1>6. \A r \in Phones : Coming(r)' = Coming(r) /\ Asked(r)' = Asked(r)
  BY <1>1 DEF Coming, Asked
<1>7. Origins'
  BY <1>1, <1>4, <1>6, OriginsKept DEF Flow
<1>8. Joining'
  BY <1>1 DEF Joining, Flow
<1>9. Downwards'
  BY <1>1, <1>2, <1>6, DownwardsKept DEF Flow
<1>10. Upwards'
  <2>1. \A r \in Phones : Held(r) \subseteq Held(r)'
    BY <1>1, <1>5, <1>6 DEF Held
  <2>2. \A o \in owed : o[1] \in Phones /\ online[o[1]]
    BY <1>2 DEF Upwards, Flow
  <2>3. \A o \in owed' :
          /\ online'[o[1]]
          /\ (o \in owed /\ Held(o[1]) \subseteq Held(o[1])') \/ o[2] \in Held(o[1])'
    BY <1>1, <1>5, <2>1, <2>2 DEF Held
  <2>4. \A r \in Phones : Distinct(relayRx'[r])
    BY <1>1 DEF Upwards, Flow
  <2>5. QED
    BY <1>1, <1>4, <2>3, <2>4, UpwardsKept DEF Flow
<1>11. QED
  BY <1>7, <1>8, <1>9, <1>10 DEF Flow

LEMMA StepFlow ==
  ASSUME PhoneMeshAssumption, TypeOK, Flow, Grows, [Next]_vars
  PROVE  Flow'
<1>1. ASSUME UNCHANGED <<serverLog, relayVars, connVars>>,
             \/ UNCHANGED seen
             \/ \E p \in Phones, m \in Msgs :
                  seen' = [seen EXCEPT ![p] = seen[p] \cup {Key("ble-sent", m)}]
      PROVE  Flow'
  <2>1. seen \in [Phones -> SUBSET KnownKeys]
    BY DEF TypeOK, RoomTypes
  <2>2. \A p \in Phones, m \in Msgs :
          /\ Key("relay-in", m) \in seen'[p] => Key("relay-in", m) \in seen[p]
          /\ Key("relay-out", m) \in seen'[p] => Key("relay-out", m) \in seen[p]
    BY <1>1, <2>1 DEF Key
  <2>3. QED
    BY <1>1, <2>2, OutOfBand DEF Flow
<1>2. ASSUME NEW p \in Phones, ForwardToBle(p)
      PROVE  Flow'
  <2>1. UNCHANGED <<serverLog, relayVars, connVars>> /\ roomRx[p] # <<>>
    BY <1>2 DEF ForwardToBle
  <2>2. Head(roomRx[p]).id \in Msgs
    BY <2>1, TailIs, KnownIs DEF TypeOK, RoomTypes
  <2>3. seen' = [seen EXCEPT ![p] = seen[p] \cup {Key("ble-sent", Head(roomRx[p]).id)}]
    BY <1>2 DEF ForwardToBle
  <2>4. QED
    BY <1>1, <2>1, <2>2, <2>3
<1>3. ASSUME NEW p \in Phones, NEW q \in Phones, LinkUp(p, q) \/ PeerConnected(p, q)
      PROVE  Flow'
  BY <1>1, <1>3 DEF LinkUp, PeerConnected, phoneVars
<1>4. CASE UNCHANGED vars
  BY <1>1, <1>4 DEF vars, phoneVars
<1>5. CASE Next
  BY <1>2, <1>3, <1>5, NextIs, SendWebFlow, SendLocalFlow, ConnectFlow, DisconnectFlow,
     ForwardUpstreamFlow, PassThroughFlow, ServerReceiveFlow, HandleUpstreamFlow,
     HandleHistoryFlow, BleReceiveFlow
<1>6. QED
  BY <1>4, <1>5

-----------------------------------------------------------------------------
(* The invariant *)

LEMMA InitMesh ==
  ASSUME PhoneMeshAssumption, Init
  PROVE  MeshInv
<1>1. TypeOK
  BY InitTypes
<1>2. OneOfEach(<<>>)
  BY EmptyIs, EmptySeq, FS_EmptySet DEF OneOfEach
<1>3. Rooms
  BY <1>2 DEF Rooms, Init
<1>4. \A p \in Phones : Coming(p) = {} /\ Asked(p) = {}
  BY EmptyIs DEF Coming, Asked, Init
<1>5. Origins
  BY <1>4, EmptyIs DEF Origins, Init
<1>6. Uploads
  <2>1. ASSUME NEW p \in Phones, NEW m \in Msgs
        PROVE  Counted(p, m)
    <3>1. uploads[p][m] = 0 /\ seen[p] = {} /\ m \notin Ids(passRx[p])
      BY EmptyIs DEF Init
    <3>2. ~Wrote(p, m) /\ Key("ble-in", m) \notin seen[p]
      BY <3>1 DEF Wrote
    <3>3. QED
      BY <3>1, <3>2 DEF Counted
  <2>2. QED
    BY <2>1, EmptyIs DEF Uploads, Init
<1>7. Joining /\ Downwards
  BY DEF Joining, Downwards, Init
<1>8. Upwards
  BY EmptyIs DEF Upwards, Init
<1>9. QED
  BY <1>1, <1>3, <1>5, <1>6, <1>7, <1>8 DEF MeshInv, Flow

LEMMA StepMesh ==
  ASSUME PhoneMeshAssumption, MeshInv, [Next]_vars
  PROVE  MeshInv'
<1>1. TypeOK'
  BY StepTypes DEF MeshInv
<1>2. Grows /\ Rooms'
  BY StepGrows DEF MeshInv
<1>3. Uploads'
  BY <1>2, StepUploads DEF MeshInv, Flow
<1>4. Flow'
  BY <1>2, StepFlow DEF MeshInv
<1>5. QED
  BY <1>1, <1>2, <1>3, <1>4 DEF MeshInv

LEMMA MeshInvariant == Spec => []MeshInv
<1>1. Init => MeshInv
  BY PhoneMeshAssumption, InitMesh
<1>2. MeshInv /\ [Next]_vars => MeshInv'
  BY PhoneMeshAssumption, StepMesh
<1>3. QED
  BY <1>1, <1>2, PTL DEF Spec

\* Every variable has its type, nobody has a message before its author wrote it,
\* and a relay that is not connected holds nothing and is not in the server's
\* room (run_relay, upstream_relay.rs:204-208).
THEOREM MeshTypeCorrect == Spec => []TypeOK
<1>1. MeshInv => TypeOK
  BY DEF MeshInv
<1>2. QED
  BY <1>1, MeshInvariant, PTL

\* No room of a phone, nor the server's, has a message twice
\* (inject_external_message and Room.AddMessage).
THEOREM MeshNoDuplicates == Spec => []NoDuplicates
<1>1. MeshInv => NoDuplicates
  BY DEF MeshInv, Rooms, OneOfEach, NoDuplicates
<1>2. QED
  BY <1>1, MeshInvariant, PTL

\* Over any number of reconnects a phone sends a message of another up at most
\* once, and its own at most twice (filter_for_upstream, handle_ble_ws_message).
THEOREM MeshUploadedOnce == Spec => []UploadedOnce
<1>1. ASSUME MeshInv, NEW p \in Phones, NEW m \in Msgs
      PROVE  uploads[p][m] <= IF Author[m] = p THEN 2 ELSE 1
  <2> DEFINE u == uploads[p][m]
             w == Wrote(p, m)
             b == Key("ble-in", m) \in seen[p]
  <2>1. u <= (IF w THEN 1 ELSE 0) + (IF b THEN 1 ELSE 0)
    BY <1>1 DEF MeshInv, Uploads, Counted
  <2>2. u \in Nat /\ (w => Author[m] = p)
    BY <1>1 DEF MeshInv, TypeOK, RelayTypes, Wrote
  <2> HIDE DEF u, w, b
  <2>3. u <= IF Author[m] = p THEN 2 ELSE 1
    BY <2>1, <2>2
  <2>4. QED
    BY <2>3 DEF u
<1>2. MeshInv => UploadedOnce
  BY <1>1 DEF UploadedOnce
<1>3. QED
  BY <1>2, MeshInvariant, PTL

\* A phone that is connected and has handled what came has every message the
\* server has (handle_upstream_message, ServerJoin's history).
THEOREM MeshUpstreamCaughtUp == Spec => []UpstreamCaughtUp
<1>1. ASSUME MeshInv, Quiet, NEW p \in Phones, online[p]
      PROVE  Ids(serverLog) \subseteq Ids(log[p])
  <2>1. up[p] = <<>> /\ down[p] = <<>> /\ history[p] = <<>>
    BY <1>1 DEF Quiet
  <2>2. p \in joined
    BY <1>1, <2>1 DEF MeshInv, Flow, Joining
  <2>3. Coming(p) = {}
    BY <2>1, EmptyIs DEF Coming
  <2>4. \A m \in Ids(serverLog) : Reaches(p, m)
    BY <1>1, <2>2 DEF MeshInv, Flow, Downwards
  <2>5. QED
    BY <2>3, <2>4 DEF Reaches
<1>2. MeshInv => UpstreamCaughtUp
  BY <1>1 DEF UpstreamCaughtUp
<1>3. QED
  BY <1>2, MeshInvariant, PTL

\* What a phone has taken from its WebView or a BLE peer while connected is at
\* the server when that connection has handled it: the keys in seen_ids suppress
\* only what the server has (filter_for_upstream, upstream_relay.rs:501-509).
THEOREM MeshOnlineReachesServer == Spec => []OnlineReachesServer
<1>1. ASSUME MeshInv, Quiet, NEW o \in owed
      PROVE  o[2] \in Ids(serverLog)
  <2>1. o[1] \in Phones
    BY <1>1 DEF MeshInv, TypeOK, RelayTypes
  <2>2. up[o[1]] = <<>> /\ relayRx[o[1]] = <<>> /\ passRx[o[1]] = <<>>
    BY <1>1, <2>1 DEF Quiet
  <2>3. Asked(o[1]) = {} /\ Ids(relayRx[o[1]]) = {} /\ Ids(passRx[o[1]]) = {}
    BY <2>2, EmptyIs DEF Asked
  <2>4. o[2] \in Ids(serverLog) \cup Asked(o[1]) \cup Ids(relayRx[o[1]]) \cup Ids(passRx[o[1]])
    BY <1>1 DEF MeshInv, Flow, Upwards
  <2>5. QED
    BY <2>3, <2>4
<1>2. MeshInv => OnlineReachesServer
  BY <1>1 DEF OnlineReachesServer
<1>3. QED
  BY <1>2, MeshInvariant, PTL
-----------------------------------------------------------------------------
(* Phones in Bluetooth range, two by two *)

\* Nobody is in range of two others.
Paired == \A k, l \in Links : k[1] = l[1] => k = l

\* The bridge has yet to send only what the room has, and a key of BLE is set
\* only for what the room has.
Bridged ==
  \A p \in Phones :
    /\ Ids(roomRx[p]) \subseteq Ids(log[p])
    /\ \A m \in Msgs :
         Key("ble-sent", m) \in seen[p] \/ Key("ble-in", m) \in seen[p] => m \in Ids(log[p])
    /\ \A c \in ChatMessage : Key("ble-echo", c) \in seen[p] => c.id \in Ids(log[p])

\* A packet is of what its sender has, and ble-echo suppresses the broadcast of
\* what the only one who could hear it has.
Heard ==
  \A p, q \in Phones : <<p, q>> \in Links =>
    /\ Ids(ble[<<p, q>>]) \subseteq Ids(log[p])
    /\ \A c \in ChatMessage : Key("ble-echo", c) \in seen[p] => c.id \in Ids(log[q])

\* What a phone has, the one it has greeted has as well, or will be told.
Told ==
  \A p, q \in Phones : <<p, q>> \in Links =>
    /\ <<p, q>> \in linked => <<q, p>> \in linked
    /\ <<p, q>> \in greeted =>
         Ids(log[p]) \subseteq Ids(log[q]) \cup Ids(ble[<<p, q>>]) \cup Ids(roomRx[p])

NearInv == Bridged /\ Heard /\ Told

\* What a step has to keep.
LEMMA NearKept ==
  ASSUME Grows, NearInv,
         \A p \in Phones :
           /\ Ids(roomRx'[p]) \subseteq Ids(roomRx[p]) \cup Ids(log'[p])
           /\ Ids(log'[p]) \subseteq Ids(log[p]) \cup Ids(roomRx'[p])
           /\ \A m \in Msgs :
                /\ Key("ble-sent", m) \in seen'[p] =>
                     Key("ble-sent", m) \in seen[p] \/ m \in Ids(log'[p])
                /\ Key("ble-in", m) \in seen'[p] =>
                     Key("ble-in", m) \in seen[p] \/ m \in Ids(log'[p])
           /\ \A c \in ChatMessage : Key("ble-echo", c) \in seen'[p] =>
                \/ Key("ble-echo", c) \in seen[p]
                \/ /\ c.id \in Ids(log'[p])
                   /\ \A q \in Phones : <<p, q>> \in Links => c.id \in Ids(log'[q]),
         \A p, q \in Phones : <<p, q>> \in Links =>
           /\ Ids(ble'[<<p, q>>]) \subseteq Ids(ble[<<p, q>>]) \cup Ids(log'[p])
           /\ <<p, q>> \in linked' => <<q, p>> \in linked'
           /\ <<p, q>> \in greeted' =>
                \/ /\ <<p, q>> \in greeted
                   /\ Ids(roomRx[p]) \cup Ids(ble[<<p, q>>])
                        \subseteq Ids(roomRx'[p]) \cup Ids(ble'[<<p, q>>]) \cup Ids(log'[q])
                \/ Ids(log'[p]) \subseteq Ids(ble'[<<p, q>>])
  PROVE  NearInv'
<1>1. Bridged'
  <2>1. ASSUME NEW p \in Phones
        PROVE  /\ Ids(roomRx'[p]) \subseteq Ids(log'[p])
               /\ \A m \in Msgs : Key("ble-sent", m) \in seen'[p] \/ Key("ble-in", m) \in seen'[p]
                    => m \in Ids(log'[p])
               /\ \A c \in ChatMessage : Key("ble-echo", c) \in seen'[p] => c.id \in Ids(log'[p])
    <3>1. /\ Ids(log[p]) \subseteq Ids(log'[p]) /\ Ids(roomRx[p]) \subseteq Ids(log[p])
          /\ \A m \in Msgs :
               Key("ble-sent", m) \in seen[p] \/ Key("ble-in", m) \in seen[p] => m \in Ids(log[p])
          /\ \A c \in ChatMessage : Key("ble-echo", c) \in seen[p] => c.id \in Ids(log[p])
      BY DEF Grows, NearInv, Bridged
    <3>2. QED
      BY <3>1
  <2>2. QED
    BY <2>1 DEF Bridged
<1>2. ASSUME NEW p \in Phones, NEW q \in Phones, <<p, q>> \in Links
      PROVE  /\ Ids(ble'[<<p, q>>]) \subseteq Ids(log'[p])
             /\ \A c \in ChatMessage : Key("ble-echo", c) \in seen'[p] => c.id \in Ids(log'[q])
  <2>1. /\ Ids(log[p]) \subseteq Ids(log'[p]) /\ Ids(log[q]) \subseteq Ids(log'[q])
        /\ Ids(ble[<<p, q>>]) \subseteq Ids(log[p])
        /\ \A c \in ChatMessage : Key("ble-echo", c) \in seen[p] => c.id \in Ids(log[q])
    BY <1>2 DEF Grows, NearInv, Heard
  <2>2. Ids(ble'[<<p, q>>]) \subseteq Ids(ble[<<p, q>>]) \cup Ids(log'[p])
    BY <1>2
  <2>3. QED
    BY <1>2, <2>1, <2>2
<1>3. ASSUME NEW p \in Phones, NEW q \in Phones, <<p, q>> \in Links
      PROVE  /\ <<p, q>> \in linked' => <<q, p>> \in linked'
             /\ <<p, q>> \in greeted' =>
                  Ids(log'[p]) \subseteq Ids(log'[q]) \cup Ids(ble'[<<p, q>>]) \cup Ids(roomRx'[p])
  <2>1. <<p, q>> \in linked' => <<q, p>> \in linked'
    BY <1>3
  <2>2. CASE /\ <<p, q>> \in greeted
             /\ Ids(roomRx[p]) \cup Ids(ble[<<p, q>>])
                  \subseteq Ids(roomRx'[p]) \cup Ids(ble'[<<p, q>>]) \cup Ids(log'[q])
    <3>1. Ids(log[p]) \subseteq Ids(log[q]) \cup Ids(ble[<<p, q>>]) \cup Ids(roomRx[p])
      BY <1>3, <2>2 DEF NearInv, Told
    <3>2. Ids(log[q]) \subseteq Ids(log'[q]) /\ Ids(log'[p]) \subseteq Ids(log[p]) \cup Ids(roomRx'[p])
      BY DEF Grows
    <3>3. QED
      BY <2>1, <2>2, <3>1, <3>2
  <2>3. CASE <<p, q>> \in greeted' => Ids(log'[p]) \subseteq Ids(ble'[<<p, q>>])
    BY <2>1, <2>3
  <2>4. QED
    BY <1>3, <2>2, <2>3
<1>4. Heard'
  BY <1>2 DEF Heard
<1>5. Told'
  BY <1>3 DEF Told
<1>6. QED
  BY <1>1, <1>4, <1>5 DEF NearInv

\* Steps of the room, the relay and the server.
LEMMA NearStill ==
  ASSUME Grows, NearInv, UNCHANGED bleVars,
         \A p \in Phones :
           /\ Ids(roomRx[p]) \subseteq Ids(roomRx'[p])
           /\ Ids(roomRx'[p]) \subseteq Ids(roomRx[p]) \cup Ids(log'[p])
           /\ Ids(log'[p]) \subseteq Ids(log[p]) \cup Ids(roomRx'[p])
           /\ \A k \in seen'[p] : k \in seen[p] \/ k[1] = "relay-in" \/ k[1] = "relay-out"
  PROVE  NearInv'
<1>1. \A p \in Phones : \A x :
        /\ Key("ble-sent", x) \in seen'[p] => Key("ble-sent", x) \in seen[p]
        /\ Key("ble-in", x) \in seen'[p] => Key("ble-in", x) \in seen[p]
        /\ Key("ble-echo", x) \in seen'[p] => Key("ble-echo", x) \in seen[p]
  BY DEF Key
<1>2. linked' = linked /\ greeted' = greeted /\ ble' = ble
  BY DEF bleVars
<1>3. \A p, q \in Phones : <<p, q>> \in Links /\ <<p, q>> \in linked => <<q, p>> \in linked
  BY DEF NearInv, Told
<1>4. \A p, q \in Phones : <<p, q>> \in Links =>
        /\ Ids(ble'[<<p, q>>]) \subseteq Ids(ble[<<p, q>>]) \cup Ids(log'[p])
        /\ <<p, q>> \in linked' => <<q, p>> \in linked'
        /\ <<p, q>> \in greeted' =>
             /\ <<p, q>> \in greeted
             /\ Ids(roomRx[p]) \cup Ids(ble[<<p, q>>])
                  \subseteq Ids(roomRx'[p]) \cup Ids(ble'[<<p, q>>]) \cup Ids(log'[q])
  BY <1>2, <1>3
<1>5. QED
  BY <1>1, <1>4, NearKept

\* What the room takes in is broadcast.
LEMMA Broadcasting ==
  ASSUME TypeOK, NEW p \in Phones, NEW c \in Known,
         \/ InjectExternalMessage(p, c)
         \/ UNCHANGED <<log, roomRx>>
  PROVE  \A q \in Phones :
           /\ Ids(roomRx[q]) \subseteq Ids(roomRx'[q])
           /\ Ids(roomRx'[q]) \subseteq Ids(roomRx[q]) \cup Ids(log'[q])
           /\ Ids(log'[q]) \subseteq Ids(log[q]) \cup Ids(roomRx'[q])
<1>1. log \in [Phones -> Seq(Known)] /\ roomRx \in [Phones -> Seq(Known)]
  BY DEF TypeOK, RoomTypes
<1>2. CASE UNCHANGED <<log, roomRx>>
  BY <1>2
<1>3. CASE InjectExternalMessage(p, c) /\ ~UNCHANGED <<log, roomRx>>
  <2>1. /\ log' = [log EXCEPT ![p] = Append(log[p], c)]
        /\ roomRx' = [roomRx EXCEPT ![p] = Append(roomRx[p], c)]
    BY <1>3 DEF InjectExternalMessage
  <2>2. /\ Ids(Append(log[p], c)) = Ids(log[p]) \cup {c.id}
        /\ Ids(Append(roomRx[p], c)) = Ids(roomRx[p]) \cup {c.id}
    BY <1>1, AppendIs
  <2>3. QED
    BY <1>1, <2>1, <2>2
<1>4. QED
  BY <1>2, <1>3

LEMMA TakingNear ==
  ASSUME TypeOK, Grows, NearInv, NEW p \in Phones, UNCHANGED bleVars,
         UNCHANGED phoneVars \/ \E c \in Known : TakeUpstream(p, c)
  PROVE  NearInv'
<1>1. CASE UNCHANGED phoneVars
  BY <1>1, NearStill DEF phoneVars
<1>2. ASSUME NEW c \in Known, TakeUpstream(p, c)
      PROVE  NearInv'
  <2>1. \/ UNCHANGED seen
        \/ seen' = [seen EXCEPT ![p] = seen[p] \cup {Key("relay-in", c.id), Key("relay-out", c.id)}]
    BY <1>2, Taking
  <2>2. \A q \in Phones : \A k \in seen'[q] :
          k \in seen[q] \/ k[1] = "relay-in" \/ k[1] = "relay-out"
    <3>1. Key("relay-in", c.id)[1] = "relay-in" /\ Key("relay-out", c.id)[1] = "relay-out"
      BY DEF Key
    <3>2. \A q \in Phones :
            seen'[q] \subseteq seen[q] \cup {Key("relay-in", c.id), Key("relay-out", c.id)}
      BY <2>1 DEF TypeOK, RoomTypes
    <3>3. QED
      BY <3>1, <3>2
  <2>3. InjectExternalMessage(p, c) \/ UNCHANGED <<log, roomRx>>
    BY <1>2 DEF TakeUpstream, phoneVars
  <2>4. \A q \in Phones :
          /\ Ids(roomRx[q]) \subseteq Ids(roomRx'[q])
          /\ Ids(roomRx'[q]) \subseteq Ids(roomRx[q]) \cup Ids(log'[q])
          /\ Ids(log'[q]) \subseteq Ids(log[q]) \cup Ids(roomRx'[q])
    BY <2>3, Broadcasting
  <2>5. QED
    BY <2>2, <2>4, NearStill
<1>3. QED
  BY <1>1, <1>2

LEMMA SendLocalNear ==
  ASSUME PhoneMeshAssumption, TypeOK, Grows, NearInv, NEW p \in Phones, NEW m \in Msgs,
         SendLocal(p, m)
  PROVE  NearInv'
<1>1. /\ roomRx' = [roomRx EXCEPT ![p] = Append(roomRx[p], Written(m))]
      /\ log' = [log EXCEPT ![p] = Append(log[p], Written(m))]
      /\ UNCHANGED <<seen, bleVars>>
  BY DEF SendLocal
<1>2. /\ log \in [Phones -> Seq(ChatMessage)] /\ roomRx \in [Phones -> Seq(ChatMessage)]
      /\ Written(m) \in ChatMessage /\ Written(m).id = m
  <2>1. log \in [Phones -> Seq(Known)] /\ roomRx \in [Phones -> Seq(Known)]
        /\ Known \subseteq ChatMessage
    BY DEF TypeOK, RoomTypes, Known
  <2>2. QED
    BY <2>1, QueuesGrow, WrittenIs
<1>3. /\ Ids(Append(log[p], Written(m))) = Ids(log[p]) \cup {m}
      /\ Ids(Append(roomRx[p], Written(m))) = Ids(roomRx[p]) \cup {m}
  BY <1>2, AppendIs
<1>4. \A q \in Phones :
        /\ Ids(roomRx[q]) \subseteq Ids(roomRx'[q])
        /\ Ids(roomRx'[q]) \subseteq Ids(roomRx[q]) \cup Ids(log'[q])
        /\ Ids(log'[q]) \subseteq Ids(log[q]) \cup Ids(roomRx'[q])
  BY <1>1, <1>2, <1>3
<1>5. QED
  BY <1>1, <1>4, NearStill

\* Links have their ends among the phones.
LEMMA LinkIs ==
  ASSUME PhoneMeshAssumption, NEW l \in Links
  PROVE  l[1] \in Phones /\ l[2] \in Phones /\ l = <<l[1], l[2]>> /\ <<l[2], l[1]>> \in Links
<1>1. l \in Phones \X Phones /\ <<l[2], l[1]>> \in Links
  BY DEF PhoneMeshAssumption
<1>2. QED
  BY <1>1

LEMMA LinkUpNear ==
  ASSUME TypeOK, Grows, NearInv, NEW p \in Phones, NEW q \in Phones, LinkUp(p, q)
  PROVE  NearInv'
<1>1. /\ linked' = linked \cup {<<p, q>>, <<q, p>>}
      /\ UNCHANGED <<log, seen, roomRx, greeted, ble>>
  BY DEF LinkUp, phoneVars
<1>2. \A r, s \in Phones : <<r, s>> \in Links /\ <<r, s>> \in linked => <<s, r>> \in linked
  BY DEF NearInv, Told
<1>3. \A r, s \in Phones : <<r, s>> \in Links /\ <<r, s>> \in linked' => <<s, r>> \in linked'
  BY <1>1, <1>2
<1>4. QED
  BY <1>1, <1>3, NearKept

\* A broadcast over BLE adds to what is under way.
LEMMA BleSendingIds ==
  ASSUME TypeOK, NEW p \in Phones, NEW cs \in Seq(Known), BleSend(p, cs),
         NEW r \in Phones, NEW s \in Phones, <<r, s>> \in Links
  PROVE  IF r = p /\ <<p, s>> \in linked
           THEN Ids(ble'[<<r, s>>]) = Ids(ble[<<r, s>>]) \cup Ids(cs)
           ELSE ble'[<<r, s>>] = ble[<<r, s>>]
<1>1. ble[<<r, s>>] \in Seq(Known)
  BY DEF TypeOK, BleTypes
<1>2. ble'[<<r, s>>] = IF r = p /\ <<p, s>> \in linked THEN ble[<<r, s>>] \o cs ELSE ble[<<r, s>>]
  BY DEF BleSend, Peers
<1>3. ToSet(ble[<<r, s>>] \o cs) = ToSet(ble[<<r, s>>]) \cup ToSet(cs)
  <2> DEFINE a == ble[<<r, s>>]
             t == a \o cs
  <2>1. /\ t \in Seq(Known) /\ Len(t) = Len(a) + Len(cs)
        /\ \A i \in 1..Len(t) : t[i] = IF i <= Len(a) THEN a[i] ELSE cs[i - Len(a)]
    BY <1>1, ConcatProperties
  <2>2. /\ DOMAIN t = 1..Len(t) /\ DOMAIN a = 1..Len(a) /\ DOMAIN cs = 1..Len(cs)
        /\ Len(a) \in Nat /\ Len(cs) \in Nat
    BY <1>1, <2>1, LenProperties
  <2> HIDE DEF a, t
  <2>3. \A i \in DOMAIN t : \/ i \in DOMAIN a /\ t[i] = a[i]
                            \/ i - Len(a) \in DOMAIN cs /\ t[i] = cs[i - Len(a)]
    BY <2>1, <2>2
  <2>4. \A i \in DOMAIN a : i \in DOMAIN t /\ t[i] = a[i]
    BY <2>1, <2>2
  <2>5. \A i \in DOMAIN cs : i + Len(a) \in DOMAIN t /\ t[i + Len(a)] = cs[i]
    BY <2>1, <2>2
  <2>6. ToSet(t) = ToSet(a) \cup ToSet(cs)
    BY <2>3, <2>4, <2>5 DEF ToSet
  <2>7. QED
    BY <2>6 DEF t, a
<1>4. Ids(ble[<<r, s>>] \o cs) = Ids(ble[<<r, s>>]) \cup Ids(cs)
  <2>1. ble[<<r, s>>] \o cs \in Seq(Known)
    BY <1>1, ConcatProperties
  <2>2. /\ Ids(ble[<<r, s>>] \o cs) = {c.id : c \in ToSet(ble[<<r, s>>] \o cs)}
        /\ Ids(ble[<<r, s>>]) = {c.id : c \in ToSet(ble[<<r, s>>])}
        /\ Ids(cs) = {c.id : c \in ToSet(cs)}
    BY <1>1, <2>1, MemberIs
  <2>3. QED
    BY <1>3, <2>2
<1>5. QED
  BY <1>2, <1>4

LEMMA PeerConnectedNear ==
  ASSUME TypeOK, Grows, NearInv, NEW p \in Phones, NEW q \in Phones, PeerConnected(p, q)
  PROVE  NearInv'
<1>1. /\ <<p, q>> \in linked /\ greeted' = greeted \cup {<<p, q>>} /\ BleSend(p, log[p])
      /\ UNCHANGED <<log, seen, roomRx, linked>>
  BY DEF PeerConnected, Peers, SyncRoomHistory, phoneVars
<1>2. log[p] \in Seq(Known) /\ linked \subseteq Links
  BY DEF TypeOK, RoomTypes, BleTypes
<1>3. \A r, s \in Phones : <<r, s>> \in Links =>
        IF r = p /\ <<p, s>> \in linked
          THEN Ids(ble'[<<r, s>>]) = Ids(ble[<<r, s>>]) \cup Ids(log[p])
          ELSE ble'[<<r, s>>] = ble[<<r, s>>]
  BY <1>1, <1>2, BleSendingIds
<1>4. \A r, s \in Phones : <<r, s>> \in Links /\ <<r, s>> \in linked => <<s, r>> \in linked
  BY DEF NearInv, Told
<1>5. \A r, s \in Phones : <<r, s>> \in Links =>
        /\ Ids(ble'[<<r, s>>]) \subseteq Ids(ble[<<r, s>>]) \cup Ids(log[r])
        /\ <<r, s>> \in greeted' =>
             \/ <<r, s>> \in greeted /\ Ids(ble[<<r, s>>]) \subseteq Ids(ble'[<<r, s>>])
             \/ Ids(log[r]) \subseteq Ids(ble'[<<r, s>>])
  BY <1>1, <1>2, <1>3
<1>6. \A r, s \in Phones : <<r, s>> \in Links =>
        /\ Ids(ble'[<<r, s>>]) \subseteq Ids(ble[<<r, s>>]) \cup Ids(log'[r])
        /\ <<r, s>> \in linked' => <<s, r>> \in linked'
        /\ <<r, s>> \in greeted' =>
             \/ /\ <<r, s>> \in greeted
                /\ Ids(roomRx[r]) \cup Ids(ble[<<r, s>>])
                     \subseteq Ids(roomRx'[r]) \cup Ids(ble'[<<r, s>>]) \cup Ids(log'[s])
             \/ Ids(log'[r]) \subseteq Ids(ble'[<<r, s>>])
  BY <1>1, <1>4, <1>5
<1>7. QED
  BY <1>1, <1>6, NearKept

LEMMA ForwardToBleNear ==
  ASSUME TypeOK, Grows, NearInv, NEW p \in Phones, ForwardToBle(p)
  PROVE  NearInv'
<1>0. PICK c : c = Head(roomRx[p])
  OBVIOUS
<1>1. /\ roomRx[p] # <<>> /\ roomRx' = [roomRx EXCEPT ![p] = Tail(roomRx[p])]
      /\ seen' = [seen EXCEPT ![p] = seen[p] \cup {Key("ble-sent", c.id)}]
      /\ UNCHANGED <<log, linked, greeted>>
      /\ \/ Key("ble-echo", c) \in seen[p] /\ UNCHANGED ble
         \/ BleSend(p, <<c>>)
  BY <1>0 DEF ForwardToBle
<1>2. /\ roomRx \in [Phones -> Seq(Known)] /\ seen \in [Phones -> SUBSET KnownKeys]
      /\ greeted \subseteq linked
  BY DEF TypeOK, RoomTypes, BleTypes
<1>3. c \in Known /\ c \in ChatMessage /\ <<c>> \in Seq(Known)
  <2>1. c \in Known
    BY <1>0, <1>1, <1>2, TailIs
  <2>2. <<c>> \in Seq(Known)
    BY <2>1
  <2>3. QED
    BY <2>1, <2>2 DEF Known
<1>4. /\ Ids(roomRx[p]) = {c.id} \cup Ids(roomRx'[p])
      /\ \A r \in Phones : Ids(roomRx'[r]) \subseteq Ids(roomRx[r])
      /\ \A r \in Phones : r # p => roomRx'[r] = roomRx[r]
  <2>1. Ids(roomRx[p]) = {c.id} \cup Ids(Tail(roomRx[p]))
    BY <1>0, <1>1, <1>2, TailIs
  <2>2. QED
    BY <1>1, <1>2, <2>1
<1>5. c.id \in Ids(log[p])
  BY <1>4 DEF NearInv, Bridged
<1>6. \A r \in Phones : \A x :
        /\ Key("ble-sent", x) \in seen'[r] =>
             Key("ble-sent", x) \in seen[r] \/ (r = p /\ x = c.id)
        /\ Key("ble-in", x) \in seen'[r] => Key("ble-in", x) \in seen[r]
        /\ Key("ble-echo", x) \in seen'[r] => Key("ble-echo", x) \in seen[r]
  BY <1>1, <1>2 DEF Key
<1>7. ASSUME NEW r \in Phones, NEW s \in Phones, <<r, s>> \in Links
      PROVE  /\ Ids(ble'[<<r, s>>]) \subseteq Ids(ble[<<r, s>>]) \cup Ids(log[r])
             /\ Ids(ble[<<r, s>>]) \subseteq Ids(ble'[<<r, s>>])
             /\ r = p /\ <<r, s>> \in linked => c.id \in Ids(ble'[<<r, s>>]) \cup Ids(log[s])
  <2>1. CASE Key("ble-echo", c) \in seen[p] /\ UNCHANGED ble
    <3>1. r = p => c.id \in Ids(log[s])
      BY <1>3, <1>7, <2>1 DEF NearInv, Heard
    <3>2. QED
      BY <2>1, <3>1
  <2>2. CASE BleSend(p, <<c>>)
    <3>1. Ids(<<c>>) = {c.id}
      BY DEF Ids
    <3>2. IF r = p /\ <<p, s>> \in linked
            THEN Ids(ble'[<<r, s>>]) = Ids(ble[<<r, s>>]) \cup Ids(<<c>>)
            ELSE ble'[<<r, s>>] = ble[<<r, s>>]
      BY <1>3, <1>7, <2>2, BleSendingIds
    <3>3. QED
      BY <1>5, <3>1, <3>2
  <2>3. QED
    BY <1>1, <2>1, <2>2
<1>8. \A r, s \in Phones : <<r, s>> \in Links /\ <<r, s>> \in linked => <<s, r>> \in linked
  BY DEF NearInv, Told
<1>9. \A r, s \in Phones : <<r, s>> \in Links =>
        /\ Ids(ble'[<<r, s>>]) \subseteq Ids(ble[<<r, s>>]) \cup Ids(log'[r])
        /\ <<r, s>> \in linked' => <<s, r>> \in linked'
        /\ <<r, s>> \in greeted' =>
             /\ <<r, s>> \in greeted
             /\ Ids(roomRx[r]) \cup Ids(ble[<<r, s>>])
                  \subseteq Ids(roomRx'[r]) \cup Ids(ble'[<<r, s>>]) \cup Ids(log'[s])
  <2>1. ASSUME NEW r \in Phones, NEW s \in Phones, <<r, s>> \in Links, <<r, s>> \in greeted
        PROVE  Ids(roomRx[r]) \subseteq Ids(roomRx'[r]) \cup Ids(ble'[<<r, s>>]) \cup Ids(log[s])
    <3>1. CASE r = p
      BY <1>2, <1>4, <1>7, <2>1, <3>1
    <3>2. CASE r # p
      BY <1>4, <3>2
    <3>3. QED
      BY <3>1, <3>2
  <2>2. QED
    BY <1>1, <1>7, <1>8, <2>1
<1>10. \A r \in Phones :
         /\ Ids(roomRx'[r]) \subseteq Ids(roomRx[r]) \cup Ids(log'[r])
         /\ Ids(log'[r]) \subseteq Ids(log[r]) \cup Ids(roomRx'[r])
         /\ \A m \in Msgs : Key("ble-sent", m) \in seen'[r] =>
              Key("ble-sent", m) \in seen[r] \/ m \in Ids(log'[r])
  BY <1>1, <1>4, <1>5, <1>6
<1>11. QED
  BY <1>6, <1>9, <1>10, NearKept

LEMMA BleReceiveNear ==
  ASSUME PhoneMeshAssumption, Paired, TypeOK, Grows, NearInv, NEW p \in Phones, NEW q \in Phones,
         BleReceive(p, q)
  PROVE  NearInv'
<1>0. PICK c : c = Head(ble[<<q, p>>])
  OBVIOUS
<1>1. /\ <<q, p>> \in Links /\ ble[<<q, p>>] # <<>> /\ UNCHANGED <<linked, greeted>>
      /\ ble' = ble \/ ble' = [ble EXCEPT ![<<q, p>>] = Tail(ble[<<q, p>>])]
  BY DEF BleReceive, Arrives
<1>2. /\ ble \in [Links -> Seq(Known)] /\ seen \in [Phones -> SUBSET KnownKeys]
      /\ log \in [Phones -> Seq(Known)] /\ roomRx \in [Phones -> Seq(Known)]
  BY DEF TypeOK, RoomTypes, BleTypes
<1>3. c \in Known /\ c \in ChatMessage /\ c.id \in Msgs
  BY <1>0, ArrivedIs DEF Known, ChatMessage
<1>4. /\ \A l \in Links : Ids(ble'[l]) \subseteq Ids(ble[l])
      /\ \A l \in Links : l # <<q, p>> => ble'[l] = ble[l]
      /\ Ids(ble[<<q, p>>]) = {c.id} \cup Ids(Tail(ble[<<q, p>>]))
      /\ Ids(ble[<<q, p>>]) \subseteq {c.id} \cup Ids(ble'[<<q, p>>])
  <2>1. Ids(ble[<<q, p>>]) = {c.id} \cup Ids(Tail(ble[<<q, p>>]))
    BY <1>0, <1>1, <1>2, TailIs
  <2>2. QED
    BY <1>1, <1>2, <2>1
<1>5. c.id \in Ids(log[q])
  BY <1>1, <1>4 DEF NearInv, Heard
<1>6. \A r \in Phones : <<p, r>> \in Links => r = q
  <2>1. <<p, q>> \in Links
    BY <1>1, LinkIs
  <2>2. \A r \in Phones : <<p, r>> \in Links => <<p, r>> = <<p, q>>
    BY <2>1 DEF Paired
  <2>3. QED
    BY <2>2
<1>7. /\ c.id \in Ids(log'[p])
      /\ InjectExternalMessage(p, c) \/ UNCHANGED <<log, roomRx>>
      /\ \/ UNCHANGED seen
         \/ seen' = [seen EXCEPT ![p] = seen[p] \cup {Key("ble-echo", c), Key("ble-in", c.id)}]
  <2>1. CASE Echo(p, c)
    <3>1. c.id \in Ids(log[p])
      BY <1>3, <2>1 DEF Echo, NearInv, Bridged
    <3>2. UNCHANGED phoneVars
      BY <1>0, <2>1 DEF BleReceive
    <3>3. QED
      BY <3>1, <3>2 DEF phoneVars
  <2>2. CASE ~Echo(p, c) /\ Key("ble-in", c.id) \in seen[p]
    <3>1. c.id \in Ids(log[p])
      BY <1>3, <2>2 DEF NearInv, Bridged
    <3>2. /\ seen' = [seen EXCEPT ![p] = seen[p] \cup {Key("ble-echo", c), Key("ble-in", c.id)}]
          /\ UNCHANGED <<log, roomRx>>
      BY <1>0, <2>2 DEF BleReceive
    <3>3. QED
      BY <3>1, <3>2
  <2>3. CASE ~Echo(p, c) /\ Key("ble-in", c.id) \notin seen[p]
    <3>1. /\ seen' = [seen EXCEPT ![p] = seen[p] \cup {Key("ble-echo", c), Key("ble-in", c.id)}]
          /\ InjectExternalMessage(p, c)
      BY <1>0, <2>3 DEF BleReceive
    <3>2. c.id \in Ids(log'[p])
      BY <1>3, <3>1, Injecting
    <3>3. QED
      BY <3>1, <3>2
  <2>4. QED
    BY <2>1, <2>2, <2>3
<1>8. \A r \in Phones :
        /\ Ids(roomRx[r]) \subseteq Ids(roomRx'[r])
        /\ Ids(roomRx'[r]) \subseteq Ids(roomRx[r]) \cup Ids(log'[r])
        /\ Ids(log'[r]) \subseteq Ids(log[r]) \cup Ids(roomRx'[r])
  BY <1>3, <1>7, Broadcasting
<1>9. \A r \in Phones : \A x :
        /\ Key("ble-sent", x) \in seen'[r] => Key("ble-sent", x) \in seen[r]
        /\ Key("ble-in", x) \in seen'[r] => Key("ble-in", x) \in seen[r] \/ (r = p /\ x = c.id)
        /\ Key("ble-echo", x) \in seen'[r] => Key("ble-echo", x) \in seen[r] \/ (r = p /\ x = c)
  BY <1>2, <1>7 DEF Key
<1>10. /\ \A r \in Phones : <<p, r>> \in Links => c.id \in Ids(log'[r])
       /\ \A r \in Phones : Ids(log[r]) \subseteq Ids(log'[r])
  BY <1>5, <1>6 DEF Grows
<1>11. \A r \in Phones :
         /\ \A m \in Msgs :
              /\ Key("ble-sent", m) \in seen'[r] =>
                   Key("ble-sent", m) \in seen[r] \/ m \in Ids(log'[r])
              /\ Key("ble-in", m) \in seen'[r] =>
                   Key("ble-in", m) \in seen[r] \/ m \in Ids(log'[r])
         /\ \A d \in ChatMessage : Key("ble-echo", d) \in seen'[r] =>
              \/ Key("ble-echo", d) \in seen[r]
              \/ /\ d.id \in Ids(log'[r])
                 /\ \A s \in Phones : <<r, s>> \in Links => d.id \in Ids(log'[s])
  BY <1>7, <1>9, <1>10
<1>12. \A r, s \in Phones : <<r, s>> \in Links /\ <<r, s>> \in linked => <<s, r>> \in linked
  BY DEF NearInv, Told
<1>13. \A r, s \in Phones : <<r, s>> \in Links =>
         Ids(ble[<<r, s>>]) \subseteq Ids(ble'[<<r, s>>]) \cup Ids(log'[s])
  <2>1. \A r, s \in Phones : <<r, s>> = <<q, p>> => s = p
    OBVIOUS
  <2>2. QED
    BY <1>4, <1>7, <2>1
<1>14. \A r, s \in Phones : <<r, s>> \in Links =>
         /\ Ids(ble'[<<r, s>>]) \subseteq Ids(ble[<<r, s>>]) \cup Ids(log'[r])
         /\ <<r, s>> \in linked' => <<s, r>> \in linked'
         /\ <<r, s>> \in greeted' =>
              /\ <<r, s>> \in greeted
              /\ Ids(roomRx[r]) \cup Ids(ble[<<r, s>>])
                   \subseteq Ids(roomRx'[r]) \cup Ids(ble'[<<r, s>>]) \cup Ids(log'[s])
  BY <1>1, <1>4, <1>8, <1>12, <1>13
<1>15. QED
  BY <1>8, <1>11, <1>14, NearKept

LEMMA StepNear ==
  ASSUME PhoneMeshAssumption, Paired, TypeOK, Grows, NearInv, [Next]_vars
  PROVE  NearInv'
<1> USE DEF phoneVars
<1>1. ASSUME UNCHANGED <<phoneVars, bleVars>>
      PROVE  NearInv'
  BY <1>1, NearStill
<1>2. ASSUME NEW p \in Phones, ForwardUpstream(p)
      PROVE  NearInv'
  <2>1. UNCHANGED <<log, roomRx, bleVars>>
    BY <1>2 DEF ForwardUpstream
  <2>2. PICK m : UNCHANGED seen \/ seen' = [seen EXCEPT ![p] = seen[p] \cup {Key("relay-out", m)}]
    BY <1>2 DEF ForwardUpstream
  <2>3. \A q \in Phones : \A k \in seen'[q] : k \in seen[q] \/ k[1] = "relay-out"
    <3>1. Key("relay-out", m)[1] = "relay-out"
      BY DEF Key
    <3>2. \A q \in Phones : seen'[q] \subseteq seen[q] \cup {Key("relay-out", m)}
      BY <2>2 DEF TypeOK, RoomTypes
    <3>3. QED
      BY <3>1, <3>2
  <2>4. QED
    BY <2>1, <2>3, NearStill
<1>3. ASSUME NEW p \in Phones, HandleUpstreamMessage(p)
      PROVE  NearInv'
  <2>1. UNCHANGED bleVars
    BY <1>3 DEF HandleUpstreamMessage
  <2>2. UNCHANGED phoneVars \/ \E c \in Known : TakeUpstream(p, c)
    BY <1>3, HandledIs, Zenon
  <2>3. QED
    BY <2>1, <2>2, TakingNear
<1>4. ASSUME NEW p \in Phones, HandleHistory(p)
      PROVE  NearInv'
  <2>1. UNCHANGED bleVars
    BY <1>4 DEF HandleHistory
  <2>2. UNCHANGED phoneVars \/ \E c \in Known : TakeUpstream(p, c)
    BY <1>4, HistoryIs, Zenon
  <2>3. QED
    BY <2>1, <2>2, TakingNear
<1>5. ASSUME NEW m \in Msgs, SendWeb(m)
      PROVE  NearInv'
  BY <1>1, <1>5 DEF SendWeb
<1>6. ASSUME NEW p \in Phones, Connect(p) \/ Disconnect(p) \/ PassThrough(p) \/ ServerReceive(p)
      PROVE  NearInv'
  BY <1>1, <1>6 DEF Connect, Disconnect, PassThrough, ServerReceive
<1>7. CASE UNCHANGED vars
  BY <1>1, <1>7 DEF vars
<1>8. CASE Next
  BY <1>2, <1>3, <1>4, <1>5, <1>6, <1>8, NextIs, SendLocalNear, LinkUpNear, PeerConnectedNear,
     ForwardToBleNear, BleReceiveNear
<1>9. QED
  BY <1>7, <1>8

\* Two phones in range of each other, and of no third one, have the same
\* messages when nothing is under way, whatever other phones there are at the
\* server (sync_room_history_to_ble and forward_ws_to_ble, bridge.rs).
THEOREM MeshLinkedPhonesAgree ==
  ASSUME Paired
  PROVE  Spec => []LinkedPhonesAgree
<1>1. Init => NearInv
  BY EmptyIs DEF Init, NearInv, Bridged, Heard, Told
<1>2. ASSUME MeshInv, NearInv, [Next]_vars
      PROVE  NearInv'
  BY <1>2, PhoneMeshAssumption, Paired, StepGrows, StepNear DEF MeshInv
<1>3. ASSUME MeshInv, NearInv, Quiet, NEW l \in linked
      PROVE  Ids(log[l[1]]) = Ids(log[l[2]])
  <2>1. l \in Links /\ greeted = linked
    BY <1>3 DEF MeshInv, TypeOK, BleTypes, Quiet
  <2>2. PICK p \in Phones, q \in Phones : l = <<p, q>> /\ <<p, q>> \in Links /\ <<q, p>> \in Links
    BY <2>1, PhoneMeshAssumption, LinkIs
  <2>3. <<p, q>> \in greeted /\ <<q, p>> \in greeted
    BY <1>3, <2>1, <2>2 DEF NearInv, Told
  <2>4. \A r, s \in Phones : <<r, s>> \in Links => Ids(ble[<<r, s>>]) = {} /\ Ids(roomRx[r]) = {}
    BY <1>3, EmptyIs DEF Quiet
  <2>5. Ids(log[p]) \subseteq Ids(log[q]) /\ Ids(log[q]) \subseteq Ids(log[p])
    BY <1>3, <2>2, <2>3, <2>4 DEF NearInv, Told
  <2>6. l[1] = p /\ l[2] = q
    BY <2>2
  <2>7. QED
    BY <2>5, <2>6
<1>4. MeshInv /\ NearInv => LinkedPhonesAgree
  BY <1>3 DEF LinkedPhonesAgree
<1>5. QED
  BY <1>1, <1>2, <1>4, MeshInvariant, PTL DEF Spec
=============================================================================
