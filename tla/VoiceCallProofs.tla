-------------------------- MODULE VoiceCallProofs --------------------------
(***************************************************************************)
(* VoiceCall: its types, that audio flows only over connections which      *)
(* leaving the call closes, that candidates arrive, and that a newcomer is *)
(* connected to the members it was shown, for any number of browsers and   *)
(* of joins.                                                               *)
(*                                                                         *)
(* The proof looks at two browsers b and q of which q was never shown b:   *)
(* only b offers, all connections of b to q are those of its offers, and   *)
(* all of q to b are answers.  CallInv says which connections there are;   *)
(* FlowInv, on top of it, follows what is under way between the two.       *)
(***************************************************************************)
EXTENDS VoiceCall, FiniteSetTheorems, TLAPS

\* The connections of b, and those to q.
Own(b) == {x \in DOMAIN pc : x[1] = b}
Of(b, q) == {x \in Own(b) : pc[x].peer = q}

\* Connections are numbered.
Counted ==
  /\ IsFiniteSet(DOMAIN pc)
  /\ \A x \in DOMAIN pc : x[2] <= Cardinality(Own(x[1]))

\* Where a browser is in a call: it is a member of the channel from the moment
\* its microphone is there, and has connections while it is in the call only.
Phase(b) ==
  /\ active[b] <=> shown[b] \/ stage[b] # Idle
  /\ shown[b] => stage[b] = Idle
  /\ b \in channel <=> active[b] /\ stage[b] # Audio
  /\ targets[b] \subseteq saw[b] /\ (stage[b] = Idle => targets[b] = {})
  /\ joins[b] = 0 => ~active[b]
  /\ ~active[b] => \A q \in Browsers : peers[b][q] = None
  /\ stage[b] \in DOMAIN pc => pc[stage[b]].peer \in saw[b] \ targets[b]
Phases == \A b \in Browsers : Phase(b)

\* y is a connection of the one x is for, for the browser of x.
Fit(x, y) == y[1] = pc[x].peer /\ pc[y].peer = x[1]

\* A description that is being set: an offer comes from one that was shown the
\* receiver, an answer from one that the receiver was shown.
Meant(d) ==
  /\ Fit(d.pc, d.of)
  /\ d.sdp = "offer" => d.pc[1] \in saw[d.of[1]]
  /\ d.sdp = "answer" => d.of[1] \in saw[d.pc[1]]

\* The same of a message to b.
Proper(b, m) ==
  /\ m.type \in {"voice_offer", "voice_answer", "voice_ice"} =>
       m.pc \in DOMAIN pc /\ m.pc[1] = m.from /\ pc[m.pc].peer = b
  /\ m.type = "voice_offer" => b \in saw[m.from]
  /\ m.type = "voice_answer" => m.from \in saw[b]

\* What is said of a connection, and what is under way; of two that have a
\* connection, one was shown the other.
Routed ==
  /\ \A x \in DOMAIN pc : pc[x].remote # None => pc[x].remote \in DOMAIN pc /\ Fit(x, pc[x].remote)
  /\ \A x \in DOMAIN pc : pc[x].peer \in saw[x[1]] \/ x[1] \in saw[pc[x].peer]
  /\ \A d \in applying : Meant(d)
  /\ \A b \in Browsers : \A i \in 1..Len(down[b]) : Proper(b, down[b][i])

\* All connections of b to q that are open are in its peers.
HoldsOpen(b, q) == \A x \in Of(b, q) : pc[x].open => peers[b][q] = x

\* Where offers of b to q, and notes that b has left, are among what q will receive.
Offers(b, q) ==
  {i \in 1..Len(down[q]) : down[q][i].type = "voice_offer" /\ down[q][i].from = b}
Lefts(b, q) ==
  {i \in 1..Len(down[q]) : down[q][i].type = "voice_peer_left" /\ down[q][i].from = b}

\* The one who offers holds its only connection that is open, and has none
\* before it offers.
Offerer(b, q) == HoldsOpen(b, q) /\ (q \in targets[b] => peers[b][q] = None)

\* b, which has clicked once, makes one connection, one offer of it is sent, and
\* one connection of q answers it.
OfferedOnce(b, q) ==
  /\ \A x, y \in Of(b, q) : x = y
  /\ joins[b] = 0 \/ q \in targets[b] => Of(b, q) = {}
  /\ \A x, y \in Of(q, b) : x = y
  /\ \A i, j \in Offers(b, q) : i = j
  /\ Offers(b, q) # {} => Of(q, b) = {}
  /\ Of(b, q) = {} \/ stage[b] \in Of(b, q) => Of(q, b) = {} /\ Offers(b, q) = {}
  /\ HoldsOpen(q, b)

\* Between two offers of b comes a note that b has left, also between one that has
\* been received and the next.
Apart(b, q) ==
  /\ \A i, j \in Offers(b, q) : i < j => \E k \in Lefts(b, q) : i < k /\ k < j
  /\ peers[q][b] # None => \A i \in Offers(b, q) : \E k \in Lefts(b, q) : k < i

\* When q has received what is under way, b has no entry in its peers.
WillBeClear(b, q) ==
  \/ \E k \in Lefts(b, q) : \A i \in Offers(b, q) : i < k
  \/ peers[q][b] = None /\ Offers(b, q) = {}

\* The next offer of b to q, if there will be one, is still to be sent.
YetToOffer(b, q) == b \notin channel \/ q \in targets[b] \/ stage[b] \in Of(b, q)

\* q, which has clicked once, learns of each leaving of b while it is in the
\* channel.
AnswererOnce(b, q) ==
  /\ HoldsOpen(q, b)
  /\ joins[q] = 0 \/ stage[q] = Audio => peers[q][b] = None /\ Offers(b, q) = {}
  /\ q \in channel =>
       /\ Apart(b, q)
       /\ YetToOffer(b, q) => WillBeClear(b, q)

Pair(b, q) ==
  /\ Offerer(b, q)
  /\ joins[b] <= 1 => OfferedOnce(b, q)
  /\ joins[q] <= 1 => AnswererOnce(b, q)
Pairs == \A b, q \in Browsers : b # q /\ b \notin saw[q] => Pair(b, q)

CallInv == TypeOK /\ Counted /\ Phases /\ Routed /\ Pairs

-----------------------------------------------------------------------------
(* Connections *)

LEMMA Marks ==
  /\ None \notin Ends /\ Idle \notin Ends /\ Audio \notin Ends
  /\ None # Idle /\ None # Audio /\ Idle # Audio
BY DEF None, Idle, Audio, Ends

\* A new connection is none that was made before.
LEMMA FreshIs ==
  ASSUME TypeOK, Counted, NEW b \in Browsers
  PROVE  /\ Fresh(b) \in Ends /\ Fresh(b) \notin DOMAIN pc
         /\ Fresh(b)[1] = b /\ Fresh(b)[2] = Cardinality(Own(b)) + 1
         /\ IsFiniteSet(Own(b)) /\ Cardinality(Own(b)) \in Nat
<1>1. IsFiniteSet(Own(b))
  BY FS_Subset DEF Counted, Own
<1>2. Cardinality(Own(b)) \in Nat
  BY <1>1, FS_CardinalityType
<1>3. Fresh(b) = <<b, Cardinality(Own(b)) + 1>>
  BY DEF Fresh, Own
<1>4. Fresh(b) \in Ends
  BY <1>2, <1>3 DEF Ends
<1>5. ASSUME Fresh(b) \in DOMAIN pc PROVE FALSE
  <2>1. Fresh(b)[2] <= Cardinality(Own(Fresh(b)[1]))
    BY <1>5 DEF Counted
  <2>2. Cardinality(Own(b)) + 1 <= Cardinality(Own(b))
    BY <1>3, <2>1
  <2> QED
    BY <1>2, <2>2
<1> QED
  BY <1>1, <1>2, <1>3, <1>4, <1>5

LEMMA NewIs ==
  ASSUME NEW q \in Browsers
  PROVE  /\ [New EXCEPT !.peer = q] \in Connections
         /\ [New EXCEPT !.peer = q].peer = q
         /\ [New EXCEPT !.peer = q].open = TRUE
         /\ [New EXCEPT !.peer = q].remote = None
BY DEF New, Connections

LEMMA ClosedIs ==
  ASSUME NEW c \in Connections
  PROVE  /\ Closed(c) \in Connections
         /\ Closed(c).peer = c.peer /\ Closed(c).open = FALSE /\ Closed(c).remote = None
BY DEF Closed, New, Connections

\* What no step does to a connection: it does not change whom it is for, nor
\* open it again.
Kept(x) ==
  /\ x \in DOMAIN pc' /\ pc'[x] \in Connections
  /\ pc'[x].peer = pc[x].peer /\ (pc'[x].open => pc[x].open)

\* The connections stay, or b makes one to q.
NoneMade == DOMAIN pc' = DOMAIN pc /\ \A x \in DOMAIN pc : Kept(x)
Made(b, q) ==
  /\ DOMAIN pc' = DOMAIN pc \cup {Fresh(b)}
  /\ \A x \in DOMAIN pc : Kept(x)
  /\ pc'[Fresh(b)] = [New EXCEPT !.peer = q]

LEMMA WithNewIs ==
  ASSUME TypeOK, Counted, NEW b \in Browsers, NEW q \in Browsers,
         NEW cs, DOMAIN cs = DOMAIN pc, pc' = WithNew(cs, b, q)
  PROVE  /\ DOMAIN pc' = DOMAIN pc \cup {Fresh(b)}
         /\ \A x \in DOMAIN pc : pc'[x] = cs[x]
         /\ pc'[Fresh(b)] = [New EXCEPT !.peer = q]
BY FreshIs DEF WithNew

\* The connections before a turn of the loop over existingMembers are those there
\* were, one of them perhaps with its own description.
Sameish(cs) ==
  /\ DOMAIN cs = DOMAIN pc
  /\ \A x \in DOMAIN pc :
       /\ cs[x] \in Connections /\ cs[x].peer = pc[x].peer /\ cs[x].open = pc[x].open
       /\ cs[x].remote = pc[x].remote

LEMMA NextMemberIs ==
  ASSUME TypeOK, Counted, NEW b \in Browsers, NEW cs, Sameish(cs), NextMember(b, cs)
  PROVE  \/ \E q \in targets[b] :
              /\ targets' = [targets EXCEPT ![b] = @ \ {q}]
              /\ Made(b, q)
              /\ \A x \in DOMAIN pc : pc'[x].open = pc[x].open /\ pc'[x].remote = pc[x].remote
              /\ peers' = [peers EXCEPT ![b][q] = Fresh(b)]
              /\ stage' = [stage EXCEPT ![b] = Fresh(b)]
              /\ UNCHANGED shown
         \/ /\ targets[b] = {} /\ NoneMade
            /\ \A x \in DOMAIN pc : pc'[x].open = pc[x].open /\ pc'[x].remote = pc[x].remote
            /\ stage' = [stage EXCEPT ![b] = Idle]
            /\ shown' = [shown EXCEPT ![b] = TRUE]
            /\ UNCHANGED <<targets, peers>>
<1>1. ASSUME NEW q \in targets[b], pc' = WithNew(cs, b, q)
      PROVE  /\ Made(b, q)
             /\ \A x \in DOMAIN pc : pc'[x].open = pc[x].open /\ pc'[x].remote = pc[x].remote
  <2>1. q \in Browsers
    BY DEF TypeOK
  <2>2. /\ DOMAIN pc' = DOMAIN pc \cup {Fresh(b)}
        /\ \A x \in DOMAIN pc : pc'[x] = cs[x]
        /\ pc'[Fresh(b)] = [New EXCEPT !.peer = q]
    <3>1. DOMAIN cs = DOMAIN pc
      BY DEF Sameish
    <3> QED
      BY <1>1, <2>1, <3>1, WithNewIs, Zenon
  <2> QED
    BY <2>2 DEF Made, Kept, Sameish
<1>2. ASSUME pc' = cs
      PROVE  /\ NoneMade
             /\ \A x \in DOMAIN pc : pc'[x].open = pc[x].open /\ pc'[x].remote = pc[x].remote
  BY <1>2 DEF NoneMade, Kept, Sameish
<1> QED
  BY <1>1, <1>2 DEF NextMember

\* Messages: what is announced comes to everybody, what is relayed to one.
LEMMA AnnounceIs ==
  ASSUME TypeOK, NEW b \in Browsers, channel' \subseteq Browsers,
         NEW type \in {"voice_peer_joined", "voice_peer_left"}, Announce(type, b)
  PROVE  /\ down' \in [Browsers -> Seq(Notes)]
         /\ \A q \in Browsers :
              LET m == Note(IF q \in channel' \ {b} THEN type ELSE "voice_state",
                            b, None, channel')
              IN  m \in Notes /\ down'[q] = Append(down[q], m)
<1>1. \A q \in Browsers :
        Note(IF q \in channel' \ {b} THEN type ELSE "voice_state", b, None, channel') \in Notes
  BY DEF Note, Notes
<1>2. \A q \in Browsers : down[q] \in Seq(Notes)
  BY DEF TypeOK
<1>3. \A q \in Browsers :
        Append(down[q], Note(IF q \in channel' \ {b} THEN type ELSE "voice_state",
                             b, None, channel')) \in Seq(Notes)
  BY <1>1, <1>2
<1> QED
  BY <1>1, <1>3 DEF Announce

LEMMA RelayIs ==
  ASSUME TypeOK, NEW b \in Browsers, NEW to \in Browsers, NEW x \in Ends,
         NEW type \in {"voice_offer", "voice_answer", "voice_ice"},
         RelayVoice(b, type, to, x)
  PROVE  /\ down' \in [Browsers -> Seq(Notes)] /\ channel' = channel
         /\ Note(type, b, x, {}) \in Notes
         /\ \A q \in Browsers : down'[q] =
              IF q = to /\ {b, to} \subseteq channel
                THEN Append(down[q], Note(type, b, x, {})) ELSE down[q]
<1>1. Note(type, b, x, {}) \in Notes
  BY DEF Note, Notes
<1>2. Append(down[to], Note(type, b, x, {})) \in Seq(Notes)
  BY <1>1 DEF TypeOK
<1> QED
  BY <1>1, <1>2 DEF RelayVoice, TypeOK

LEMMA ReceiveIs ==
  ASSUME TypeOK, NEW b \in Browsers, Receive(b)
  PROVE  /\ down[b] \in Seq(Notes) /\ down[b] # <<>> /\ Len(down[b]) \in Nat \ {0}
         /\ Head(down[b]) = down[b][1] /\ down[b][1] \in Notes
         /\ down' \in [Browsers -> Seq(Notes)]
         /\ down'[b] = Tail(down[b]) /\ \A q \in Browsers \ {b} : down'[q] = down[q]
         /\ Len(down'[b]) = Len(down[b]) - 1
         /\ \A i \in 1..Len(down'[b]) : down'[b][i] = down[b][i + 1]
<1>1. down[b] \in Seq(Notes) /\ down[b] # <<>>
  BY DEF TypeOK, Receive
<1>2. /\ Len(down[b]) \in Nat \ {0} /\ Head(down[b]) = down[b][1] /\ down[b][1] \in Notes
      /\ Tail(down[b]) \in Seq(Notes) /\ Len(Tail(down[b])) = Len(down[b]) - 1
      /\ \A i \in 1..Len(Tail(down[b])) : Tail(down[b])[i] = down[b][i + 1]
  BY <1>1
<1>3. down' = [down EXCEPT ![b] = Tail(@)]
  BY DEF Receive
<1>4. down'[b] = Tail(down[b]) /\ \A q \in Browsers \ {b} : down'[q] = down[q]
  BY <1>3 DEF TypeOK
<1>5. down' \in [Browsers -> Seq(Notes)]
  BY <1>2, <1>3 DEF TypeOK
<1> QED
  BY <1>1, <1>2, <1>4, <1>5

\* What each step does to the connections.
LEMMA AudioReadySame ==
  ASSUME TypeOK PROVE Sameish(pc)
BY DEF TypeOK, Sameish

LEMMA OfferReadySame ==
  ASSUME TypeOK, NEW x \in DOMAIN pc PROVE Sameish([pc EXCEPT ![x].local = TRUE])
<1> DEFINE c == [pc[x] EXCEPT !.local = TRUE]
           cs == [pc EXCEPT ![x].local = TRUE]
<1>1. \A y \in DOMAIN pc : pc[y] \in Connections
  BY DEF TypeOK
<1>2. c \in Connections /\ c.peer = pc[x].peer /\ c.open = pc[x].open /\ c.remote = pc[x].remote
  BY <1>1 DEF Connections
<1>3. DOMAIN cs = DOMAIN pc /\ cs[x] = c /\ \A y \in DOMAIN pc : y # x => cs[y] = pc[y]
  OBVIOUS
<1> HIDE DEF c, cs
<1>4. Sameish(cs)
  BY <1>1, <1>2, <1>3 DEF Sameish
<1> QED
  BY <1>4 DEF cs

LEMMA LeaveIs ==
  ASSUME TypeOK, NEW b \in Browsers, pc' = CloseAll(b)
  PROVE  /\ NoneMade
         /\ \A x \in DOMAIN pc :
              /\ (\E q \in Browsers : peers[b][q] = x) => ~pc'[x].open
              /\ pc'[x] = pc[x] \/ (pc'[x].remote = None /\ \E q \in Browsers : peers[b][q] = x)
<1>1. \A x \in DOMAIN pc : pc[x] \in Connections
  BY DEF TypeOK
<1>2. /\ DOMAIN pc' = DOMAIN pc
      /\ \A x \in DOMAIN pc :
           pc'[x] = IF \E q \in Browsers : peers[b][q] = x THEN Closed(pc[x]) ELSE pc[x]
  BY DEF CloseAll
<1>3. ASSUME NEW x \in DOMAIN pc
      PROVE  /\ Kept(x)
             /\ (\E q \in Browsers : peers[b][q] = x) => ~pc'[x].open
             /\ pc'[x] = pc[x] \/ (pc'[x].remote = None /\ \E q \in Browsers : peers[b][q] = x)
  <2>1. CASE \E q \in Browsers : peers[b][q] = x
    <3>1. pc'[x] = Closed(pc[x])
      BY <1>2, <2>1
    <3>2. /\ Closed(pc[x]) \in Connections /\ Closed(pc[x]).peer = pc[x].peer
          /\ Closed(pc[x]).open = FALSE /\ Closed(pc[x]).remote = None
      BY <1>1, ClosedIs
    <3> QED
      BY <1>2, <2>1, <3>1, <3>2 DEF Kept
  <2>2. CASE ~ \E q \in Browsers : peers[b][q] = x
    BY <1>1, <1>2, <2>2 DEF Kept
  <2> QED
    BY <2>1, <2>2
<1> QED
  BY <1>2, <1>3 DEF NoneMade

LEMMA CloseOne ==
  ASSUME TypeOK, NEW x \in DOMAIN pc, pc' = [pc EXCEPT ![x] = Closed(@)]
  PROVE  /\ NoneMade /\ ~pc'[x].open /\ pc'[x].remote = None
         /\ \A y \in DOMAIN pc : y # x => pc'[y] = pc[y]
<1>1. \A y \in DOMAIN pc : pc[y] \in Connections
  BY DEF TypeOK
<1>2. /\ DOMAIN pc' = DOMAIN pc /\ pc'[x] = Closed(pc[x])
      /\ \A y \in DOMAIN pc : y # x => pc'[y] = pc[y]
  OBVIOUS
<1> QED
  BY <1>1, <1>2, ClosedIs DEF NoneMade, Kept

LEMMA SetRemoteIs ==
  ASSUME TypeOK, NEW x \in DOMAIN pc, NEW y \in DOMAIN pc, SetRemote(x, y)
  PROVE  /\ NoneMade /\ pc'[x].remote = y
         /\ \A z \in DOMAIN pc : pc'[z].open = pc[z].open
         /\ \A z \in DOMAIN pc : z # x => pc'[z] = pc[z]
         /\ pendingIce' \in [Browsers -> [Browsers -> SUBSET Ends]]
<1>1. /\ pc[x] \in Connections /\ x[1] \in Browsers /\ x \in Ends /\ y \in Ends
      /\ pc[x].peer \in Browsers
  BY DEF TypeOK, Ends, Connections
<1>2. Flushed(x) \in SUBSET Ends
  BY <1>1 DEF TypeOK, Flushed
<1> DEFINE c == [pc[x] EXCEPT !.remote = y, !.ice = @ \cup Flushed(x), !.local = TRUE]
<1>3. c \in Connections /\ c.peer = pc[x].peer /\ c.open = pc[x].open /\ c.remote = y
  BY <1>1, <1>2 DEF Connections
<1>4. DOMAIN pc' = DOMAIN pc /\ pc'[x] = c /\ \A z \in DOMAIN pc : z # x => pc'[z] = pc[z]
  BY DEF SetRemote
<1>5. pendingIce' \in [Browsers -> [Browsers -> SUBSET Ends]]
  BY <1>1 DEF TypeOK, SetRemote
<1>6. \A z \in DOMAIN pc : pc[z] \in Connections
  BY DEF TypeOK
<1> HIDE DEF c
<1>7. \A z \in DOMAIN pc : Kept(z) /\ pc'[z].open = pc[z].open
  BY <1>3, <1>4, <1>6 DEF Kept
<1> QED
  BY <1>3, <1>4, <1>5, <1>7 DEF NoneMade

AddedIce(x, y) == pc' = [pc EXCEPT ![x].ice = @ \cup {y}]

LEMMA AddedIceIs ==
  ASSUME TypeOK, NEW x \in DOMAIN pc, NEW y \in Ends, AddedIce(x, y)
  PROVE  /\ NoneMade
         /\ \A z \in DOMAIN pc : pc'[z].open = pc[z].open /\ pc'[z].remote = pc[z].remote
<1> DEFINE c == [pc[x] EXCEPT !.ice = @ \cup {y}]
<1>1. \A z \in DOMAIN pc : pc[z] \in Connections
  BY DEF TypeOK
<1>2. c \in Connections /\ c.peer = pc[x].peer /\ c.open = pc[x].open /\ c.remote = pc[x].remote
  BY <1>1 DEF Connections
<1>3. DOMAIN pc' = DOMAIN pc /\ pc'[x] = c /\ \A z \in DOMAIN pc : z # x => pc'[z] = pc[z]
  BY DEF AddedIce
<1> HIDE DEF c
<1> QED
  BY <1>1, <1>2, <1>3 DEF NoneMade, Kept

\* A connection has found its candidate.
LEMMA GatheredIs ==
  ASSUME TypeOK, NEW x \in DOMAIN pc, pc' = [pc EXCEPT ![x].gathered = TRUE]
  PROVE  /\ NoneMade
         /\ \A z \in DOMAIN pc : pc'[z].open = pc[z].open /\ pc'[z].remote = pc[z].remote
<1> DEFINE c == [pc[x] EXCEPT !.gathered = TRUE]
<1>1. \A z \in DOMAIN pc : pc[z] \in Connections
  BY DEF TypeOK
<1>2. c \in Connections /\ c.peer = pc[x].peer /\ c.open = pc[x].open /\ c.remote = pc[x].remote
  BY <1>1 DEF Connections
<1>3. DOMAIN pc' = DOMAIN pc /\ pc'[x] = c /\ \A z \in DOMAIN pc : z # x => pc'[z] = pc[z]
  OBVIOUS
<1> HIDE DEF c
<1> QED
  BY <1>1, <1>2, <1>3 DEF NoneMade, Kept

-----------------------------------------------------------------------------
(* Types *)

\* The entries of peers.
Holds(b, q) ==
  peers[b][q] # None =>
    /\ peers[b][q] \in DOMAIN pc /\ peers[b][q][1] = b
    /\ pc[peers[b][q]].peer = q /\ pc[peers[b][q]].open

LEMMA TypeParts ==
  TypeOK <=>
    /\ channel \subseteq Browsers
    /\ down \in [Browsers -> Seq(Notes)]
    /\ members \in [Browsers -> SUBSET Browsers]
    /\ saw \in [Browsers -> SUBSET Browsers] /\ targets \in [Browsers -> SUBSET Browsers]
    /\ active \in [Browsers -> BOOLEAN] /\ shown \in [Browsers -> BOOLEAN]
    /\ stage \in [Browsers -> Ends \cup {Idle, Audio}]
    /\ DOMAIN pc \subseteq Ends /\ \A x \in DOMAIN pc : pc[x] \in Connections
    /\ peers \in [Browsers -> [Browsers -> Ends \cup {None}]]
    /\ pendingIce \in [Browsers -> [Browsers -> SUBSET Ends]]
    /\ applying \subseteq [pc : DOMAIN pc, sdp : {"offer", "answer"}, of : DOMAIN pc]
    /\ joins \in [Browsers -> Nat]
    /\ \A b \in Browsers :
         /\ joins[b] <= MaxJoins[b]
         /\ stage[b] \in {Idle, Audio} \/ (stage[b] \in DOMAIN pc /\ stage[b][1] = b)
         /\ shown[b] => active[b]
         /\ \A q \in Browsers : Holds(b, q)
BY DEF TypeOK, Holds

\* The types after a step, part by part.
LEMMA NextTypeOK ==
  ASSUME channel' \subseteq Browsers,
         down' \in [Browsers -> Seq(Notes)],
         members' \in [Browsers -> SUBSET Browsers],
         saw' \in [Browsers -> SUBSET Browsers], targets' \in [Browsers -> SUBSET Browsers],
         active' \in [Browsers -> BOOLEAN], shown' \in [Browsers -> BOOLEAN],
         stage' \in [Browsers -> Ends \cup {Idle, Audio}],
         DOMAIN pc' \subseteq Ends, \A x \in DOMAIN pc' : pc'[x] \in Connections,
         peers' \in [Browsers -> [Browsers -> Ends \cup {None}]],
         pendingIce' \in [Browsers -> [Browsers -> SUBSET Ends]],
         applying' \subseteq [pc : DOMAIN pc', sdp : {"offer", "answer"}, of : DOMAIN pc'],
         joins' \in [Browsers -> Nat],
         \A d \in Browsers :
           /\ joins'[d] <= MaxJoins[d]
           /\ stage'[d] \in {Idle, Audio} \/ (stage'[d] \in DOMAIN pc' /\ stage'[d][1] = d)
           /\ shown'[d] => active'[d]
           /\ \A q \in Browsers : Holds(d, q)'
  PROVE  TypeOK'
BY DEF TypeOK, Holds

LEMMA HoldsStays ==
  ASSUME NEW b, NEW q, Holds(b, q), peers'[b][q] = peers[b][q],
         \A x \in DOMAIN pc : x \in DOMAIN pc' /\ pc'[x].peer = pc[x].peer,
         \A x \in DOMAIN pc : x = peers[b][q] => pc'[x].open = pc[x].open
  PROVE  Holds(b, q)'
BY DEF Holds

\* The next turn of the loop over existingMembers.
LEMMA TypedNextMember ==
  ASSUME TypeOK, Counted, NEW b \in Browsers, active[b], NEW cs, Sameish(cs), NextMember(b, cs)
  PROVE  /\ targets' \in [Browsers -> SUBSET Browsers] /\ shown' \in [Browsers -> BOOLEAN]
         /\ stage' \in [Browsers -> Ends \cup {Idle, Audio}]
         /\ DOMAIN pc \subseteq DOMAIN pc' /\ DOMAIN pc' \subseteq Ends
         /\ \A x \in DOMAIN pc' : pc'[x] \in Connections
         /\ peers' \in [Browsers -> [Browsers -> Ends \cup {None}]]
         /\ \A d \in Browsers :
              /\ stage'[d] \in {Idle, Audio} \/ (stage'[d] \in DOMAIN pc' /\ stage'[d][1] = d)
              /\ shown'[d] => active[d]
              /\ \A q \in Browsers : Holds(d, q)'
<1>1. CASE \E q \in targets[b] :
             /\ targets' = [targets EXCEPT ![b] = @ \ {q}]
             /\ Made(b, q)
             /\ \A x \in DOMAIN pc : pc'[x].open = pc[x].open /\ pc'[x].remote = pc[x].remote
             /\ peers' = [peers EXCEPT ![b][q] = Fresh(b)]
             /\ stage' = [stage EXCEPT ![b] = Fresh(b)]
             /\ UNCHANGED shown
  <2>1. PICK q \in targets[b] :
             /\ targets' = [targets EXCEPT ![b] = @ \ {q}]
             /\ Made(b, q)
             /\ \A x \in DOMAIN pc : pc'[x].open = pc[x].open /\ pc'[x].remote = pc[x].remote
             /\ peers' = [peers EXCEPT ![b][q] = Fresh(b)]
             /\ stage' = [stage EXCEPT ![b] = Fresh(b)]
             /\ UNCHANGED shown
    BY <1>1
  <2>2. q \in Browsers /\ Fresh(b) \in Ends /\ Fresh(b) \notin DOMAIN pc /\ Fresh(b)[1] = b
    BY FreshIs DEF TypeOK
  <2>3. /\ DOMAIN pc' = DOMAIN pc \cup {Fresh(b)}
        /\ \A x \in DOMAIN pc : Kept(x)
        /\ pc'[Fresh(b)] \in Connections /\ pc'[Fresh(b)].peer = q /\ pc'[Fresh(b)].open
    BY <2>1, <2>2, NewIs DEF Made
  <2>4. \A x \in DOMAIN pc' : pc'[x] \in Connections
    BY <2>3 DEF Kept
  <2>5. peers' \in [Browsers -> [Browsers -> Ends \cup {None}]]
    BY <2>1, <2>2, TypeParts
  <2>6. ASSUME NEW d \in Browsers, NEW e \in Browsers PROVE Holds(d, e)'
    <3>1. CASE d = b /\ e = q
      <4>1. peers'[d][e] = Fresh(b)
        BY <2>1, <3>1, TypeParts
      <4> QED
        BY <2>2, <2>3, <3>1, <4>1 DEF Holds
    <3>2. CASE ~(d = b /\ e = q)
      <4>1. peers'[d][e] = peers[d][e] /\ Holds(d, e)
        BY <2>1, <3>2, TypeParts
      <4> QED
        BY <2>1, <2>3, <4>1 DEF Holds, Kept
    <3> QED
      BY <3>1, <3>2
  <2>7. ASSUME NEW d \in Browsers
        PROVE  /\ stage'[d] \in {Idle, Audio} \/ (stage'[d] \in DOMAIN pc' /\ stage'[d][1] = d)
               /\ shown'[d] => active[d]
    BY <2>1, <2>2, <2>3, TypeParts
  <2>8. targets' \in [Browsers -> SUBSET Browsers] /\ shown' \in [Browsers -> BOOLEAN]
        /\ stage' \in [Browsers -> Ends \cup {Idle, Audio}]
    BY <2>1, <2>2, TypeParts
  <2>9. DOMAIN pc \subseteq DOMAIN pc' /\ DOMAIN pc' \subseteq Ends
    BY <2>2, <2>3, TypeParts
  <2> QED
    BY <2>4, <2>5, <2>6, <2>7, <2>8, <2>9
<1>2. CASE /\ targets[b] = {} /\ NoneMade
           /\ \A x \in DOMAIN pc : pc'[x].open = pc[x].open /\ pc'[x].remote = pc[x].remote
           /\ stage' = [stage EXCEPT ![b] = Idle]
           /\ shown' = [shown EXCEPT ![b] = TRUE]
           /\ UNCHANGED <<targets, peers>>
  <2>1. ASSUME NEW d \in Browsers, NEW q \in Browsers PROVE Holds(d, q)'
    <3>1. Holds(d, q) /\ peers'[d][q] = peers[d][q]
      BY <1>2, TypeParts
    <3> QED
      BY <1>2, <3>1, HoldsStays DEF NoneMade, Kept
  <2>2. \A d \in Browsers :
          /\ stage'[d] \in {Idle, Audio} \/ (stage'[d] \in DOMAIN pc' /\ stage'[d][1] = d)
          /\ shown'[d] => active[d]
    BY <1>2, TypeParts DEF NoneMade
  <2>3. targets' \in [Browsers -> SUBSET Browsers] /\ shown' \in [Browsers -> BOOLEAN]
        /\ stage' \in [Browsers -> Ends \cup {Idle, Audio}]
        /\ peers' \in [Browsers -> [Browsers -> Ends \cup {None}]]
    BY <1>2, TypeParts
  <2>4. DOMAIN pc' = DOMAIN pc /\ \A x \in DOMAIN pc' : pc'[x] \in Connections
    BY <1>2 DEF NoneMade, Kept
  <2> QED
    BY <2>1, <2>2, <2>3, <2>4, TypeParts
<1> QED
  BY <1>1, <1>2, NextMemberIs, Zenon

\* A step that makes no connection and closes no entry of peers.
LEMMA TypedConnections ==
  ASSUME TypeOK, NoneMade,
         \A x \in DOMAIN pc : pc'[x].open = pc[x].open,
         UNCHANGED <<stage, peers, members, joinVars, callVars>>,
         pendingIce' \in [Browsers -> [Browsers -> SUBSET Ends]],
         applying' \subseteq applying, channel' = channel,
         down' \in [Browsers -> Seq(Notes)]
  PROVE  TypeOK'
<1>1. ASSUME NEW d \in Browsers, NEW q \in Browsers PROVE Holds(d, q)'
  <2>1. Holds(d, q) /\ peers'[d][q] = peers[d][q]
    BY TypeParts
  <2> QED
    BY <2>1, HoldsStays DEF NoneMade, Kept
<1>2. DOMAIN pc' = DOMAIN pc /\ \A x \in DOMAIN pc' : pc'[x] \in Connections
  BY DEF NoneMade, Kept
<1>3. UNCHANGED <<members, active, shown, joins, saw, stage, targets, peers, channel>>
  BY DEF joinVars, callVars
<1> QED
  BY <1>1, <1>2, <1>3 DEF TypeOK, Holds

LEMMA TypedJoin ==
  ASSUME TypeOK, VoiceCallAssumption, NEW b \in Browsers, Join(b) PROVE TypeOK'
<1>1. UNCHANGED <<channel, down, members, shown, pc, peers, applying, pendingIce>>
  BY DEF Join, rtcVars
<1>2. ASSUME NEW d \in Browsers, NEW q \in Browsers PROVE Holds(d, q)'
  BY <1>1, TypeParts, HoldsStays
<1>3. /\ joins' \in [Browsers -> Nat] /\ \A d \in Browsers : joins'[d] <= MaxJoins[d]
  BY TypeParts DEF Join, VoiceCallAssumption
<1>4. /\ saw' \in [Browsers -> SUBSET Browsers] /\ targets' \in [Browsers -> SUBSET Browsers]
      /\ active' \in [Browsers -> BOOLEAN] /\ stage' \in [Browsers -> Ends \cup {Idle, Audio}]
  BY TypeParts DEF Join
<1>5. \A d \in Browsers :
        /\ stage'[d] \in {Idle, Audio} \/ (stage'[d] \in DOMAIN pc /\ stage'[d][1] = d)
        /\ shown[d] => active'[d]
  BY TypeParts DEF Join
<1>6. /\ channel' \subseteq Browsers /\ down' \in [Browsers -> Seq(Notes)]
      /\ members' \in [Browsers -> SUBSET Browsers] /\ shown' \in [Browsers -> BOOLEAN]
      /\ DOMAIN pc' \subseteq Ends /\ \A x \in DOMAIN pc' : pc'[x] \in Connections
      /\ peers' \in [Browsers -> [Browsers -> Ends \cup {None}]]
      /\ pendingIce' \in [Browsers -> [Browsers -> SUBSET Ends]]
      /\ applying' \subseteq [pc : DOMAIN pc', sdp : {"offer", "answer"}, of : DOMAIN pc']
      /\ shown' = shown /\ DOMAIN pc' = DOMAIN pc
  BY <1>1, TypeParts
<1> QED
  BY <1>2, <1>3, <1>4, <1>5, <1>6 DEF TypeOK, Holds

LEMMA TypedOffering ==
  ASSUME TypeOK, Counted, NEW b \in Browsers, active[b], NEW cs, Sameish(cs), NextMember(b, cs),
         UNCHANGED <<members, active, joins, saw, applying, pendingIce>>,
         channel' \subseteq Browsers, down' \in [Browsers -> Seq(Notes)]
  PROVE  TypeOK'
<1>1. /\ targets' \in [Browsers -> SUBSET Browsers] /\ shown' \in [Browsers -> BOOLEAN]
      /\ stage' \in [Browsers -> Ends \cup {Idle, Audio}]
      /\ DOMAIN pc \subseteq DOMAIN pc' /\ DOMAIN pc' \subseteq Ends
      /\ \A x \in DOMAIN pc' : pc'[x] \in Connections
      /\ peers' \in [Browsers -> [Browsers -> Ends \cup {None}]]
      /\ \A d \in Browsers :
           /\ stage'[d] \in {Idle, Audio} \/ (stage'[d] \in DOMAIN pc' /\ stage'[d][1] = d)
           /\ shown'[d] => active[d]
           /\ \A q \in Browsers : Holds(d, q)'
  BY TypedNextMember, Zenon
<1>2. applying' \subseteq [pc : DOMAIN pc', sdp : {"offer", "answer"}, of : DOMAIN pc']
  BY <1>1, TypeParts
<1> QED
  BY <1>1, <1>2 DEF TypeOK, Holds

LEMMA TypedAudioReady ==
  ASSUME TypeOK, Counted, Phases, NEW b \in Browsers, AudioReady(b) PROVE TypeOK'
<1>1. channel' = channel \cup {b} /\ Announce("voice_peer_joined", b)
  BY DEF AudioReady, JoinVoice
<1>2. channel' \subseteq Browsers
  BY <1>1, TypeParts
<1>3. down' \in [Browsers -> Seq(Notes)]
  BY <1>1, <1>2, AnnounceIs
<1>4. active[b] /\ NextMember(b, pc) /\ Sameish(pc)
  BY AudioReadySame, Marks DEF AudioReady, Phases, Phase
<1> QED
  BY <1>2, <1>3, <1>4, TypedOffering DEF AudioReady

LEMMA TypedOfferReady ==
  ASSUME TypeOK, Counted, Phases, NEW b \in Browsers, OfferReady(b) PROVE TypeOK'
<1> DEFINE x == stage[b]
<1>1. x \in DOMAIN pc /\ x \in Ends /\ pc[x].peer \in Browsers
  BY DEF OfferReady, TypeOK, Connections
<1>2. active[b]
  BY <1>1, Marks DEF Phases, Phase
<1>3. CASE pc[x].open
  <2>1. /\ RelayVoice(b, "voice_offer", pc[x].peer, x)
        /\ NextMember(b, [pc EXCEPT ![x].local = TRUE])
    BY <1>3 DEF OfferReady
  <2>2. down' \in [Browsers -> Seq(Notes)] /\ channel' \subseteq Browsers
    BY <1>1, <2>1, RelayIs, TypeParts
  <2>3. Sameish([pc EXCEPT ![x].local = TRUE])
    BY <1>1, OfferReadySame
  <2> QED
    BY <1>2, <2>1, <2>2, <2>3, TypedOffering DEF OfferReady
<1>4. CASE ~pc[x].open
  <2>1. NextMember(b, pc) /\ UNCHANGED <<channel, down>>
    BY <1>4 DEF OfferReady
  <2>2. channel' \subseteq Browsers /\ down' \in [Browsers -> Seq(Notes)]
    BY <2>1, TypeParts
  <2> QED
    BY <1>2, <2>1, <2>2, AudioReadySame, TypedOffering DEF OfferReady
<1> QED
  BY <1>3, <1>4

LEMMA TypedLeave ==
  ASSUME TypeOK, NEW b \in Browsers, Leave(b) PROVE TypeOK'
<1>1. NoneMade
  BY LeaveIs DEF Leave
<1>2. channel' \subseteq Browsers /\ down' \in [Browsers -> Seq(Notes)]
  <2>1. channel' = channel \ {b} /\ (Announce("voice_peer_left", b) \/ UNCHANGED down)
    BY DEF Leave, LeaveVoice
  <2>2. channel' \subseteq Browsers
    BY <2>1, TypeParts
  <2>3. CASE Announce("voice_peer_left", b)
    BY <2>2, <2>3, AnnounceIs
  <2>4. CASE UNCHANGED down
    BY <2>2, <2>4, TypeParts
  <2> QED
    BY <2>1, <2>2, <2>3, <2>4
<1>3. ASSUME NEW d \in Browsers, NEW q \in Browsers PROVE Holds(d, q)'
  <2>1. CASE d = b
    <3>1. peers'[d][q] = None
      BY <2>1, TypeParts DEF Leave
    <3> QED
      BY <3>1 DEF Holds
  <2>2. CASE d # b
    <3>1. Holds(d, q) /\ peers'[d][q] = peers[d][q]
      BY <2>2, TypeParts DEF Leave
    <3>2. ASSUME NEW x \in DOMAIN pc, x = peers[d][q] PROVE pc'[x].open = pc[x].open
      <4>1. x # None /\ x[1] = d
        BY <3>1, <3>2, Marks, TypeParts DEF Holds
      <4>2. ASSUME NEW e \in Browsers PROVE peers[b][e] # x
        <5>1. Holds(b, e)
          BY TypeParts
        <5> QED
          BY <2>2, <4>1, <5>1 DEF Holds
      <4>3. pc' = CloseAll(b)
        BY DEF Leave
      <4> QED
        BY <4>2, <4>3, LeaveIs
    <3>3. \A x \in DOMAIN pc : x \in DOMAIN pc' /\ pc'[x].peer = pc[x].peer
      BY <1>1 DEF NoneMade, Kept
    <3> QED
      BY <3>1, <3>2, <3>3, HoldsStays
  <2> QED
    BY <2>1, <2>2
<1>4. DOMAIN pc' = DOMAIN pc /\ \A x \in DOMAIN pc' : pc'[x] \in Connections
  BY <1>1 DEF NoneMade, Kept
<1>5. UNCHANGED <<members, joins, saw, stage, targets, applying>>
  BY DEF Leave, joinVars
<1>6. /\ peers' \in [Browsers -> [Browsers -> Ends \cup {None}]]
      /\ pendingIce' \in [Browsers -> [Browsers -> SUBSET Ends]]
      /\ active' \in [Browsers -> BOOLEAN] /\ shown' \in [Browsers -> BOOLEAN]
      /\ \A d \in Browsers : shown'[d] => active'[d]
  BY TypeParts DEF Leave
<1> QED
  BY <1>2, <1>3, <1>4, <1>5, <1>6 DEF TypeOK, Holds

\* A connection is closed and taken out of peers.
LEMMA TypedClose ==
  ASSUME TypeOK, NEW x \in DOMAIN pc, pc' = [pc EXCEPT ![x] = Closed(@)],
         peers' = [peers EXCEPT ![x[1]][pc[x].peer] = None],
         UNCHANGED <<channel, callVars, joinVars, applying>>,
         members' \in [Browsers -> SUBSET Browsers],
         down' \in [Browsers -> Seq(Notes)],
         pendingIce' \in [Browsers -> [Browsers -> SUBSET Ends]]
  PROVE  TypeOK'
<1>1. NoneMade /\ \A y \in DOMAIN pc : y # x => pc'[y] = pc[y]
  BY CloseOne
<1>2. x[1] \in Browsers /\ pc[x].peer \in Browsers
  BY DEF TypeOK, Ends, Connections
<1>3. ASSUME NEW d \in Browsers, NEW q \in Browsers PROVE Holds(d, q)'
  <2>1. CASE d = x[1] /\ q = pc[x].peer
    <3>1. peers'[d][q] = None
      BY <1>2, <2>1, TypeParts
    <3> QED
      BY <3>1 DEF Holds
  <2>2. CASE ~(d = x[1] /\ q = pc[x].peer)
    <3>1. Holds(d, q) /\ peers'[d][q] = peers[d][q]
      BY <1>2, <2>2, TypeParts
    <3>2. peers[d][q] # x
      BY <2>2, <3>1, Marks, TypeParts DEF Holds
    <3>3. \A y \in DOMAIN pc : y \in DOMAIN pc' /\ pc'[y].peer = pc[y].peer
      BY <1>1 DEF NoneMade, Kept
    <3> QED
      BY <1>1, <3>1, <3>2, <3>3, HoldsStays
  <2> QED
    BY <2>1, <2>2
<1>4. DOMAIN pc' = DOMAIN pc /\ \A y \in DOMAIN pc' : pc'[y] \in Connections
  BY <1>1 DEF NoneMade, Kept
<1>5. UNCHANGED <<channel, active, shown, joins, saw, stage, targets, applying>>
  BY DEF callVars, joinVars
<1>6. peers' \in [Browsers -> [Browsers -> Ends \cup {None}]]
  BY <1>2, TypeParts
<1>7. /\ channel' \subseteq Browsers
      /\ saw' \in [Browsers -> SUBSET Browsers] /\ targets' \in [Browsers -> SUBSET Browsers]
      /\ active' \in [Browsers -> BOOLEAN] /\ shown' \in [Browsers -> BOOLEAN]
      /\ stage' \in [Browsers -> Ends \cup {Idle, Audio}] /\ joins' \in [Browsers -> Nat]
      /\ DOMAIN pc' \subseteq Ends
      /\ applying' \subseteq [pc : DOMAIN pc', sdp : {"offer", "answer"}, of : DOMAIN pc']
  BY <1>4, <1>5 DEF TypeOK
<1>8. ASSUME NEW d \in Browsers
      PROVE  /\ joins'[d] <= MaxJoins[d]
             /\ stage'[d] \in {Idle, Audio} \/ (stage'[d] \in DOMAIN pc' /\ stage'[d][1] = d)
             /\ shown'[d] => active'[d]
  BY <1>4, <1>5 DEF TypeOK
<1> QED
  <2>1. \A d \in Browsers :
          /\ joins'[d] <= MaxJoins[d]
          /\ stage'[d] \in {Idle, Audio} \/ (stage'[d] \in DOMAIN pc' /\ stage'[d][1] = d)
          /\ shown'[d] => active'[d]
          /\ \A q \in Browsers : Holds(d, q)'
    BY <1>3, <1>8
  <2> QED
    BY <1>4, <1>6, <1>7, <2>1, NextTypeOK

LEMMA TypedReceive ==
  ASSUME TypeOK, Counted, Routed, NEW b \in Browsers, Receive(b) PROVE TypeOK'
<1> DEFINE m == down[b][1]
           x == peers[b][m.from]
<1>1. /\ m \in Notes /\ Head(down[b]) = m /\ m.from \in Browsers /\ m.who \in SUBSET Browsers
      /\ down' \in [Browsers -> Seq(Notes)] /\ Len(down[b]) \in Nat \ {0}
  <2>1. m \in Notes /\ Head(down[b]) = m /\ down' \in [Browsers -> Seq(Notes)]
        /\ Len(down[b]) \in Nat \ {0}
    BY ReceiveIs
  <2> QED
    BY <2>1 DEF Notes
<1>2. /\ UNCHANGED <<channel, shown, joinVars>>
      /\ \/ VoiceState(b, m) \/ HandlePeerLeft(b, m)
         \/ HandleOffer(b, m) \/ HandleAnswer(b, m) \/ HandleIce(b, m)
  BY <1>1 DEF Receive
<1>3. /\ Holds(b, m.from) /\ x \in Ends \cup {None}
      /\ m.type \in {"voice_offer", "voice_answer", "voice_ice"} => m.pc \in DOMAIN pc
  <2>1. Holds(b, m.from) /\ x \in Ends \cup {None}
    BY <1>1, TypeParts
  <2>2. 1 \in 1..Len(down[b])
    BY <1>1
  <2> QED
    BY <2>1, <2>2 DEF Routed, Proper
<1>4. UNCHANGED <<channel, shown, joins, saw, stage, targets>>
  BY <1>2 DEF joinVars
<1> HIDE DEF m, x
<1>5. CASE VoiceState(b, m)
  <2>1. members' \in [Browsers -> SUBSET Browsers]
    BY <1>1, <1>5, TypeParts DEF VoiceState
  <2>2. UNCHANGED <<active, pc, peers, applying, pendingIce>>
    BY <1>5 DEF VoiceState, rtcVars
  <2> QED
    BY <1>1, <1>4, <2>1, <2>2 DEF TypeOK
<1>6. CASE HandlePeerLeft(b, m)
  <2>1. /\ members' \in [Browsers -> SUBSET Browsers]
        /\ pendingIce' \in [Browsers -> [Browsers -> SUBSET Ends]]
    BY <1>1, <1>6, TypeParts DEF HandlePeerLeft
  <2>2. CASE x = None
    <3>1. pc' = pc /\ UNCHANGED <<active, applying>>
      BY <1>6, <2>2 DEF HandlePeerLeft, x
    <3>2. peers' = peers
      BY <1>1, <1>6, <2>2, TypeParts DEF HandlePeerLeft, x
    <3> QED
      BY <1>1, <1>4, <2>1, <3>1, <3>2 DEF TypeOK
  <2>3. CASE x # None
    <3>1. x \in DOMAIN pc /\ x[1] = b /\ pc[x].peer = m.from
      BY <1>3, <2>3 DEF Holds, x
    <3>2. /\ pc' = [pc EXCEPT ![x] = Closed(@)]
          /\ peers' = [peers EXCEPT ![x[1]][pc[x].peer] = None]
          /\ UNCHANGED <<active, applying>>
      BY <1>6, <2>3, <3>1 DEF HandlePeerLeft, x
    <3> QED
      BY <1>1, <1>2, <2>1, <3>1, <3>2, TypedClose DEF callVars
  <2> QED
    BY <2>2, <2>3
<1>7. CASE HandleOffer(b, m)
  <2>1. UNCHANGED <<active, members, pendingIce>>
    BY <1>7 DEF HandleOffer
  <2>2. CASE ~active[b]
    <3>1. UNCHANGED <<pc, peers, applying>>
      BY <1>7, <2>2 DEF HandleOffer
    <3> QED
      BY <1>1, <1>4, <2>1, <3>1 DEF TypeOK
  <2>3. CASE active[b]
    <3>1. /\ pc' = WithNew(pc, b, m.from)
          /\ peers' = [peers EXCEPT ![b][m.from] = Fresh(b)]
          /\ applying' = applying \cup {[pc |-> Fresh(b), sdp |-> "offer", of |-> m.pc]}
          /\ m.type = "voice_offer"
      BY <1>7, <2>3 DEF HandleOffer
    <3>2. Fresh(b) \in Ends /\ Fresh(b) \notin DOMAIN pc /\ Fresh(b)[1] = b
      BY FreshIs
    <3>3. /\ DOMAIN pc' = DOMAIN pc \cup {Fresh(b)}
          /\ \A y \in DOMAIN pc : pc'[y] = pc[y]
          /\ pc'[Fresh(b)] = [New EXCEPT !.peer = m.from]
      BY <1>1, <3>1, WithNewIs
    <3>4. /\ pc'[Fresh(b)] \in Connections /\ pc'[Fresh(b)].peer = m.from
          /\ pc'[Fresh(b)].open
      BY <1>1, <3>3, NewIs
    <3>5. DOMAIN pc' \subseteq Ends /\ \A y \in DOMAIN pc' : pc'[y] \in Connections
      BY <3>2, <3>3, <3>4, TypeParts
    <3>6. peers' \in [Browsers -> [Browsers -> Ends \cup {None}]]
      BY <1>1, <3>1, <3>2, TypeParts
    <3>7. applying' \subseteq [pc : DOMAIN pc', sdp : {"offer", "answer"}, of : DOMAIN pc']
      BY <1>3, <3>1, <3>3, TypeParts
    <3>8. ASSUME NEW d \in Browsers, NEW q \in Browsers PROVE Holds(d, q)'
      <4>1. CASE d = b /\ q = m.from
        <5>1. peers'[d][q] = Fresh(b)
          BY <3>1, <4>1, TypeParts
        <5> QED
          BY <3>2, <3>3, <3>4, <4>1, <5>1 DEF Holds
      <4>2. CASE ~(d = b /\ q = m.from)
        <5>1. Holds(d, q) /\ peers'[d][q] = peers[d][q]
          BY <1>1, <3>1, <4>2, TypeParts
        <5> QED
          BY <3>3, <5>1, HoldsStays
      <4> QED
        BY <4>1, <4>2
    <3>9. \A d \in Browsers :
            stage'[d] \in {Idle, Audio} \/ (stage'[d] \in DOMAIN pc' /\ stage'[d][1] = d)
      BY <1>4, <3>3, TypeParts
    <3> QED
      BY <1>1, <1>4, <2>1, <3>5, <3>6, <3>7, <3>8, <3>9 DEF TypeOK, Holds
  <2> QED
    BY <2>2, <2>3
<1>8. CASE HandleAnswer(b, m)
  <2>1. UNCHANGED <<active, members, pc, peers, pendingIce>>
    BY <1>8 DEF HandleAnswer
  <2>2. applying' \subseteq [pc : DOMAIN pc', sdp : {"offer", "answer"}, of : DOMAIN pc']
    <3>1. CASE x = None
      BY <1>8, <2>1, <3>1, TypeParts DEF HandleAnswer, x
    <3>2. CASE x # None
      <4>1. x \in DOMAIN pc /\ m.pc \in DOMAIN pc
        BY <1>3, <1>8, <3>2 DEF Holds, HandleAnswer, x
      <4>2. applying' = applying \cup {[pc |-> x, sdp |-> "answer", of |-> m.pc]}
        BY <1>8, <3>2 DEF HandleAnswer, x
      <4> QED
        BY <2>1, <4>1, <4>2, TypeParts
    <3> QED
      BY <3>1, <3>2
  <2> QED
    BY <1>1, <1>4, <2>1, <2>2 DEF TypeOK
<1>9. CASE HandleIce(b, m)
  <2>1. UNCHANGED <<active, members, peers, applying>>
    BY <1>9 DEF HandleIce
  <2>2. m.pc \in Ends
    BY <1>3, <1>9, TypeParts DEF HandleIce
  <2>3. CASE x = None \/ pc[x].remote = None
    <3>1. pc' = pc /\ pendingIce' = [pendingIce EXCEPT ![b][m.from] = @ \cup {m.pc}]
      BY <1>9, <2>3 DEF HandleIce, x
    <3>2. pendingIce' \in [Browsers -> [Browsers -> SUBSET Ends]]
      BY <1>1, <2>2, <3>1, TypeParts
    <3> QED
      BY <1>1, <1>4, <2>1, <3>1, <3>2 DEF TypeOK
  <2>4. CASE ~(x = None \/ pc[x].remote = None)
    <3>1. x \in DOMAIN pc
      BY <1>3, <2>4 DEF Holds, x
    <3>2. pc' = [pc EXCEPT ![x].ice = @ \cup {m.pc}] /\ UNCHANGED pendingIce
      BY <1>9, <2>4 DEF HandleIce, x
    <3>3. AddedIce(x, m.pc)
      BY <3>2 DEF AddedIce
    <3>4. NoneMade /\ \A y \in DOMAIN pc : pc'[y].open = pc[y].open
      BY <2>2, <3>1, <3>3, AddedIceIs
    <3> QED
      BY <1>1, <1>2, <1>4, <2>1, <3>2, <3>4, TypedConnections, TypeParts DEF callVars
  <2> QED
    BY <2>3, <2>4
<1> QED
  BY <1>2, <1>5, <1>6, <1>7, <1>8, <1>9

LEMMA TypedDescribed ==
  ASSUME TypeOK, NEW d \in applying, Described(d) PROVE TypeOK'
<1> DEFINE x == d.pc
<1>1. /\ x \in DOMAIN pc /\ d.of \in DOMAIN pc /\ x \in Ends /\ x[1] \in Browsers
      /\ pc[x].peer \in Browsers
  BY DEF TypeOK, Ends, Connections
<1>2. /\ UNCHANGED <<members, callVars, joinVars, peers>>
      /\ applying' \subseteq applying
      /\ SetRemote(x, d.of) \/ UNCHANGED <<pc, pendingIce>>
      /\ RelayVoice(x[1], "voice_answer", pc[x].peer, x) \/ UNCHANGED <<channel, down>>
  BY DEF Described
<1> HIDE DEF x
<1>3. channel' = channel /\ down' \in [Browsers -> Seq(Notes)]
  <2>1. CASE RelayVoice(x[1], "voice_answer", pc[x].peer, x)
    BY <1>1, <2>1, RelayIs
  <2>2. CASE UNCHANGED <<channel, down>>
    BY <2>2, TypeParts
  <2> QED
    BY <1>2, <2>1, <2>2
<1>4. /\ NoneMade /\ \A y \in DOMAIN pc : pc'[y].open = pc[y].open
      /\ pendingIce' \in [Browsers -> [Browsers -> SUBSET Ends]]
  <2>1. CASE SetRemote(x, d.of)
    BY <1>1, <2>1, SetRemoteIs
  <2>2. CASE UNCHANGED <<pc, pendingIce>>
    BY <2>2, TypeParts DEF NoneMade, Kept
  <2> QED
    BY <1>2, <2>1, <2>2
<1>5. stage' = stage
  BY <1>2 DEF joinVars
<1> QED
  BY <1>2, <1>3, <1>4, <1>5, TypedConnections

LEMMA TypedIceCandidate ==
  ASSUME TypeOK, NEW x \in DOMAIN pc, OnIceCandidate(x) PROVE TypeOK'
<1>1. x \in Ends /\ x[1] \in Browsers /\ pc[x].peer \in Browsers
  BY DEF TypeOK, Ends, Connections
<1>2. /\ UNCHANGED <<members, callVars, joinVars, peers, applying, pendingIce>>
      /\ pc' = [pc EXCEPT ![x].gathered = TRUE]
      /\ RelayVoice(x[1], "voice_ice", pc[x].peer, x) \/ UNCHANGED <<channel, down>>
  BY DEF OnIceCandidate
<1>3. channel' = channel /\ down' \in [Browsers -> Seq(Notes)]
  <2>1. CASE RelayVoice(x[1], "voice_ice", pc[x].peer, x)
    BY <1>1, <2>1, RelayIs
  <2>2. CASE UNCHANGED <<channel, down>>
    BY <2>2, TypeParts
  <2> QED
    BY <1>2, <2>1, <2>2
<1>4. NoneMade /\ \A y \in DOMAIN pc : pc'[y].open = pc[y].open
  BY <1>2, GatheredIs
<1>5. stage' = stage /\ pendingIce' \in [Browsers -> [Browsers -> SUBSET Ends]]
  BY <1>2, TypeParts DEF joinVars
<1> QED
  BY <1>2, <1>3, <1>4, <1>5, TypedConnections

LEMMA TypedFailed ==
  ASSUME TypeOK, NEW x \in DOMAIN pc, OnFailed(x) PROVE TypeOK'
<1>1. /\ pc' = [pc EXCEPT ![x] = Closed(@)]
      /\ peers' = [peers EXCEPT ![x[1]][pc[x].peer] = None]
      /\ UNCHANGED <<channel, down, members, callVars, joinVars, applying, pendingIce>>
  BY DEF OnFailed
<1>2. /\ members' \in [Browsers -> SUBSET Browsers] /\ down' \in [Browsers -> Seq(Notes)]
      /\ pendingIce' \in [Browsers -> [Browsers -> SUBSET Ends]]
  BY <1>1, TypeParts
<1> QED
  BY <1>1, <1>2, TypedClose

LEMMA TypedStutter ==
  ASSUME TypeOK, UNCHANGED vars PROVE TypeOK'
BY DEF TypeOK, vars, callVars, joinVars, rtcVars

LEMMA StepTypeOK ==
  ASSUME CallInv, VoiceCallAssumption, [Next]_vars PROVE TypeOK'
<1> USE DEF CallInv
<1>1. ASSUME NEW b \in Browsers, Join(b) \/ AudioReady(b) \/ OfferReady(b) \/ Leave(b) \/ Receive(b)
      PROVE  TypeOK'
  BY <1>1, TypedJoin, TypedAudioReady, TypedOfferReady, TypedLeave, TypedReceive
<1>2. ASSUME NEW d \in applying, Described(d) PROVE TypeOK'
  BY <1>2, TypedDescribed
<1>3. ASSUME NEW x \in DOMAIN pc, OnIceCandidate(x) \/ OnFailed(x) PROVE TypeOK'
  BY <1>3, TypedIceCandidate, TypedFailed
<1>4. CASE UNCHANGED vars
  BY <1>4, TypedStutter
<1> QED
  BY <1>1, <1>2, <1>3, <1>4 DEF Next

-----------------------------------------------------------------------------
(* The connections and their numbers *)

\* The description of a connection is forgotten, or set by the step.
RemoteKept(x) == pc'[x].remote \in {pc[x].remote, None}
RemoteSet(x) == \E d \in applying : d.pc = x /\ pc'[x].remote = d.of

\* One of them was shown the other.
Shown(b, q) == q \in saw[b] \/ b \in saw[q]

\* Every step makes one connection at most, and sets descriptions that are being
\* set.
LEMMA StepConnections ==
  ASSUME CallInv, [Next]_vars
  PROVE  /\ NoneMade \/ \E b, q \in Browsers : Made(b, q) /\ Shown(b, q)
         /\ \A x \in DOMAIN pc : RemoteKept(x) \/ RemoteSet(x)
<1> USE DEF CallInv
<1>1. ASSUME pc' = pc PROVE NoneMade /\ \A x \in DOMAIN pc : RemoteKept(x)
  BY <1>1, TypeParts DEF NoneMade, Kept, RemoteKept
<1>2. ASSUME NEW b \in Browsers, NEW cs, Sameish(cs), NextMember(b, cs)
      PROVE  /\ NoneMade \/ \E q \in Browsers : Made(b, q) /\ Shown(b, q)
             /\ \A x \in DOMAIN pc : RemoteKept(x)
  <2>1. targets[b] \subseteq Browsers /\ targets[b] \subseteq saw[b]
    BY TypeParts DEF Phases, Phase
  <2>2. (NoneMade \/ \E q \in targets[b] : Made(b, q))
        /\ \A x \in DOMAIN pc : pc'[x].remote = pc[x].remote
    BY <1>2, NextMemberIs
  <2> QED
    BY <2>1, <2>2 DEF RemoteKept, Shown
<1>3. ASSUME NEW x \in DOMAIN pc, pc' = [pc EXCEPT ![x] = Closed(@)]
      PROVE  NoneMade /\ \A y \in DOMAIN pc : RemoteKept(y)
  BY <1>3, CloseOne DEF RemoteKept
<1>4. ASSUME NEW b \in Browsers, Join(b) PROVE pc' = pc
  BY <1>4 DEF Join, rtcVars
<1>5. ASSUME NEW b \in Browsers, AudioReady(b) PROVE NextMember(b, pc) /\ Sameish(pc)
  BY <1>5, AudioReadySame DEF AudioReady
<1>6. ASSUME NEW b \in Browsers, OfferReady(b)
      PROVE  \E cs : Sameish(cs) /\ NextMember(b, cs)
  BY <1>6, AudioReadySame, OfferReadySame DEF OfferReady
<1>7. ASSUME NEW b \in Browsers, Leave(b)
      PROVE  NoneMade /\ \A x \in DOMAIN pc : RemoteKept(x)
  <2>1. pc' = CloseAll(b)
    BY <1>7 DEF Leave
  <2> QED
    BY <2>1, LeaveIs DEF RemoteKept
<1>8. ASSUME NEW b \in Browsers, Receive(b)
      PROVE  /\ NoneMade \/ \E q \in Browsers : Made(b, q) /\ Shown(b, q)
             /\ \A x \in DOMAIN pc : RemoteKept(x)
  <2> DEFINE m == down[b][1]
             x == peers[b][m.from]
  <2>1. m \in Notes /\ Head(down[b]) = m /\ 1 \in 1..Len(down[b])
    <3>1. m \in Notes /\ Head(down[b]) = m /\ Len(down[b]) \in Nat \ {0}
      BY <1>8, ReceiveIs
    <3> QED
      BY <3>1
  <2>2. m.from \in Browsers
    BY <2>1 DEF Notes
  <2>3. \/ VoiceState(b, m) \/ HandlePeerLeft(b, m)
        \/ HandleOffer(b, m) \/ HandleAnswer(b, m) \/ HandleIce(b, m)
    BY <1>8, <2>1 DEF Receive
  <2>4. Holds(b, m.from)
    BY <2>2, TypeParts
  <2> HIDE DEF m, x
  <2>5. CASE VoiceState(b, m) \/ HandleAnswer(b, m)
    BY <1>1, <2>5 DEF VoiceState, HandleAnswer, rtcVars
  <2>6. CASE HandlePeerLeft(b, m)
    <3>1. pc' = pc \/ (x \in DOMAIN pc /\ pc' = [pc EXCEPT ![x] = Closed(@)])
      BY <2>4, <2>6 DEF HandlePeerLeft, Holds, x
    <3> QED
      BY <1>1, <1>3, <3>1
  <2>7. CASE HandleOffer(b, m)
    <3>1. CASE pc' = WithNew(pc, b, m.from)
      <4>1. /\ DOMAIN pc' = DOMAIN pc \cup {Fresh(b)}
            /\ \A y \in DOMAIN pc : pc'[y] = pc[y]
            /\ pc'[Fresh(b)] = [New EXCEPT !.peer = m.from]
        BY <2>2, <3>1, WithNewIs
      <4>2. \A y \in DOMAIN pc : Kept(y) /\ RemoteKept(y)
        BY <4>1, TypeParts DEF Kept, RemoteKept
      <4>3. Shown(b, m.from)
        <5>1. down[b][1] = m /\ 1 \in 1..Len(down[b]) /\ m.type = "voice_offer"
          BY <2>1, <2>7 DEF m, HandleOffer
        <5>2. Proper(b, m)
          BY <5>1 DEF Routed
        <5> QED
          BY <5>1, <5>2 DEF Proper, Shown
      <4> QED
        BY <2>2, <4>1, <4>2, <4>3 DEF Made
    <3>2. pc' = pc \/ pc' = WithNew(pc, b, m.from)
      BY <2>7 DEF HandleOffer
    <3> QED
      BY <1>1, <3>1, <3>2
  <2>8. CASE HandleIce(b, m)
    <3>1. CASE pc' = pc
      BY <1>1, <3>1
    <3>2. CASE pc' # pc
      <4>1. x # None /\ AddedIce(x, m.pc)
        BY <2>8, <3>2 DEF HandleIce, x, AddedIce
      <4>2. x \in DOMAIN pc
        BY <2>4, <4>1 DEF Holds, x
      <4>3. m.pc \in Ends
        <5>1. down[b][1] = m /\ 1 \in 1..Len(down[b]) /\ m.type = "voice_ice"
          BY <2>1, <2>8 DEF m, HandleIce
        <5>2. Proper(b, m)
          BY <5>1 DEF Routed
        <5>3. m.pc \in DOMAIN pc
          BY <5>1, <5>2 DEF Proper
        <5> QED
          BY <5>3, TypeParts
      <4>4. NoneMade /\ \A z \in DOMAIN pc : pc'[z].remote = pc[z].remote
        BY <4>1, <4>2, <4>3, AddedIceIs
      <4> QED
        BY <4>4 DEF RemoteKept
    <3> QED
      BY <3>1, <3>2
  <2> QED
    BY <2>3, <2>5, <2>6, <2>7, <2>8
<1>9. ASSUME NEW d \in applying, Described(d)
      PROVE  NoneMade /\ \A x \in DOMAIN pc : RemoteKept(x) \/ RemoteSet(x)
  <2>1. d.pc \in DOMAIN pc /\ d.of \in DOMAIN pc
    BY DEF TypeOK
  <2>2. SetRemote(d.pc, d.of) \/ pc' = pc
    BY <1>9 DEF Described
  <2>3. CASE SetRemote(d.pc, d.of)
    BY <2>1, <2>3, SetRemoteIs DEF RemoteKept, RemoteSet
  <2> QED
    BY <1>1, <2>2, <2>3
<1>10. ASSUME NEW x \in DOMAIN pc, OnIceCandidate(x) \/ OnFailed(x)
       PROVE  NoneMade /\ \A y \in DOMAIN pc : RemoteKept(y)
  <2>1. CASE OnIceCandidate(x)
    BY <2>1, GatheredIs DEF OnIceCandidate, RemoteKept
  <2>2. CASE OnFailed(x)
    BY <1>3, <2>2 DEF OnFailed
  <2> QED
    BY <1>10, <2>1, <2>2
<1>11. CASE UNCHANGED vars
  BY <1>1, <1>11 DEF vars, rtcVars
<1> QED
  <2>1. ASSUME NEW b \in Browsers, Join(b) \/ AudioReady(b) \/ OfferReady(b) \/ Leave(b) \/ Receive(b)
        PROVE  /\ NoneMade \/ \E q \in Browsers : Made(b, q) /\ Shown(b, q)
               /\ \A x \in DOMAIN pc : RemoteKept(x)
    BY <1>1, <1>2, <1>4, <1>5, <1>6, <1>7, <1>8, <2>1
  <2> QED
    BY <1>9, <1>10, <1>11, <2>1 DEF Next

\* Own and Of after a step that makes no connection, or one.
LEMMA OfNoneMade ==
  ASSUME TypeOK, NoneMade, NEW b, NEW q
  PROVE  Own(b)' = Own(b) /\ Of(b, q)' = Of(b, q)
BY DEF NoneMade, Kept, Own, Of

LEMMA OfMade ==
  ASSUME TypeOK, Counted, NEW b \in Browsers, NEW q \in Browsers, Made(b, q), NEW d, NEW e
  PROVE  /\ Own(d)' = IF d = b THEN Own(b) \cup {Fresh(b)} ELSE Own(d)
         /\ Of(d, e)' = IF d = b /\ e = q THEN Of(b, q) \cup {Fresh(b)} ELSE Of(d, e)
         /\ Fresh(b) \notin Own(b)
<1>1. /\ Fresh(b) \notin DOMAIN pc /\ Fresh(b)[1] = b
      /\ DOMAIN pc' = DOMAIN pc \cup {Fresh(b)}
      /\ \A x \in DOMAIN pc : pc'[x].peer = pc[x].peer
      /\ pc'[Fresh(b)].peer = q
  BY FreshIs, NewIs DEF Made, Kept
<1> QED
  BY <1>1 DEF Own, Of

LEMMA StepCounted ==
  ASSUME CallInv, [Next]_vars PROVE Counted'
<1> USE DEF CallInv
<1>1. CASE NoneMade
  BY <1>1, OfNoneMade DEF Counted, NoneMade
<1>2. ASSUME NEW b \in Browsers, NEW q \in Browsers, Made(b, q) PROVE Counted'
  <2>1. /\ Fresh(b)[1] = b /\ Fresh(b)[2] = Cardinality(Own(b)) + 1
        /\ IsFiniteSet(Own(b)) /\ Cardinality(Own(b)) \in Nat
    BY FreshIs
  <2>2. /\ DOMAIN pc' = DOMAIN pc \cup {Fresh(b)}
        /\ Own(b)' = Own(b) \cup {Fresh(b)} /\ Fresh(b) \notin Own(b)
        /\ \A d : d # b => Own(d)' = Own(d)
    <3>1. \A d : d # b => Own(d)' = Own(d)
      BY <1>2, OfMade
    <3> QED
      BY <1>2, <3>1, OfMade DEF Made
  <2>3. Cardinality(Own(b)') = Cardinality(Own(b)) + 1
    BY <2>1, <2>2, FS_AddElement
  <2>4. IsFiniteSet(DOMAIN pc')
    BY <2>2, FS_AddElement DEF Counted
  <2>5. ASSUME NEW x \in DOMAIN pc' PROVE x[2] <= Cardinality(Own(x[1])')
    <3>1. CASE x = Fresh(b)
      BY <2>1, <2>3, <3>1
    <3>2. CASE x \in DOMAIN pc /\ x[1] = b
      <4>1. x[2] <= Cardinality(Own(b)) /\ x[2] \in Nat
        BY <3>2, TypeParts DEF Counted, Ends
      <4> QED
        BY <2>1, <2>3, <3>2, <4>1
    <3>3. CASE x \in DOMAIN pc /\ x[1] # b
      BY <2>2, <3>3 DEF Counted
    <3> QED
      BY <2>2, <3>1, <3>2, <3>3
  <2> QED
    BY <2>4, <2>5 DEF Counted
<1> QED
  BY <1>1, <1>2, StepConnections

-----------------------------------------------------------------------------
(* Phases *)

LEMMA PhaseStays ==
  ASSUME TypeOK, TypeOK', NEW d \in Browsers, Phase(d), \A x \in DOMAIN pc : Kept(x),
         active'[d] = active[d], shown'[d] = shown[d], stage'[d] = stage[d],
         targets'[d] = targets[d], saw'[d] = saw[d], joins'[d] = joins[d],
         d \in channel' <=> d \in channel,
         ~active[d] => \A q \in Browsers : peers'[d][q] = None
  PROVE  Phase(d)'
<1>1. stage'[d] \in DOMAIN pc' =>
        stage[d] \in DOMAIN pc /\ pc'[stage'[d]].peer = pc[stage[d]].peer
  <2>1. Idle \notin DOMAIN pc' /\ Audio \notin DOMAIN pc'
    BY Marks DEF TypeOK
  <2>2. stage[d] \in {Idle, Audio} \/ stage[d] \in DOMAIN pc
    BY TypeParts
  <2> QED
    BY <2>1, <2>2 DEF Kept
<1> QED
  BY <1>1 DEF Phase

LEMMA PhasesOffering ==
  ASSUME CallInv, TypeOK', NEW b \in Browsers, stage[b] # Idle, NEW cs, Sameish(cs), NextMember(b, cs),
         UNCHANGED <<members, active, joins, saw, applying, pendingIce>>,
         channel' = channel \cup {b}
  PROVE  Phases'
<1> USE DEF CallInv, Phases
<1>1. active[b] /\ ~shown[b] /\ targets[b] \subseteq saw[b] /\ joins[b] # 0
  BY DEF Phase
<1>2. CASE \E q \in targets[b] :
             /\ targets' = [targets EXCEPT ![b] = @ \ {q}]
             /\ Made(b, q)
             /\ \A x \in DOMAIN pc : pc'[x].open = pc[x].open /\ pc'[x].remote = pc[x].remote
             /\ peers' = [peers EXCEPT ![b][q] = Fresh(b)]
             /\ stage' = [stage EXCEPT ![b] = Fresh(b)]
             /\ UNCHANGED shown
  <2>1. PICK q \in targets[b] :
             /\ targets' = [targets EXCEPT ![b] = @ \ {q}]
             /\ Made(b, q)
             /\ peers' = [peers EXCEPT ![b][q] = Fresh(b)]
             /\ stage' = [stage EXCEPT ![b] = Fresh(b)]
             /\ UNCHANGED shown
    BY <1>2
  <2>2. /\ q \in Browsers /\ Fresh(b) \in Ends /\ Fresh(b) # Idle /\ Fresh(b) # Audio
        /\ pc'[Fresh(b)].peer = q /\ \A x \in DOMAIN pc : Kept(x)
    <3>1. q \in Browsers
      BY TypeParts
    <3> QED
      BY <2>1, <3>1, FreshIs, NewIs, Marks DEF Made
  <2>3. /\ targets'[b] = targets[b] \ {q} /\ stage'[b] = Fresh(b)
        /\ active'[b] = active[b] /\ shown'[b] = shown[b]
        /\ saw'[b] = saw[b] /\ joins'[b] = joins[b] /\ b \in channel'
    BY <2>1, TypeParts
  <2>4. Phase(b)'
    BY <1>1, <2>2, <2>3 DEF Phase
  <2>5. ASSUME NEW d \in Browsers \ {b} PROVE Phase(d)'
    <3>1. \A e \in Browsers : peers'[d][e] = peers[d][e]
      BY <2>1, TypeParts
    <3>2. targets'[d] = targets[d] /\ stage'[d] = stage[d] /\ (d \in channel' <=> d \in channel)
      BY <2>1, TypeParts
    <3>3. ~active[d] => \A e \in Browsers : peers'[d][e] = None
      BY <3>1 DEF Phase
    <3> QED
      BY <2>1, <2>2, <3>2, <3>3, PhaseStays
  <2> QED
    BY <2>4, <2>5
<1>3. CASE /\ targets[b] = {} /\ NoneMade
           /\ \A x \in DOMAIN pc : pc'[x].open = pc[x].open /\ pc'[x].remote = pc[x].remote
           /\ stage' = [stage EXCEPT ![b] = Idle]
           /\ shown' = [shown EXCEPT ![b] = TRUE]
           /\ UNCHANGED <<targets, peers>>
  <2>1. stage'[b] = Idle /\ shown'[b] /\ targets'[b] = {} /\ b \in channel'
    BY <1>3, TypeParts
  <2>2. Idle \notin DOMAIN pc' /\ Idle # Audio
    BY <1>3, Marks, TypeParts DEF NoneMade
  <2>3. Phase(b)'
    BY <1>1, <2>1, <2>2 DEF Phase
  <2>4. ASSUME NEW d \in Browsers \ {b} PROVE Phase(d)'
    <3>1. shown'[d] = shown[d] /\ stage'[d] = stage[d] /\ (d \in channel' <=> d \in channel)
      BY <1>3, TypeParts
    <3>2. ~active[d] => \A e \in Browsers : peers'[d][e] = None
      BY <1>3 DEF Phase
    <3> QED
      BY <1>3, <3>1, <3>2, PhaseStays DEF NoneMade
  <2> QED
    BY <2>3, <2>4
<1> QED
  BY <1>2, <1>3, NextMemberIs, Zenon

LEMMA StepPhases ==
  ASSUME CallInv, VoiceCallAssumption, [Next]_vars PROVE Phases'
<1> USE DEF CallInv, Phases
<1>0. TypeOK' /\ \A x \in DOMAIN pc : Kept(x)
  BY StepTypeOK, StepConnections DEF NoneMade, Made
<1>1. ASSUME NEW b \in Browsers, Join(b) PROVE Phases'
  <2>1. /\ stage[b] = Idle /\ ~shown[b] /\ UNCHANGED <<channel, shown, peers, pc>>
        /\ joins' = [joins EXCEPT ![b] = @ + 1]
        /\ saw' = [saw EXCEPT ![b] = @ \cup members[b]]
        /\ targets' = [targets EXCEPT ![b] = members[b]]
        /\ stage' = [stage EXCEPT ![b] = Audio]
        /\ active' = [active EXCEPT ![b] = TRUE]
    BY <1>1 DEF Join, rtcVars
  <2>2. ~active[b] /\ b \notin channel
    BY <2>1 DEF Phase
  <2>3. /\ joins'[b] = joins[b] + 1 /\ joins[b] \in Nat /\ saw'[b] = saw[b] \cup members[b]
        /\ targets'[b] = members[b] /\ stage'[b] = Audio /\ active'[b] /\ ~shown'[b]
    BY <2>1, TypeParts
  <2>4. joins'[b] # 0
    BY <2>3
  <2>5. Audio # Idle /\ Audio \notin DOMAIN pc'
    BY <2>1, Marks, TypeParts
  <2>6. Phase(b)'
    BY <2>1, <2>2, <2>3, <2>4, <2>5 DEF Phase
  <2>7. ASSUME NEW d \in Browsers \ {b} PROVE Phase(d)'
    <3>1. /\ active'[d] = active[d] /\ stage'[d] = stage[d] /\ targets'[d] = targets[d]
          /\ saw'[d] = saw[d] /\ joins'[d] = joins[d] /\ shown'[d] = shown[d]
      BY <2>1, TypeParts
    <3>2. ~active[d] => \A q \in Browsers : peers'[d][q] = None
      BY <2>1 DEF Phase
    <3> QED
      BY <1>0, <2>1, <3>1, <3>2, PhaseStays
  <2> QED
    BY <2>6, <2>7
<1>2. ASSUME NEW b \in Browsers, AudioReady(b) PROVE Phases'
  <2>1. stage[b] # Idle /\ channel' = channel \cup {b} /\ NextMember(b, pc) /\ Sameish(pc)
    BY <1>2, Marks, AudioReadySame DEF AudioReady, JoinVoice
  <2> QED
    BY <1>0, <1>2, <2>1, PhasesOffering DEF AudioReady
<1>3. ASSUME NEW b \in Browsers, OfferReady(b) PROVE Phases'
  <2>1. stage[b] \in DOMAIN pc /\ stage[b] # Idle /\ stage[b] # Audio
    BY <1>3, Marks, TypeParts DEF OfferReady
  <2>2. PICK cs : Sameish(cs) /\ NextMember(b, cs)
    BY <1>3, <2>1, AudioReadySame, OfferReadySame DEF OfferReady
  <2>3. channel' = channel
    BY <1>3 DEF OfferReady, RelayVoice
  <2>4. b \in channel
    BY <2>1 DEF Phase
  <2>5. channel' = channel \cup {b}
    BY <2>3, <2>4
  <2> QED
    BY <1>0, <1>3, <2>1, <2>2, <2>5, PhasesOffering DEF OfferReady
<1>4. ASSUME NEW b \in Browsers, Leave(b) PROVE Phases'
  <2>1. /\ stage[b] = Idle /\ shown[b]
        /\ peers' = [peers EXCEPT ![b] = [q \in Browsers |-> None]]
        /\ active' = [active EXCEPT ![b] = FALSE]
        /\ shown' = [shown EXCEPT ![b] = FALSE]
        /\ channel' = channel \ {b} /\ UNCHANGED <<joins, saw, stage, targets>>
    BY <1>4 DEF Leave, LeaveVoice, joinVars
  <2>2. /\ ~active'[b] /\ ~shown'[b] /\ stage'[b] = Idle /\ b \notin channel'
        /\ \A q \in Browsers : peers'[b][q] = None
    BY <2>1, TypeParts
  <2>3. Idle \notin DOMAIN pc'
    <3>1. DOMAIN pc' = DOMAIN pc
      BY <1>4, LeaveIs DEF Leave, NoneMade
    <3> QED
      BY <3>1, Marks, TypeParts
  <2>4. Phase(b)'
    BY <2>1, <2>2, <2>3 DEF Phase
  <2>5. ASSUME NEW d \in Browsers \ {b} PROVE Phase(d)'
    <3>1. /\ active'[d] = active[d] /\ shown'[d] = shown[d] /\ (d \in channel' <=> d \in channel)
          /\ \A q \in Browsers : peers'[d][q] = peers[d][q]
      BY <2>1, TypeParts
    <3>2. ~active[d] => \A q \in Browsers : peers'[d][q] = None
      BY <3>1 DEF Phase
    <3> QED
      BY <1>0, <2>1, <3>1, <3>2, PhaseStays
  <2> QED
    BY <2>4, <2>5
<1>5. ASSUME UNCHANGED <<channel, active, shown, joins, saw, stage, targets>>,
             \A d, q \in Browsers : active[d] \/ peers'[d][q] \in {None, peers[d][q]}
      PROVE  Phases'
  <2> SUFFICES ASSUME NEW d \in Browsers PROVE Phase(d)'
    OBVIOUS
  <2>1. ~active[d] => \A q \in Browsers : peers'[d][q] = None
    BY <1>5 DEF Phase
  <2> QED
    BY <1>0, <1>5, <2>1, PhaseStays
<1>6. ASSUME NEW b \in Browsers, Receive(b) PROVE Phases'
  <2> DEFINE m == down[b][1]
  <2>1. m \in Notes /\ Head(down[b]) = m
    BY <1>6, ReceiveIs
  <2>2. m.from \in Browsers
    BY <2>1 DEF Notes
  <2>3. /\ UNCHANGED <<channel, active, shown, joins, saw, stage, targets>>
        /\ \/ UNCHANGED peers
           \/ peers' = [peers EXCEPT ![b][m.from] = None]
           \/ active[b] /\ peers' = [peers EXCEPT ![b][m.from] = Fresh(b)]
    BY <1>6, <2>1 DEF Receive, joinVars, VoiceState, HandlePeerLeft, HandleOffer, HandleAnswer,
                      HandleIce, rtcVars
  <2> HIDE DEF m
  <2>4. \A d, q \in Browsers : active[d] \/ peers'[d][q] \in {None, peers[d][q]}
    <3>1. CASE UNCHANGED peers
      BY <3>1
    <3>2. CASE peers' = [peers EXCEPT ![b][m.from] = None]
      BY <2>2, <3>2, TypeParts
    <3>3. CASE active[b] /\ peers' = [peers EXCEPT ![b][m.from] = Fresh(b)]
      BY <2>2, <3>3, TypeParts
    <3> QED
      BY <2>3, <3>1, <3>2, <3>3
  <2> QED
    BY <1>5, <2>3, <2>4
<1>7. ASSUME NEW d \in applying, Described(d) PROVE Phases'
  BY <1>5, <1>7 DEF Described, callVars, joinVars, RelayVoice
<1>8. ASSUME NEW x \in DOMAIN pc, OnIceCandidate(x) PROVE Phases'
  BY <1>5, <1>8 DEF OnIceCandidate, callVars, joinVars, RelayVoice
<1>9. ASSUME NEW x \in DOMAIN pc, OnFailed(x) PROVE Phases'
  <2>1. /\ UNCHANGED <<channel, active, shown, joins, saw, stage, targets>>
        /\ peers' = [peers EXCEPT ![x[1]][pc[x].peer] = None]
    BY <1>9 DEF OnFailed, callVars, joinVars
  <2>2. x[1] \in Browsers /\ pc[x].peer \in Browsers
    BY DEF TypeOK, Ends, Connections
  <2>3. \A d, q \in Browsers : peers'[d][q] \in {None, peers[d][q]}
    BY <2>1, <2>2, TypeParts
  <2> QED
    BY <1>5, <2>1, <2>3
<1>10. CASE UNCHANGED vars
  BY <1>5, <1>10 DEF vars, callVars, joinVars, rtcVars
<1> QED
  BY <1>1, <1>2, <1>3, <1>4, <1>6, <1>7, <1>8, <1>9, <1>10 DEF Next

-----------------------------------------------------------------------------
(* Descriptions and messages *)

\* The same after the step.
NextFit(x, y) == y[1] = pc'[x].peer /\ pc'[y].peer = x[1]
NextMeant(d) ==
  /\ NextFit(d.pc, d.of)
  /\ d.sdp = "offer" => d.pc[1] \in saw'[d.of[1]]
  /\ d.sdp = "answer" => d.of[1] \in saw'[d.pc[1]]
NextProper(b, m) ==
  /\ m.type \in {"voice_offer", "voice_answer", "voice_ice"} =>
       m.pc \in DOMAIN pc' /\ m.pc[1] = m.from /\ pc'[m.pc].peer = b
  /\ m.type = "voice_offer" => b \in saw'[m.from]
  /\ m.type = "voice_answer" => m.from \in saw'[b]

LEMMA SawGrows ==
  ASSUME CallInv, [Next]_vars, NEW b \in Browsers
  PROVE  saw[b] \subseteq saw'[b]
<1> USE DEF CallInv
<1>1. ASSUME NEW d \in Browsers, Join(d) PROVE saw[b] \subseteq saw'[b]
  <2>1. saw' = [saw EXCEPT ![d] = @ \cup members[d]]
    BY <1>1 DEF Join
  <2> QED
    BY <2>1, TypeParts
<1>2. ASSUME saw' = saw PROVE saw[b] \subseteq saw'[b]
  BY <1>2
<1>3. ASSUME NEW d \in Browsers, AudioReady(d) \/ OfferReady(d) \/ Leave(d) \/ Receive(d)
      PROVE  saw' = saw
  BY <1>3 DEF AudioReady, OfferReady, Leave, Receive, joinVars
<1>4. ASSUME NEW d \in applying, Described(d) PROVE saw' = saw
  BY <1>4 DEF Described, joinVars
<1>5. ASSUME NEW x \in DOMAIN pc, OnIceCandidate(x) \/ OnFailed(x) PROVE saw' = saw
  BY <1>5 DEF OnIceCandidate, OnFailed, joinVars
<1>6. CASE UNCHANGED vars
  BY <1>2, <1>6 DEF vars, joinVars
<1> QED
  BY <1>1, <1>2, <1>3, <1>4, <1>5, <1>6 DEF Next

LEMMA FitStays ==
  ASSUME NEW x \in DOMAIN pc, NEW y \in DOMAIN pc, Fit(x, y), \A z \in DOMAIN pc : Kept(z)
  PROVE  NextFit(x, y)
BY DEF Fit, NextFit, Kept

LEMMA MeantStays ==
  ASSUME CallInv, NEW d \in applying, \A z \in DOMAIN pc : Kept(z),
         \A b \in Browsers : saw[b] \subseteq saw'[b]
  PROVE  NextMeant(d)
<1>1. /\ d.pc \in DOMAIN pc /\ d.of \in DOMAIN pc /\ Meant(d)
      /\ d.pc[1] \in Browsers /\ d.of[1] \in Browsers
  BY DEF CallInv, TypeOK, Routed, Ends
<1>2. NextFit(d.pc, d.of)
  BY <1>1, FitStays DEF Meant
<1> QED
  BY <1>1, <1>2 DEF Meant, NextMeant

LEMMA ProperStays ==
  ASSUME CallInv, NEW b \in Browsers, NEW m \in Notes, Proper(b, m),
         \A z \in DOMAIN pc : Kept(z), \A e \in Browsers : saw[e] \subseteq saw'[e]
  PROVE  NextProper(b, m)
BY DEF Proper, NextProper, Kept, Notes

\* What is being set was being set, or has just come.
LEMMA StepApplying ==
  ASSUME CallInv, [Next]_vars, NEW d \in applying' PROVE NextMeant(d)
<1> USE DEF CallInv
<1>0. /\ \A z \in DOMAIN pc : Kept(z)
      /\ \A e \in Browsers : saw[e] \subseteq saw'[e]
  BY StepConnections, SawGrows DEF NoneMade, Made
<1>1. CASE d \in applying
  BY <1>0, <1>1, MeantStays
<1>2. ASSUME NEW b \in Browsers, Receive(b), d \notin applying PROVE NextMeant(d)
  <2> DEFINE m == down[b][1]
             x == peers[b][m.from]
  <2>1. /\ m \in Notes /\ Head(down[b]) = m /\ 1 \in 1..Len(down[b])
        /\ UNCHANGED saw
    <3>1. m \in Notes /\ Head(down[b]) = m /\ Len(down[b]) \in Nat \ {0}
      BY <1>2, ReceiveIs
    <3>2. UNCHANGED saw
      BY <1>2 DEF Receive, joinVars
    <3> QED
      BY <3>1, <3>2
  <2>2. m.from \in Browsers /\ Holds(b, m.from) /\ Proper(b, m)
    <3>1. m.from \in Browsers
      BY <2>1 DEF Notes
    <3> QED
      BY <2>1, <3>1, TypeParts DEF Routed
  <2>3. HandleOffer(b, m) \/ HandleAnswer(b, m)
    BY <1>2, <2>1 DEF Receive, VoiceState, HandlePeerLeft, HandleIce, rtcVars
  <2>4. CASE HandleOffer(b, m)
    <3>1. /\ pc' = WithNew(pc, b, m.from) /\ m.type = "voice_offer"
          /\ d = [pc |-> Fresh(b), sdp |-> "offer", of |-> m.pc]
      BY <1>2, <2>4 DEF HandleOffer
    <3>2. /\ m.pc \in DOMAIN pc /\ m.pc[1] = m.from /\ pc[m.pc].peer = b
          /\ b \in saw[m.from]
      BY <2>2, <3>1 DEF Proper
    <3>3. /\ pc'[m.pc] = pc[m.pc] /\ pc'[Fresh(b)].peer = m.from /\ Fresh(b)[1] = b
      <4>1. /\ DOMAIN pc' = DOMAIN pc \cup {Fresh(b)}
            /\ \A y \in DOMAIN pc : pc'[y] = pc[y]
            /\ pc'[Fresh(b)] = [New EXCEPT !.peer = m.from]
        <5> HIDE DEF m, x
        <5>1. TypeOK /\ Counted /\ m.from \in Browsers /\ pc' = WithNew(pc, b, m.from)
          BY <2>2, <3>1
        <5> QED
          BY <5>1, WithNewIs
      <4>2. pc'[Fresh(b)].peer = m.from
        BY <2>2, <4>1, NewIs
      <4> QED
        <5>1. Fresh(b)[1] = b
          BY FreshIs
        <5> QED
          BY <3>2, <4>1, <4>2, <5>1
    <3>4. d.pc = Fresh(b) /\ d.of = m.pc /\ d.sdp = "offer"
      BY <3>1
    <3> HIDE DEF m
    <3> QED
      BY <2>1, <3>2, <3>3, <3>4 DEF NextMeant, NextFit
  <2>5. CASE HandleAnswer(b, m)
    <3>1. /\ pc' = pc /\ m.type = "voice_answer" /\ x # None
          /\ d = [pc |-> x, sdp |-> "answer", of |-> m.pc]
      BY <1>2, <2>5 DEF HandleAnswer
    <3>2. /\ m.pc \in DOMAIN pc /\ m.pc[1] = m.from /\ pc[m.pc].peer = b
          /\ m.from \in saw[b]
      BY <2>2, <3>1 DEF Proper
    <3>3. x[1] = b /\ pc[x].peer = m.from
      BY <2>2, <3>1 DEF Holds
    <3>4. d.pc = x /\ d.of = m.pc /\ d.sdp = "answer"
      BY <3>1
    <3> HIDE DEF m, x
    <3> QED
      BY <2>1, <3>1, <3>2, <3>3, <3>4 DEF NextMeant, NextFit
  <2> QED
    BY <2>3, <2>4, <2>5
<1>3. ASSUME NEW b \in Browsers, Join(b) \/ AudioReady(b) \/ OfferReady(b) \/ Leave(b)
      PROVE  d \in applying
  BY <1>3 DEF Join, AudioReady, OfferReady, Leave, rtcVars
<1>4. ASSUME NEW c \in applying, Described(c) PROVE d \in applying
  BY <1>4 DEF Described
<1>5. ASSUME NEW x \in DOMAIN pc, OnIceCandidate(x) \/ OnFailed(x) PROVE d \in applying
  BY <1>5 DEF OnIceCandidate, OnFailed
<1>6. CASE UNCHANGED vars
  BY <1>1, <1>6 DEF vars, rtcVars
<1> QED
  BY <1>1, <1>2, <1>3, <1>4, <1>5, <1>6 DEF Next

\* A message was under way, or is sent by the step.
LEMMA StepNotes ==
  ASSUME CallInv, [Next]_vars, VoiceCallAssumption,
         NEW b \in Browsers, NEW i \in 1..Len(down'[b])
  PROVE  NextProper(b, down'[b][i])
<1> USE DEF CallInv
<1>0. /\ \A z \in DOMAIN pc : Kept(z)
      /\ \A e \in Browsers : saw[e] \subseteq saw'[e]
  BY StepConnections, SawGrows DEF NoneMade, Made
<1>1. down[b] \in Seq(Notes) /\ down'[b] \in Seq(Notes)
  BY StepTypeOK DEF TypeOK
<1>2. ASSUME NEW j \in 1..Len(down[b]), down'[b][i] = down[b][j] PROVE NextProper(b, down'[b][i])
  <2>1. down[b][j] \in Notes /\ Proper(b, down[b][j])
    BY <1>1 DEF Routed
  <2>2. NextProper(b, down[b][j])
    BY <1>0, <2>1, ProperStays
  <2> QED
    BY <1>2, <2>2
<1>3. ASSUME down'[b] = down[b] PROVE NextProper(b, down'[b][i])
  BY <1>2, <1>3
<1>4. ASSUME NEW m, down'[b] = Append(down[b], m), NextProper(b, m)
      PROVE  NextProper(b, down'[b][i])
  <2>1. /\ Len(down'[b]) = Len(down[b]) + 1 /\ down'[b][Len(down[b]) + 1] = m
        /\ \A j \in 1..Len(down[b]) : down'[b][j] = down[b][j]
    BY <1>1, <1>4
  <2>2. CASE i \in 1..Len(down[b])
    BY <1>2, <2>1, <2>2
  <2>3. CASE i = Len(down[b]) + 1
    BY <1>4, <2>1, <2>3
  <2> QED
    BY <1>1, <2>1, <2>2, <2>3
<1>5. ASSUME NEW d \in Browsers, NEW type \in {"voice_peer_joined", "voice_peer_left"},
             Announce(type, d), channel' \subseteq Browsers
      PROVE  NextProper(b, down'[b][i])
  <2> DEFINE m == Note(IF b \in channel' \ {d} THEN type ELSE "voice_state", d, None, channel')
  <2>1. down'[b] = Append(down[b], m)
    BY <1>5, AnnounceIs
  <2>2. m.type \notin {"voice_offer", "voice_answer", "voice_ice"}
    BY DEF Note
  <2>3. NextProper(b, m)
    BY <2>2 DEF NextProper
  <2> QED
    BY <1>4, <2>1, <2>3
<1>6. ASSUME NEW x \in DOMAIN pc, NEW type \in {"voice_offer", "voice_answer", "voice_ice"},
             RelayVoice(x[1], type, pc[x].peer, x),
             type = "voice_offer" => pc[x].peer \in saw[x[1]],
             type = "voice_answer" => x[1] \in saw[pc[x].peer]
      PROVE  NextProper(b, down'[b][i])
  <2> DEFINE m == Note(type, x[1], x, {})
  <2>1. x \in Ends /\ x[1] \in Browsers /\ pc[x].peer \in Browsers
    BY DEF TypeOK, Ends, Connections
  <2>2. down'[b] = down[b] \/ (b = pc[x].peer /\ down'[b] = Append(down[b], m))
    <3>1. \A q \in Browsers : down'[q] =
            IF q = pc[x].peer /\ {x[1], pc[x].peer} \subseteq channel
              THEN Append(down[q], Note(type, x[1], x, {})) ELSE down[q]
      <4> HIDE DEF m
      <4> QED
        BY <1>6, <2>1, RelayIs
    <3> QED
      BY <3>1
  <2>3. ASSUME b = pc[x].peer PROVE NextProper(b, m)
    <3>1. m.type = type /\ m.from = x[1] /\ m.pc = x
      BY DEF Note
    <3>2. x \in DOMAIN pc' /\ pc'[x].peer = b
      BY <1>0, <2>3 DEF Kept
    <3> HIDE DEF m
    <3> QED
      BY <1>0, <1>6, <2>1, <2>3, <3>1, <3>2 DEF NextProper
  <2> HIDE DEF m
  <2> QED
    BY <1>3, <1>4, <2>2, <2>3
<1>7. ASSUME NEW d \in Browsers, Join(d) PROVE NextProper(b, down'[b][i])
  BY <1>3, <1>7 DEF Join
<1>8. ASSUME NEW d \in Browsers, AudioReady(d) PROVE NextProper(b, down'[b][i])
  <2>1. channel' = channel \cup {d} /\ Announce("voice_peer_joined", d)
    BY <1>8 DEF AudioReady, JoinVoice
  <2> QED
    BY <1>5, <2>1, TypeParts
<1>9. ASSUME NEW d \in Browsers, OfferReady(d) PROVE NextProper(b, down'[b][i])
  <2> DEFINE x == stage[d]
  <2>1. x \in DOMAIN pc
    BY <1>9 DEF OfferReady
  <2>2. x[1] = d /\ pc[x].peer \in saw[d]
    <3>1. x \in Ends /\ (x \in {Idle, Audio} \/ x[1] = d)
      BY <2>1, TypeParts
    <3>2. pc[x].peer \in saw[d]
      BY <2>1 DEF Phases, Phase
    <3> QED
      BY <3>1, <3>2, Marks
  <2>3. RelayVoice(d, "voice_offer", pc[x].peer, x) \/ UNCHANGED <<channel, down>>
    BY <1>9 DEF OfferReady
  <2> HIDE DEF x
  <2> QED
    BY <1>3, <1>6, <2>1, <2>2, <2>3
<1>10. ASSUME NEW d \in Browsers, Leave(d) PROVE NextProper(b, down'[b][i])
  <2>1. channel' = channel \ {d} /\ (Announce("voice_peer_left", d) \/ UNCHANGED down)
    BY <1>10 DEF Leave, LeaveVoice
  <2> QED
    BY <1>3, <1>5, <2>1, TypeParts
<1>11. ASSUME NEW d \in Browsers, Receive(d) PROVE NextProper(b, down'[b][i])
  <2>1. CASE b # d
    BY <1>3, <1>11, <2>1, ReceiveIs
  <2>2. CASE b = d
    <3>1. i + 1 \in 1..Len(down[b]) /\ down'[b][i] = down[b][i + 1]
      BY <1>11, <2>2, ReceiveIs
    <3> QED
      BY <1>2, <3>1
  <2> QED
    BY <2>1, <2>2
<1>12. ASSUME NEW d \in applying, Described(d) PROVE NextProper(b, down'[b][i])
  <2> DEFINE x == d.pc
  <2>1. x \in DOMAIN pc /\ Meant(d)
    BY DEF TypeOK, Routed
  <2>2. \/ d.sdp = "offer" /\ RelayVoice(x[1], "voice_answer", pc[x].peer, x)
        \/ UNCHANGED <<channel, down>>
    BY <1>12 DEF Described
  <2>3. d.sdp = "offer" => x[1] \in saw[pc[x].peer]
    BY <2>1 DEF Meant, Fit
  <2> HIDE DEF x
  <2>4. CASE d.sdp = "offer" /\ RelayVoice(x[1], "voice_answer", pc[x].peer, x)
    <3>1. x[1] \in saw[pc[x].peer] /\ RelayVoice(x[1], "voice_answer", pc[x].peer, x)
      BY <2>3, <2>4
    <3> QED
      BY <1>6, <2>1, <3>1
  <2>5. CASE UNCHANGED <<channel, down>>
    BY <1>3, <2>5
  <2> QED
    BY <2>2, <2>4, <2>5
<1>13. ASSUME NEW x \in DOMAIN pc, OnIceCandidate(x) PROVE NextProper(b, down'[b][i])
  <2>1. RelayVoice(x[1], "voice_ice", pc[x].peer, x) \/ UNCHANGED <<channel, down>>
    BY <1>13 DEF OnIceCandidate
  <2> QED
    BY <1>3, <1>6, <2>1
<1>14. ASSUME NEW x \in DOMAIN pc, OnFailed(x) PROVE NextProper(b, down'[b][i])
  BY <1>3, <1>14 DEF OnFailed
<1>15. CASE UNCHANGED vars
  BY <1>3, <1>15 DEF vars
<1> QED
  BY <1>7, <1>8, <1>9, <1>10, <1>11, <1>12, <1>13, <1>14, <1>15 DEF Next

LEMMA StepRouted ==
  ASSUME CallInv, [Next]_vars, VoiceCallAssumption PROVE Routed'
<1> USE DEF CallInv
<1>0. \A z \in DOMAIN pc : Kept(z)
  BY StepConnections DEF NoneMade, Made
<1>1. ASSUME NEW x \in DOMAIN pc', pc'[x].remote # None
      PROVE  pc'[x].remote \in DOMAIN pc' /\ NextFit(x, pc'[x].remote)
  <2>1. CASE x \in DOMAIN pc
    <3> DEFINE y == pc'[x].remote
    <3>1. y \in DOMAIN pc /\ Fit(x, y)
      <4>1. CASE RemoteKept(x)
        BY <1>1, <2>1, <4>1 DEF RemoteKept, Routed
      <4>2. CASE RemoteSet(x)
        BY <4>2 DEF RemoteSet, Routed, Meant, TypeOK
      <4> QED
        BY <2>1, <4>1, <4>2, StepConnections
    <3>2. NextFit(x, y)
      BY <1>0, <2>1, <3>1, FitStays
    <3> QED
      BY <1>0, <3>1, <3>2 DEF Kept
  <2>2. CASE x \notin DOMAIN pc
    <3>1. PICK b \in Browsers, q \in Browsers : Made(b, q)
      BY <2>2, StepConnections DEF NoneMade
    <3>2. x = Fresh(b) /\ pc'[x] = [New EXCEPT !.peer = q]
      BY <2>2, <3>1 DEF Made
    <3>3. pc'[x].remote = None
      BY <3>2, NewIs
    <3> QED
      BY <1>1, <3>3
  <2> QED
    BY <2>1, <2>2
<1>2. ASSUME NEW x \in DOMAIN pc'
      PROVE  pc'[x].peer \in saw'[x[1]] \/ x[1] \in saw'[pc'[x].peer]
  <2>1. CASE x \in DOMAIN pc
    <3>1. /\ x[1] \in Browsers /\ pc[x].peer \in Browsers /\ pc'[x].peer = pc[x].peer
          /\ pc[x].peer \in saw[x[1]] \/ x[1] \in saw[pc[x].peer]
      <4>1. x \in Ends /\ pc[x] \in Connections
        BY <2>1, TypeParts
      <4>2. x[1] \in Browsers /\ pc[x].peer \in Browsers
        BY <4>1 DEF Ends, Connections
      <4>3. pc'[x].peer = pc[x].peer
        BY <1>0, <2>1 DEF Kept
      <4>4. pc[x].peer \in saw[x[1]] \/ x[1] \in saw[pc[x].peer]
        BY <2>1 DEF Routed
      <4> QED
        BY <4>2, <4>3, <4>4
    <3>2. saw[x[1]] \subseteq saw'[x[1]] /\ saw[pc[x].peer] \subseteq saw'[pc[x].peer]
      BY <3>1, SawGrows
    <3> HIDE DEF CallInv
    <3> QED
      BY <3>1, <3>2
  <2>2. CASE x \notin DOMAIN pc
    <3>1. PICK b \in Browsers, q \in Browsers : Made(b, q) /\ Shown(b, q)
      BY <2>2, StepConnections DEF NoneMade
    <3>2. x = Fresh(b) /\ pc'[x] = [New EXCEPT !.peer = q]
      BY <2>2, <3>1 DEF Made
    <3>3. pc'[x].peer = q /\ x[1] = b
      BY <3>2, NewIs, FreshIs
    <3>4. q \in saw'[b] \/ b \in saw'[q]
      BY <3>1, SawGrows DEF Shown
    <3> HIDE DEF CallInv
    <3> QED
      BY <3>3, <3>4
  <2> QED
    BY <2>1, <2>2
<1> QED
  BY <1>1, <1>2, StepApplying, StepNotes
  DEF Routed, Proper, NextProper, Meant, NextMeant, Fit, NextFit

-----------------------------------------------------------------------------
(* Two browsers of which q was never shown b *)

\* An entry of peers stays, or is removed and its connection closed.
EntryKept(d, e) ==
  /\ Of(d, e)' = Of(d, e)
  /\ \/ peers'[d][e] = peers[d][e]
     \/ peers'[d][e] = None /\ \A x \in Of(d, e) : x = peers[d][e] => ~pc'[x].open

\* What q will receive of b: no offer is added, or the first message is taken.
NoOffer(b, q) == Offers(b, q)' = Offers(b, q) /\ Lefts(b, q) \subseteq Lefts(b, q)'
Taken(b, q) ==
  /\ \A i \in Offers(b, q)' : i + 1 \in Offers(b, q)
  /\ \A i \in Offers(b, q) : i = 1 \/ i - 1 \in Offers(b, q)'
  /\ \A k \in Lefts(b, q) : k = 1 \/ k - 1 \in Lefts(b, q)'
Calm(b, q) ==
  \/ NoOffer(b, q)
  \/ Taken(b, q) /\ 1 \notin Offers(b, q) /\ (1 \in Lefts(b, q) => peers'[q][b] = None)

LEMMA OffersNat ==
  ASSUME NEW b, NEW q, down[q] \in Seq(Notes)
  PROVE  /\ \A i \in Offers(b, q) : i \in Nat \ {0}
         /\ \A i \in Lefts(b, q) : i \in Nat \ {0}
BY DEF Offers, Lefts

LEMMA HoldsOpenStays ==
  ASSUME NEW d, NEW e, HoldsOpen(d, e), EntryKept(d, e), \A x \in DOMAIN pc : Kept(x)
  PROVE  HoldsOpen(d, e)'
<1>1. ASSUME NEW x \in Of(d, e), pc'[x].open PROVE peers'[d][e] = x
  <2>1. x \in DOMAIN pc
    BY DEF Of, Own
  <2>2. pc[x].open
    BY <1>1, <2>1 DEF Kept
  <2>3. peers[d][e] = x
    BY <2>2 DEF HoldsOpen
  <2> QED
    BY <1>1, <2>3 DEF EntryKept
<1> QED
  BY <1>1 DEF HoldsOpen, EntryKept

\* A connection is made and put into peers where there was none.
LEMMA HoldsOpenMade ==
  ASSUME TypeOK, Counted, NEW b \in Browsers, NEW q \in Browsers, HoldsOpen(b, q), Made(b, q),
         peers[b][q] = None, peers'[b][q] = Fresh(b)
  PROVE  HoldsOpen(b, q)'
<1>1. Of(b, q)' = Of(b, q) \cup {Fresh(b)}
  BY OfMade
<1>2. ASSUME NEW x \in Of(b, q), pc'[x].open PROVE FALSE
  <2>1. x \in DOMAIN pc
    BY DEF Of, Own
  <2>2. pc[x].open /\ x \in Ends
    BY <1>2, <2>1, TypeParts DEF Made, Kept
  <2>3. x = None
    BY <2>2 DEF HoldsOpen
  <2> QED
    BY <2>2, <2>3, Marks
<1> QED
  BY <1>1, <1>2 DEF HoldsOpen

LEMMA OffererStays ==
  ASSUME NEW b, NEW q, Offerer(b, q), EntryKept(b, q), \A x \in DOMAIN pc : Kept(x),
         q \in targets'[b] => q \in targets[b]
  PROVE  Offerer(b, q)'
<1>1. HoldsOpen(b, q)'
  BY HoldsOpenStays DEF Offerer
<1>2. q \in targets'[b] => peers'[b][q] = None
  BY DEF Offerer, EntryKept
<1> QED
  BY <1>1, <1>2 DEF Offerer

LEMMA OfferedStays ==
  ASSUME NEW b, NEW q, down[q] \in Seq(Notes), down'[q] \in Seq(Notes),
         OfferedOnce(b, q), EntryKept(b, q), EntryKept(q, b),
         \A x \in DOMAIN pc : Kept(x), Calm(b, q), joins'[b] = joins[b],
         q \in targets'[b] => q \in targets[b],
         stage'[b] \in Of(b, q) => stage[b] \in Of(b, q)
  PROVE  OfferedOnce(b, q)'
<1>1. HoldsOpen(q, b)'
  BY HoldsOpenStays DEF OfferedOnce
<1>2. Of(b, q)' = Of(b, q) /\ Of(q, b)' = Of(q, b)
  BY DEF EntryKept
<1>3. /\ \A i, j \in Offers(b, q)' : i = j
      /\ Offers(b, q) = {} => Offers(b, q)' = {}
  <2>1. CASE NoOffer(b, q)
    BY <2>1 DEF NoOffer, OfferedOnce
  <2>2. CASE Taken(b, q)
    <3>1. \A i, j \in Offers(b, q) : i = j
      BY DEF OfferedOnce
    <3>2. \A i \in Offers(b, q)' : i + 1 \in Offers(b, q)
      BY <2>2 DEF Taken
    <3>3. \A i \in Offers(b, q)' : i \in Nat
      BY DEF Offers
    <3>4. ASSUME NEW i \in Offers(b, q)', NEW j \in Offers(b, q)' PROVE i = j
      <4>1. i + 1 = j + 1
        BY <3>1, <3>2
      <4> QED
        BY <3>3, <4>1
    <3> QED
      BY <3>2, <3>4
  <2> QED
    BY <2>1, <2>2 DEF Calm
<1> QED
  BY <1>1, <1>2, <1>3 DEF OfferedOnce

LEMMA ApartStays ==
  ASSUME NEW b, NEW q, down[q] \in Seq(Notes), down'[q] \in Seq(Notes),
         Apart(b, q), Calm(b, q), peers'[q][b] \in {peers[q][b], None}
  PROVE  Apart(b, q)'
<1>0. /\ \A i \in Offers(b, q) : i \in Nat \ {0}
      /\ \A i \in Lefts(b, q) : i \in Nat \ {0}
      /\ \A i \in Offers(b, q)' : i \in Nat \ {0}
  BY OffersNat DEF Offers
<1>1. CASE NoOffer(b, q)
  BY <1>1 DEF NoOffer, Apart
<1>2. CASE /\ Taken(b, q) /\ 1 \notin Offers(b, q)
           /\ 1 \in Lefts(b, q) => peers'[q][b] = None
  <2>1. ASSUME NEW i \in Offers(b, q)', NEW j \in Offers(b, q)', i < j
        PROVE  \E k \in Lefts(b, q)' : i < k /\ k < j
    <3>1. i + 1 \in Offers(b, q) /\ j + 1 \in Offers(b, q) /\ i + 1 < j + 1
      BY <1>0, <1>2, <2>1 DEF Taken
    <3>2. PICK k \in Lefts(b, q) : i + 1 < k /\ k < j + 1
      BY <3>1 DEF Apart
    <3>3. k - 1 \in Lefts(b, q)'
      BY <1>0, <1>2, <3>2 DEF Taken
    <3> QED
      BY <1>0, <3>2, <3>3
  <2>2. ASSUME NEW i \in Offers(b, q)', peers'[q][b] # None
        PROVE  \E k \in Lefts(b, q)' : k < i
    <3>1. i + 1 \in Offers(b, q) /\ peers[q][b] # None
      BY <1>2, <2>2 DEF Taken
    <3>2. PICK k \in Lefts(b, q) : k < i + 1
      BY <3>1 DEF Apart
    <3>3. k # 1 /\ k - 1 \in Lefts(b, q)'
      BY <1>2, <2>2, <3>2 DEF Taken
    <3> QED
      BY <1>0, <3>2, <3>3
  <2> QED
    BY <2>1, <2>2 DEF Apart
<1> QED
  BY <1>1, <1>2 DEF Calm

LEMMA WillBeClearStays ==
  ASSUME NEW b, NEW q, down[q] \in Seq(Notes), down'[q] \in Seq(Notes),
         WillBeClear(b, q), Calm(b, q), peers'[q][b] \in {peers[q][b], None}
  PROVE  WillBeClear(b, q)'
<1>0. /\ \A i \in Offers(b, q) : i \in Nat \ {0}
      /\ \A i \in Lefts(b, q) : i \in Nat \ {0}
      /\ \A i \in Offers(b, q)' : i \in Nat \ {0}
  BY OffersNat DEF Offers
<1>1. CASE NoOffer(b, q)
  BY <1>1 DEF NoOffer, WillBeClear
<1>2. CASE /\ Taken(b, q) /\ 1 \notin Offers(b, q)
           /\ 1 \in Lefts(b, q) => peers'[q][b] = None
  <2>1. \A i \in Offers(b, q)' : i + 1 \in Offers(b, q)
    BY <1>2 DEF Taken
  <2>2. CASE peers[q][b] = None /\ Offers(b, q) = {}
    BY <2>1, <2>2 DEF WillBeClear
  <2>3. ASSUME NEW k \in Lefts(b, q), \A i \in Offers(b, q) : i < k PROVE WillBeClear(b, q)'
    <3>1. CASE k = 1
      <4>1. Offers(b, q) = {}
        BY <1>0, <2>3, <3>1
      <4>2. Offers(b, q)' = {} /\ peers'[q][b] = None
        BY <1>2, <2>1, <3>1, <4>1
      <4> QED
        BY <4>2 DEF WillBeClear
    <3>2. CASE k # 1
      <4>1. k - 1 \in Lefts(b, q)'
        BY <1>2, <3>2 DEF Taken
      <4>2. ASSUME NEW i \in Offers(b, q)' PROVE i < k - 1
        <5>1. i + 1 < k
          BY <2>1, <2>3
        <5> QED
          BY <1>0, <5>1
      <4> QED
        BY <4>1, <4>2 DEF WillBeClear
    <3> QED
      BY <3>1, <3>2
  <2> QED
    BY <2>2, <2>3 DEF WillBeClear
<1> QED
  BY <1>1, <1>2 DEF Calm

LEMMA AnswererStays ==
  ASSUME NEW b, NEW q, down[q] \in Seq(Notes), down'[q] \in Seq(Notes),
         AnswererOnce(b, q), EntryKept(q, b), \A x \in DOMAIN pc : Kept(x), Calm(b, q),
         joins'[q] = joins[q], stage'[q] = Audio => stage[q] = Audio,
         q \in channel' => q \in channel,
         q \in channel /\ YetToOffer(b, q)' => YetToOffer(b, q) \/ WillBeClear(b, q)'
  PROVE  AnswererOnce(b, q)'
<1>1. HoldsOpen(q, b)'
  BY HoldsOpenStays DEF AnswererOnce
<1>2. peers'[q][b] \in {peers[q][b], None}
  BY DEF EntryKept
<1>3. ASSUME joins'[q] = 0 \/ stage'[q] = Audio PROVE peers'[q][b] = None /\ Offers(b, q)' = {}
  <2>1. peers[q][b] = None /\ Offers(b, q) = {}
    BY <1>3 DEF AnswererOnce
  <2> QED
    BY <1>2, <2>1 DEF Calm, NoOffer, Taken
<1>4. ASSUME q \in channel' PROVE Apart(b, q)' /\ (YetToOffer(b, q)' => WillBeClear(b, q)')
  <2>1. Apart(b, q) /\ (YetToOffer(b, q) => WillBeClear(b, q))
    BY <1>4 DEF AnswererOnce
  <2> QED
    BY <1>2, <1>4, <2>1, ApartStays, WillBeClearStays
<1> QED
  BY <1>1, <1>3, <1>4 DEF AnswererOnce

\* What a message does to what q will receive of b.
LEMMA SameQueue ==
  ASSUME NEW b, NEW q, down'[q] = down[q] PROVE NoOffer(b, q)
BY DEF NoOffer, Offers, Lefts

LEMMA AppendQueue ==
  ASSUME NEW b, NEW q, down[q] \in Seq(Notes), NEW m \in Notes, down'[q] = Append(down[q], m)
  PROVE  /\ Len(down[q]) + 1 \notin Offers(b, q)
         /\ Offers(b, q)' = IF m.type = "voice_offer" /\ m.from = b
                              THEN Offers(b, q) \cup {Len(down[q]) + 1} ELSE Offers(b, q)
         /\ Lefts(b, q)' = IF m.type = "voice_peer_left" /\ m.from = b
                             THEN Lefts(b, q) \cup {Len(down[q]) + 1} ELSE Lefts(b, q)
<1>1. /\ Len(down'[q]) = Len(down[q]) + 1 /\ down'[q][Len(down[q]) + 1] = m
      /\ \A j \in 1..Len(down[q]) : down'[q][j] = down[q][j]
      /\ Len(down[q]) \in Nat
  OBVIOUS
<1>2. 1..Len(down'[q]) = 1..Len(down[q]) \cup {Len(down[q]) + 1}
  BY <1>1
<1>3. Len(down[q]) + 1 \notin 1..Len(down[q])
  BY <1>1
<1> DEFINE n == Len(down[q])
           T(type) == {i \in 1..n : down[q][i].type = type /\ down[q][i].from = b}
<1>4. ASSUME NEW type
      PROVE  {i \in 1..Len(down'[q]) : down'[q][i].type = type /\ down'[q][i].from = b} =
               IF m.type = type /\ m.from = b THEN T(type) \cup {n + 1} ELSE T(type)
  <2> HIDE DEF n
  <2>1. CASE m.type = type /\ m.from = b
    BY <1>1, <1>2, <2>1 DEF n
  <2>2. CASE ~(m.type = type /\ m.from = b)
    BY <1>1, <1>2, <2>2 DEF n
  <2> QED
    BY <2>1, <2>2
<1>5. Offers(b, q) = T("voice_offer") /\ Lefts(b, q) = T("voice_peer_left")
  BY DEF Offers, Lefts
<1>6. Offers(b, q)' = IF m.type = "voice_offer" /\ m.from = b
                        THEN T("voice_offer") \cup {n + 1} ELSE T("voice_offer")
  BY <1>4 DEF Offers
<1>7. Lefts(b, q)' = IF m.type = "voice_peer_left" /\ m.from = b
                       THEN T("voice_peer_left") \cup {n + 1} ELSE T("voice_peer_left")
  BY <1>4 DEF Lefts
<1>8. n + 1 \notin T("voice_offer")
  BY <1>3
<1> HIDE DEF T
<1> QED
  BY <1>5, <1>6, <1>7, <1>8, Zenon

LEMMA AnnounceQueue ==
  ASSUME TypeOK, NEW d \in Browsers, NEW b, NEW q \in Browsers, channel' \subseteq Browsers,
         NEW type \in {"voice_peer_joined", "voice_peer_left"}, Announce(type, d)
  PROVE  /\ NoOffer(b, q)
         /\ (type = "voice_peer_left" /\ d = b /\ q \in channel' \ {b}) =>
              \E k \in Lefts(b, q)' : \A i \in Offers(b, q)' : i < k
<1> DEFINE m == Note(IF q \in channel' \ {d} THEN type ELSE "voice_state", d, None, channel')
<1>1. m \in Notes /\ down'[q] = Append(down[q], m) /\ down[q] \in Seq(Notes)
  <2>1. m \in Notes /\ down'[q] = Append(down[q], m)
    BY AnnounceIs
  <2>2. down[q] \in Seq(Notes)
    BY TypeParts
  <2> QED
    BY <2>1, <2>2
<1>2. /\ m.type # "voice_offer" /\ m.from = d
      /\ type = "voice_peer_left" /\ q \in channel' \ {d} => m.type = "voice_peer_left"
  BY DEF Note
<1> HIDE DEF m
<1>3. /\ Offers(b, q)' = Offers(b, q)
      /\ Lefts(b, q)' = IF m.type = "voice_peer_left" /\ m.from = b
                             THEN Lefts(b, q) \cup {Len(down[q]) + 1} ELSE Lefts(b, q)
  BY <1>1, <1>2, AppendQueue
<1>4. NoOffer(b, q)
  BY <1>3 DEF NoOffer
<1>5. ASSUME type = "voice_peer_left", d = b, q \in channel' \ {b}
      PROVE  \E k \in Lefts(b, q)' : \A i \in Offers(b, q)' : i < k
  <2>1. Len(down[q]) + 1 \in Lefts(b, q)'
    BY <1>2, <1>3, <1>5
  <2>2. \A i \in Offers(b, q) : i < Len(down[q]) + 1
    BY <1>1 DEF Offers
  <2> QED
    BY <1>3, <2>1, <2>2
<1> QED
  BY <1>4, <1>5

LEMMA RelayQueue ==
  ASSUME TypeOK, NEW d \in Browsers, NEW to \in Browsers, NEW x \in Ends,
         NEW type \in {"voice_offer", "voice_answer", "voice_ice"},
         RelayVoice(d, type, to, x), NEW b, NEW q \in Browsers
  PROVE  \/ NoOffer(b, q)
         \/ /\ type = "voice_offer" /\ d = b /\ to = q /\ {b, q} \subseteq channel
            /\ Len(down[q]) + 1 \notin Offers(b, q)
            /\ Offers(b, q)' = Offers(b, q) \cup {Len(down[q]) + 1}
            /\ Lefts(b, q)' = Lefts(b, q)
<1> DEFINE m == Note(type, d, x, {})
<1>1. /\ m \in Notes /\ down[q] \in Seq(Notes)
      /\ down'[q] = IF q = to /\ {d, to} \subseteq channel THEN Append(down[q], m) ELSE down[q]
  BY RelayIs, TypeParts
<1>2. m.type = type /\ m.from = d
  BY DEF Note
<1> HIDE DEF m
<1>3. CASE down'[q] = down[q]
  BY <1>3, SameQueue
<1>4. CASE q = to /\ {d, to} \subseteq channel /\ down'[q] = Append(down[q], m)
  <2>1. /\ Len(down[q]) + 1 \notin Offers(b, q)
        /\ Offers(b, q)' = IF m.type = "voice_offer" /\ m.from = b
                             THEN Offers(b, q) \cup {Len(down[q]) + 1} ELSE Offers(b, q)
        /\ Lefts(b, q)' = Lefts(b, q)
    <3>1. m.type # "voice_peer_left"
      BY <1>2
    <3> QED
      BY <1>1, <1>4, <3>1, AppendQueue
  <2>2. CASE m.type = "voice_offer" /\ m.from = b
    BY <1>2, <1>4, <2>1, <2>2
  <2>3. CASE ~(m.type = "voice_offer" /\ m.from = b)
    BY <2>1, <2>3 DEF NoOffer
  <2> QED
    BY <2>2, <2>3
<1> QED
  BY <1>1, <1>3, <1>4

LEMMA ReceiveQueue ==
  ASSUME TypeOK, NEW q \in Browsers, Receive(q), NEW b
  PROVE  /\ Taken(b, q)
         /\ 1 \in Offers(b, q) <=> down[q][1].type = "voice_offer" /\ down[q][1].from = b
         /\ 1 \in Lefts(b, q) <=> down[q][1].type = "voice_peer_left" /\ down[q][1].from = b
<1>1. /\ Len(down[q]) \in Nat \ {0} /\ Len(down'[q]) = Len(down[q]) - 1
      /\ \A i \in 1..Len(down'[q]) : down'[q][i] = down[q][i + 1]
  BY ReceiveIs
<1>2. ASSUME NEW i \in Offers(b, q)' PROVE i + 1 \in Offers(b, q)
  <2>1. i \in 1..Len(down'[q]) /\ down'[q][i].type = "voice_offer" /\ down'[q][i].from = b
    BY DEF Offers
  <2>2. i + 1 \in 1..Len(down[q]) /\ down'[q][i] = down[q][i + 1]
    BY <1>1, <2>1
  <2> QED
    BY <2>1, <2>2 DEF Offers
<1>3. ASSUME NEW i \in 1..Len(down[q]), i # 1
      PROVE  i - 1 \in 1..Len(down'[q]) /\ down'[q][i - 1] = down[q][i]
  BY <1>1, <1>3
<1>4. ASSUME NEW i \in Offers(b, q) PROVE i = 1 \/ i - 1 \in Offers(b, q)'
  BY <1>3 DEF Offers
<1>5. ASSUME NEW i \in Lefts(b, q) PROVE i = 1 \/ i - 1 \in Lefts(b, q)'
  BY <1>3 DEF Lefts
<1>6. /\ 1 \in Offers(b, q) <=> down[q][1].type = "voice_offer" /\ down[q][1].from = b
      /\ 1 \in Lefts(b, q) <=> down[q][1].type = "voice_peer_left" /\ down[q][1].from = b
  BY <1>1 DEF Offers, Lefts
<1> QED
  BY <1>2, <1>4, <1>5, <1>6 DEF Taken

\* What the invariant says of the two.
LEMMA PairFacts ==
  ASSUME CallInv, NEW b \in Browsers, NEW q \in Browsers, b # q, b \notin saw[q]
  PROVE  /\ Pair(b, q) /\ Phase(b) /\ Phase(q) /\ Holds(b, q) /\ Holds(q, b)
         /\ down[b] \in Seq(Notes) /\ down[q] \in Seq(Notes)
         /\ b \notin targets[q] /\ (stage[q] \in DOMAIN pc => pc[stage[q]].peer # b)
         /\ \A i \in 1..Len(down[b]) : ~(down[b][i].type = "voice_offer" /\ down[b][i].from = q)
<1>1. TypeOK /\ Phases /\ Routed /\ Pairs
  BY DEF CallInv
<1>2. Pair(b, q) /\ Phase(b) /\ Phase(q)
  BY <1>1 DEF Pairs, Phases
<1>3. Holds(b, q) /\ Holds(q, b) /\ down[b] \in Seq(Notes) /\ down[q] \in Seq(Notes)
  BY <1>1, TypeParts
<1>4. b \notin targets[q] /\ (stage[q] \in DOMAIN pc => pc[stage[q]].peer # b)
  BY <1>2 DEF Phase
<1>5. ASSUME NEW i \in 1..Len(down[b])
      PROVE  ~(down[b][i].type = "voice_offer" /\ down[b][i].from = q)
  BY <1>1 DEF Routed, Proper
<1> QED
  BY <1>2, <1>3, <1>4, <1>5

\* A step that makes no connection between the two and sends no offer of b to q.
LEMMA CalmStep ==
  ASSUME NEW b, NEW q, down[q] \in Seq(Notes), down'[q] \in Seq(Notes), Pair(b, q),
         \A x \in DOMAIN pc : Kept(x), EntryKept(b, q), EntryKept(q, b), Calm(b, q),
         joins'[b] = joins[b], joins'[q] = joins[q],
         stage'[q] = Audio => stage[q] = Audio,
         stage'[b] \in Of(b, q) => stage[b] \in Of(b, q),
         q \in targets'[b] => q \in targets[b],
         q \in channel' => q \in channel,
         q \in channel /\ b \in channel /\ b \notin channel' => WillBeClear(b, q)'
  PROVE  Pair(b, q)'
<1>1. Offerer(b, q)'
  BY OffererStays DEF Pair
<1>2. joins[b] <= 1 => OfferedOnce(b, q)'
  BY OfferedStays DEF Pair
<1>3. q \in channel /\ YetToOffer(b, q)' => YetToOffer(b, q) \/ WillBeClear(b, q)'
  BY DEF YetToOffer, EntryKept
<1>4. joins[q] <= 1 => AnswererOnce(b, q)'
  BY <1>3, AnswererStays DEF Pair
<1> QED
  BY <1>1, <1>2, <1>4 DEF Pair

LEMMA EntrySame ==
  ASSUME TypeOK, NoneMade, NEW d, NEW e, peers'[d][e] = peers[d][e] PROVE EntryKept(d, e)
BY OfNoneMade DEF EntryKept

LEMMA EntrySameMade ==
  ASSUME TypeOK, Counted, NEW b \in Browsers, NEW q \in Browsers, Made(b, q), NEW d, NEW e,
         ~(d = b /\ e = q), peers'[d][e] = peers[d][e]
  PROVE  EntryKept(d, e)
BY OfMade DEF EntryKept

\* The next turn of the loop of d over its existingMembers.
LEMMA NextTurn ==
  ASSUME CallInv, NEW b \in Browsers, NEW q \in Browsers, b # q, b \notin saw[q],
         NEW d \in Browsers, NEW cs, Sameish(cs), NextMember(d, cs)
  PROVE  /\ \A x \in DOMAIN pc : Kept(x)
         /\ stage'[q] = Audio => stage[q] = Audio
         /\ d = b => stage'[b] \notin Of(b, q)
         /\ d # b => stage'[b] = stage[b]
         /\ q \in targets'[b] => q \in targets[b]
         /\ EntryKept(q, b)
         /\ \/ EntryKept(b, q)
            \/ /\ d = b /\ q \in targets[b] /\ q \notin targets'[b] /\ Made(b, q)
               /\ peers'[b][q] = Fresh(b) /\ stage'[b] = Fresh(b)
<1>0. TypeOK /\ Counted /\ b \notin targets[q]
  BY PairFacts DEF CallInv
<1>1. CASE \E e \in targets[d] :
              /\ targets' = [targets EXCEPT ![d] = @ \ {e}]
              /\ Made(d, e)
              /\ peers' = [peers EXCEPT ![d][e] = Fresh(d)]
              /\ stage' = [stage EXCEPT ![d] = Fresh(d)]
  <2>1. PICK e \in targets[d] :
              /\ targets' = [targets EXCEPT ![d] = @ \ {e}]
              /\ Made(d, e)
              /\ peers' = [peers EXCEPT ![d][e] = Fresh(d)]
              /\ stage' = [stage EXCEPT ![d] = Fresh(d)]
    BY <1>1
  <2>2. /\ e \in Browsers /\ Fresh(d) \in Ends /\ Fresh(d) \notin DOMAIN pc
        /\ ~(d = q /\ e = b)
    BY <1>0, FreshIs, TypeParts
  <2>3. /\ \A x \in Browsers : stage'[x] = IF x = d THEN Fresh(d) ELSE stage[x]
        /\ \A x \in Browsers : targets'[x] = IF x = d THEN targets[d] \ {e} ELSE targets[x]
    BY <1>0, <2>1, TypeParts
  <2>4. \A x \in Browsers, y \in Browsers :
          peers'[x][y] = IF x = d /\ y = e THEN Fresh(d) ELSE peers[x][y]
    BY <1>0, <2>1, TypeParts
  <2>5. EntryKept(q, b)
    BY <1>0, <2>1, <2>2, <2>4, EntrySameMade
  <2>6. EntryKept(b, q) \/ (d = b /\ e = q /\ peers'[b][q] = Fresh(b))
    BY <1>0, <2>1, <2>2, <2>4, EntrySameMade
  <2>7. d = b => stage'[b] \notin Of(b, q)
    BY <2>2, <2>3 DEF Of, Own
  <2>8. stage'[q] = Audio => stage[q] = Audio
    BY <2>2, <2>3, Marks
  <2>9. \A x \in DOMAIN pc : Kept(x)
    BY <2>1 DEF Made
  <2> QED
    BY <2>1, <2>3, <2>5, <2>6, <2>7, <2>8, <2>9
<1>2. CASE /\ targets[d] = {} /\ NoneMade
           /\ stage' = [stage EXCEPT ![d] = Idle]
           /\ UNCHANGED <<targets, peers>>
  <2>1. EntryKept(b, q) /\ EntryKept(q, b)
    BY <1>0, <1>2, EntrySame
  <2>2. \A x \in Browsers : stage'[x] = IF x = d THEN Idle ELSE stage[x]
    BY <1>0, <1>2, TypeParts
  <2>3. Idle \notin Of(b, q)
    BY <1>0, Marks, TypeParts DEF Of, Own
  <2> QED
    BY <1>2, <2>1, <2>2, <2>3, Marks DEF NoneMade
<1> QED
  BY <1>0, <1>1, <1>2, NextMemberIs, Zenon

\* b makes the connection to q.
LEMMA ConnectionMade ==
  ASSUME TypeOK, Counted, NEW b \in Browsers, NEW q \in Browsers,
         Pair(b, q), down[q] \in Seq(Notes), down'[q] \in Seq(Notes),
         q \in targets[b], q \notin targets'[b], Made(b, q), peers'[b][q] = Fresh(b),
         stage'[b] = Fresh(b), EntryKept(q, b), NoOffer(b, q),
         joins[b] # 0, joins'[b] = joins[b], joins'[q] = joins[q],
         stage'[q] = Audio => stage[q] = Audio, q \in channel' => q \in channel
  PROVE  Pair(b, q)'
<1>1. Of(b, q)' = Of(b, q) \cup {Fresh(b)} /\ \A x \in DOMAIN pc : Kept(x)
  BY OfMade DEF Made
<1>2. Offerer(b, q)'
  BY HoldsOpenMade DEF Pair, Offerer
<1>3. ASSUME joins[b] <= 1 PROVE OfferedOnce(b, q)'
  <2>1. OfferedOnce(b, q)
    BY <1>3 DEF Pair
  <2>2. Of(b, q) = {} /\ Of(q, b) = {} /\ Offers(b, q) = {}
    BY <2>1 DEF OfferedOnce
  <2>3. Of(b, q)' = {Fresh(b)} /\ Of(q, b)' = {} /\ Offers(b, q)' = {}
    BY <1>1, <2>2 DEF EntryKept, NoOffer
  <2>4. HoldsOpen(q, b)'
    BY <2>3 DEF HoldsOpen
  <2> QED
    BY <2>3, <2>4 DEF OfferedOnce
<1>4. joins[q] <= 1 => AnswererOnce(b, q)'
  BY <1>1, AnswererStays DEF Pair, YetToOffer, Calm
<1> QED
  BY <1>2, <1>3, <1>4 DEF Pair

\* A click on join.
LEMMA PairJoin ==
  ASSUME CallInv, TypeOK', NEW b \in Browsers, NEW q \in Browsers, b # q, b \notin saw[q],
         NEW d \in Browsers, Join(d)
  PROVE  Pair(b, q)'
<1>1. /\ stage[d] = Idle /\ ~shown[d]
      /\ joins' = [joins EXCEPT ![d] = @ + 1]
      /\ targets' = [targets EXCEPT ![d] = members[d]]
      /\ stage' = [stage EXCEPT ![d] = Audio]
      /\ UNCHANGED <<channel, down, pc, peers>>
  BY DEF Join, rtcVars
<1>2. /\ \A x \in Browsers : joins'[x] = IF x = d THEN joins[d] + 1 ELSE joins[x]
      /\ \A x \in Browsers : stage'[x] = IF x = d THEN Audio ELSE stage[x]
      /\ \A x \in Browsers : x # d => targets'[x] = targets[x]
      /\ \A x \in Browsers : joins[x] \in Nat
      /\ \A x \in DOMAIN pc : x \in Ends /\ pc[x] \in Connections
  BY <1>1, TypeParts DEF CallInv
<1>3. /\ Pair(b, q) /\ Phase(b) /\ Phase(q) /\ Phase(d)
      /\ down[q] \in Seq(Notes) /\ down'[q] \in Seq(Notes)
  BY <1>1, PairFacts DEF CallInv, Phases
<1>4. ~active[d] /\ d \notin channel /\ \A e \in Browsers : peers[d][e] = None
  BY <1>1, <1>3 DEF Phase
<1>5. \A x \in DOMAIN pc : Kept(x)
  BY <1>1, <1>2 DEF Kept
<1>6. EntryKept(b, q) /\ EntryKept(q, b) /\ NoOffer(b, q)
  BY <1>1, SameQueue DEF EntryKept, Of, Own
<1>7. Calm(b, q) /\ Audio \notin Of(b, q)
  BY <1>2, <1>6, Marks DEF Calm, Of, Own
<1>8. CASE d = b
  <2>1. Offerer(b, q)'
    BY <1>1, <1>3, <1>4, <1>5, <1>6, <1>8, HoldsOpenStays DEF Pair, Offerer
  <2>2. ASSUME joins'[b] <= 1 PROVE OfferedOnce(b, q)'
    <3>1. joins[b] = 0 /\ joins[b] <= 1
      BY <1>2, <1>8, <2>2
    <3>2. OfferedOnce(b, q) /\ Of(b, q) = {}
      BY <1>3, <3>1 DEF Pair, OfferedOnce
    <3>3. Of(b, q)' = {} /\ Of(q, b)' = Of(q, b) /\ Offers(b, q)' = Offers(b, q)
      BY <1>6, <3>2 DEF EntryKept, NoOffer
    <3>4. HoldsOpen(q, b)'
      BY <1>5, <1>6, <3>2, HoldsOpenStays DEF OfferedOnce
    <3> QED
      BY <3>2, <3>3, <3>4 DEF OfferedOnce
  <2>3. joins[q] <= 1 => AnswererOnce(b, q)'
    <3>1. YetToOffer(b, q) /\ joins'[q] = joins[q] /\ stage'[q] = stage[q] /\ channel' = channel
      BY <1>1, <1>2, <1>4, <1>8 DEF YetToOffer
    <3> QED
      BY <1>3, <1>5, <1>6, <1>7, <3>1, AnswererStays DEF Pair
  <2> QED
    BY <1>2, <1>8, <2>1, <2>2, <2>3 DEF Pair
<1>9. CASE d = q
  <2>1. /\ joins'[b] = joins[b] /\ stage'[b] = stage[b] /\ targets'[b] = targets[b]
        /\ q \notin channel'
    BY <1>1, <1>2, <1>4, <1>9
  <2>2. Offerer(b, q)' /\ (joins[b] <= 1 => OfferedOnce(b, q)')
    BY <1>3, <1>5, <1>6, <1>7, <2>1, OffererStays, OfferedStays DEF Pair
  <2>3. ASSUME joins'[q] <= 1 PROVE AnswererOnce(b, q)'
    <3>1. joins[q] = 0 /\ joins[q] <= 1
      BY <1>2, <1>9, <2>3
    <3>2. AnswererOnce(b, q) /\ peers[q][b] = None /\ Offers(b, q) = {}
      BY <1>3, <3>1 DEF Pair, AnswererOnce
    <3>3. peers'[q][b] = None /\ Offers(b, q)' = {}
      BY <1>6, <3>2 DEF EntryKept, NoOffer
    <3>4. HoldsOpen(q, b)'
      BY <1>5, <1>6, <3>2, HoldsOpenStays DEF AnswererOnce
    <3> QED
      BY <2>1, <3>3, <3>4 DEF AnswererOnce
  <2> QED
    BY <2>1, <2>2, <2>3 DEF Pair
<1>10. CASE d # b /\ d # q
  <2>1. /\ joins'[b] = joins[b] /\ stage'[b] = stage[b] /\ targets'[b] = targets[b]
        /\ joins'[q] = joins[q] /\ stage'[q] = stage[q] /\ channel' = channel
    BY <1>1, <1>2, <1>10
  <2> QED
    BY <1>3, <1>5, <1>6, <1>7, <2>1, CalmStep
<1> QED
  BY <1>8, <1>9, <1>10

\* The microphone of d is there: it joins the channel, and offers the first
\* connection.
LEMMA PairAudioReady ==
  ASSUME CallInv, TypeOK', NEW b \in Browsers, NEW q \in Browsers, b # q, b \notin saw[q],
         NEW d \in Browsers, AudioReady(d)
  PROVE  Pair(b, q)'
<1>0. TypeOK /\ Counted /\ TypeOK'
  BY DEF CallInv
<1>1. /\ stage[d] = Audio /\ channel' = channel \cup {d} /\ channel' \subseteq Browsers
      /\ Announce("voice_peer_joined", d) /\ NextMember(d, pc) /\ Sameish(pc)
      /\ joins' = joins
  BY <1>0, AudioReadySame, TypeParts DEF AudioReady, JoinVoice
<1>2. /\ Pair(b, q) /\ Phase(b) /\ Phase(q)
      /\ down[q] \in Seq(Notes) /\ down'[q] \in Seq(Notes)
  BY <1>0, PairFacts, AnnounceIs, <1>1
<1>3. NoOffer(b, q) /\ Calm(b, q)
  <2>1. NoOffer(b, q)
    BY <1>0, <1>1, AnnounceQueue
  <2> QED
    BY <2>1 DEF Calm
<1>4. /\ \A x \in DOMAIN pc : Kept(x)
      /\ stage'[q] = Audio => stage[q] = Audio
      /\ d = b => stage'[b] \notin Of(b, q)
      /\ d # b => stage'[b] = stage[b]
      /\ q \in targets'[b] => q \in targets[b]
      /\ EntryKept(q, b)
      /\ \/ EntryKept(b, q)
         \/ /\ d = b /\ q \in targets[b] /\ q \notin targets'[b] /\ Made(b, q)
            /\ peers'[b][q] = Fresh(b) /\ stage'[b] = Fresh(b)
  BY <1>1, NextTurn
<1>5. CASE ~EntryKept(b, q)
  <2>1. /\ d = b /\ q \in targets[b] /\ q \notin targets'[b] /\ Made(b, q)
        /\ peers'[b][q] = Fresh(b) /\ stage'[b] = Fresh(b)
    BY <1>4, <1>5
  <2>2. joins[b] # 0 /\ (q \in channel' => q \in channel)
    BY <1>1, <1>2, <2>1, Marks DEF Phase
  <2> QED
    BY <1>0, <1>1, <1>2, <1>3, <1>4, <2>1, <2>2, ConnectionMade
<1>6. CASE EntryKept(b, q) /\ d # q
  BY <1>1, <1>2, <1>3, <1>4, <1>6, CalmStep
<1>7. CASE EntryKept(b, q) /\ d = q
  <2>1. /\ stage'[b] = stage[b] /\ joins'[b] = joins[b] /\ q \notin channel
        /\ joins'[q] = joins[q] /\ stage[q] = Audio
    BY <1>1, <1>2, <1>4, <1>7 DEF Phase
  <2>2. Offerer(b, q)' /\ (joins[b] <= 1 => OfferedOnce(b, q)')
    BY <1>2, <1>3, <1>4, <1>7, <2>1, OffererStays, OfferedStays DEF Pair
  <2>3. ASSUME joins[q] <= 1 PROVE AnswererOnce(b, q)'
    <3>1. AnswererOnce(b, q) /\ peers[q][b] = None /\ Offers(b, q) = {}
      BY <1>2, <2>1, <2>3 DEF Pair, AnswererOnce
    <3>2. peers'[q][b] = None /\ Offers(b, q)' = {}
      BY <1>3, <1>4, <3>1 DEF EntryKept, NoOffer
    <3>3. HoldsOpen(q, b)'
      BY <1>4, <3>1, HoldsOpenStays DEF AnswererOnce
    <3> QED
      BY <3>2, <3>3 DEF AnswererOnce, Apart, WillBeClear
  <2> QED
    BY <2>1, <2>2, <2>3 DEF Pair
<1> QED
  BY <1>5, <1>6, <1>7

\* The offer of b to q is sent.
LEMMA OfferSent ==
  ASSUME CallInv, NEW b \in Browsers, NEW q \in Browsers, b # q, b \notin saw[q],
         down'[q] \in Seq(Notes), {b, q} \subseteq channel, channel' = channel, joins' = joins,
         stage[b] \in Of(b, q), \A x \in DOMAIN pc : Kept(x),
         EntryKept(b, q), EntryKept(q, b), stage'[b] \notin Of(b, q),
         q \in targets'[b] => q \in targets[b], stage'[q] = Audio => stage[q] = Audio,
         Len(down[q]) + 1 \notin Offers(b, q),
         Offers(b, q)' = Offers(b, q) \cup {Len(down[q]) + 1}, Lefts(b, q)' = Lefts(b, q)
  PROVE  Pair(b, q)'
<1>1. Pair(b, q) /\ Phase(b) /\ Phase(q) /\ down[q] \in Seq(Notes)
  BY PairFacts
<1>2. /\ \A i \in Offers(b, q) : i \in Nat /\ i < Len(down[q]) + 1
      /\ \A k \in Lefts(b, q) : k \in Nat /\ k < Len(down[q]) + 1
  BY <1>1 DEF Offers, Lefts
<1>3. Offerer(b, q)'
  BY <1>1, OffererStays DEF Pair
<1>4. ASSUME joins[b] <= 1 PROVE OfferedOnce(b, q)'
  <2>1. OfferedOnce(b, q) /\ Of(q, b) = {} /\ Offers(b, q) = {}
    BY <1>1, <1>4 DEF Pair, OfferedOnce
  <2>2. Of(q, b)' = {} /\ Of(b, q)' = Of(b, q) /\ Offers(b, q)' = {Len(down[q]) + 1}
    BY <2>1 DEF EntryKept
  <2>3. HoldsOpen(q, b)'
    BY <2>2 DEF HoldsOpen
  <2> QED
    BY <2>1, <2>2, <2>3 DEF OfferedOnce
<1>5. ASSUME joins[q] <= 1 PROVE AnswererOnce(b, q)'
  <2>1. AnswererOnce(b, q)
    BY <1>1, <1>5 DEF Pair
  <2>2. HoldsOpen(q, b)'
    BY <2>1, HoldsOpenStays DEF AnswererOnce
  <2>3. joins[q] # 0 /\ stage[q] # Audio
    BY <1>1 DEF Phase
  <2>4. Apart(b, q) /\ WillBeClear(b, q)
    BY <2>1 DEF AnswererOnce, YetToOffer
  <2>5. ASSUME NEW i \in Offers(b, q)', NEW j \in Offers(b, q)', i < j
        PROVE  \E k \in Lefts(b, q)' : i < k /\ k < j
    <3>1. i \in Offers(b, q)
      BY <1>1, <1>2, <2>5
    <3>2. CASE j \in Offers(b, q)
      BY <2>4, <2>5, <3>1, <3>2 DEF Apart
    <3>3. CASE j = Len(down[q]) + 1
      <4>1. PICK k \in Lefts(b, q) : \A h \in Offers(b, q) : h < k
        BY <2>4, <3>1 DEF WillBeClear
      <4> QED
        BY <1>2, <3>1, <3>3, <4>1
    <3> QED
      BY <3>2, <3>3
  <2>6. ASSUME NEW i \in Offers(b, q)', peers'[q][b] # None
        PROVE  \E k \in Lefts(b, q)' : k < i
    <3>1. peers[q][b] # None
      BY <2>6 DEF EntryKept
    <3>2. CASE i \in Offers(b, q)
      BY <2>4, <3>1, <3>2 DEF Apart
    <3>3. CASE i = Len(down[q]) + 1
      BY <1>2, <2>4, <3>1, <3>3 DEF WillBeClear
    <3> QED
      BY <3>2, <3>3
  <2>7. Apart(b, q)'
    BY <2>5, <2>6 DEF Apart
  <2>8. ~YetToOffer(b, q)'
    <3>1. q \notin targets[b]
      BY <1>1 DEF Phase, Of, Own
    <3> QED
      BY <3>1 DEF YetToOffer, EntryKept
  <2> QED
    BY <2>2, <2>3, <2>7, <2>8 DEF AnswererOnce
<1> QED
  BY <1>3, <1>4, <1>5 DEF Pair

\* An offer of d is ready, to whomever it is.
LEMMA PairOfferReady ==
  ASSUME CallInv, TypeOK', NEW b \in Browsers, NEW q \in Browsers, b # q, b \notin saw[q],
         NEW d \in Browsers, OfferReady(d)
  PROVE  Pair(b, q)'
<1>0. TypeOK /\ Counted /\ TypeOK'
  BY DEF CallInv
<1> DEFINE x == stage[d]
<1>1. x \in DOMAIN pc /\ x \in Ends /\ x[1] = d /\ pc[x].peer \in Browsers
  <2>1. x \in DOMAIN pc
    BY DEF OfferReady
  <2>2. x \in Ends /\ pc[x] \in Connections /\ (x \in {Idle, Audio} \/ x[1] = d)
    BY <1>0, <2>1, TypeParts
  <2>3. pc[x].peer \in Browsers
    BY <2>2 DEF Connections
  <2> QED
    BY <2>1, <2>2, <2>3, Marks
<1>2. /\ joins' = joins /\ channel' = channel
      /\ \/ RelayVoice(d, "voice_offer", pc[x].peer, x)
         \/ UNCHANGED down
      /\ \E cs : Sameish(cs) /\ NextMember(d, cs)
  BY <1>0, <1>1, AudioReadySame, OfferReadySame DEF OfferReady, RelayVoice
<1>3. /\ Pair(b, q) /\ Phase(b) /\ Phase(q)
      /\ down[q] \in Seq(Notes) /\ down'[q] \in Seq(Notes)
  <2>1. Pair(b, q) /\ Phase(b) /\ Phase(q) /\ down[q] \in Seq(Notes)
    BY PairFacts
  <2>2. down'[q] \in Seq(Notes)
    BY <1>0 DEF TypeOK
  <2> QED
    BY <2>1, <2>2
<1>4. /\ \A y \in DOMAIN pc : Kept(y)
      /\ stage'[q] = Audio => stage[q] = Audio
      /\ d = b => stage'[b] \notin Of(b, q)
      /\ d # b => stage'[b] = stage[b]
      /\ q \in targets'[b] => q \in targets[b]
      /\ EntryKept(q, b)
      /\ \/ EntryKept(b, q)
         \/ /\ d = b /\ q \in targets[b] /\ q \notin targets'[b] /\ Made(b, q)
            /\ peers'[b][q] = Fresh(b) /\ stage'[b] = Fresh(b)
  BY <1>2, NextTurn
<1>5. \/ NoOffer(b, q)
      \/ /\ d = b /\ pc[x].peer = q /\ {b, q} \subseteq channel
         /\ Len(down[q]) + 1 \notin Offers(b, q)
         /\ Offers(b, q)' = Offers(b, q) \cup {Len(down[q]) + 1}
         /\ Lefts(b, q)' = Lefts(b, q)
  <2>1. CASE UNCHANGED down
    BY <2>1, SameQueue
  <2>2. CASE RelayVoice(d, "voice_offer", pc[x].peer, x)
    <3> HIDE DEF x
    <3> QED
      BY <1>0, <1>1, <2>2, RelayQueue
  <2> QED
    BY <1>2, <2>1, <2>2
<1>6. CASE NoOffer(b, q) /\ EntryKept(b, q)
  <2>1. stage'[b] \in Of(b, q) => stage[b] \in Of(b, q)
    BY <1>4
  <2>2. Calm(b, q) /\ joins'[b] = joins[b] /\ joins'[q] = joins[q]
    BY <1>2, <1>6 DEF Calm
  <2> QED
    BY <1>2, <1>3, <1>4, <1>6, <2>1, <2>2, CalmStep
<1>7. CASE NoOffer(b, q) /\ ~EntryKept(b, q)
  <2>1. /\ d = b /\ q \in targets[b] /\ q \notin targets'[b] /\ Made(b, q)
        /\ peers'[b][q] = Fresh(b) /\ stage'[b] = Fresh(b)
    BY <1>4, <1>7
  <2>2. joins[b] # 0
    BY <1>1, <1>3, <2>1, Marks DEF Phase
  <2> QED
    BY <1>0, <1>2, <1>3, <1>4, <1>7, <2>1, <2>2, ConnectionMade
<1>8. CASE /\ d = b /\ pc[x].peer = q /\ {b, q} \subseteq channel
           /\ Len(down[q]) + 1 \notin Offers(b, q)
           /\ Offers(b, q)' = Offers(b, q) \cup {Len(down[q]) + 1}
           /\ Lefts(b, q)' = Lefts(b, q)
  <2>1. stage[b] \in Of(b, q)
    BY <1>1, <1>8 DEF Of, Own
  <2>2. q \notin targets[b]
    BY <1>1, <1>3, <1>8 DEF Phase
  <2>3. EntryKept(b, q) /\ stage'[b] \notin Of(b, q)
    BY <1>4, <1>8, <2>2
  <2> QED
    BY <1>2, <1>3, <1>4, <1>8, <2>1, <2>3, OfferSent
<1> QED
  BY <1>5, <1>6, <1>7, <1>8

\* d leaves the call.
LEMMA PairLeave ==
  ASSUME CallInv, TypeOK', NEW b \in Browsers, NEW q \in Browsers, b # q, b \notin saw[q],
         NEW d \in Browsers, Leave(d)
  PROVE  Pair(b, q)'
<1>0. TypeOK /\ Counted /\ TypeOK'
  BY DEF CallInv
<1>1. /\ stage[d] = Idle /\ shown[d] /\ channel' = channel \ {d} /\ pc' = CloseAll(d)
      /\ peers' = [peers EXCEPT ![d] = [e \in Browsers |-> None]]
      /\ UNCHANGED <<joins, stage, targets>>
      /\ IF d \in channel THEN Announce("voice_peer_left", d) ELSE UNCHANGED down
      /\ channel' \subseteq Browsers
  BY <1>0, TypeParts DEF Leave, LeaveVoice, joinVars
<1>2. /\ Pair(b, q) /\ Phase(b) /\ Phase(q) /\ Phase(d)
      /\ down[q] \in Seq(Notes) /\ down'[q] \in Seq(Notes)
  <2>1. Pair(b, q) /\ Phase(b) /\ Phase(q) /\ down[q] \in Seq(Notes)
    BY PairFacts
  <2>2. down'[q] \in Seq(Notes)
    BY <1>0 DEF TypeOK
  <2>3. Phase(d)
    BY DEF CallInv, Phases
  <2> QED
    BY <2>1, <2>2, <2>3
<1>3. d \in channel
  BY <1>1, <1>2, Marks DEF Phase
<1>4. /\ NoOffer(b, q)
      /\ d = b /\ q \in channel =>
           \E k \in Lefts(b, q)' : \A i \in Offers(b, q)' : i < k
  <2>1. Announce("voice_peer_left", d)
    BY <1>1, <1>3
  <2>2. /\ NoOffer(b, q)
        /\ d = b /\ q \in channel' \ {b} =>
             \E k \in Lefts(b, q)' : \A i \in Offers(b, q)' : i < k
    BY <1>0, <1>1, <2>1, AnnounceQueue
  <2> QED
    BY <1>1, <2>2
<1>5. NoneMade /\ \A x \in DOMAIN pc : (\E e \in Browsers : peers[d][e] = x) => ~pc'[x].open
  BY <1>0, <1>1, LeaveIs
<1>6. ASSUME NEW e \in Browsers, NEW f \in Browsers PROVE EntryKept(e, f)
  <2>1. CASE e = d
    <3>1. peers'[e][f] = None
      BY <1>0, <1>1, <2>1, TypeParts
    <3>2. Of(e, f)' = Of(e, f) /\ \A x \in Of(e, f) : x \in DOMAIN pc
      <4>1. Of(e, f)' = Of(e, f)
        BY <1>0, <1>5, OfNoneMade
      <4> QED
        BY <4>1 DEF Of, Own
    <3>3. ASSUME NEW x \in Of(e, f), x = peers[e][f] PROVE ~pc'[x].open
      <4>1. x \in DOMAIN pc /\ \E g \in Browsers : peers[d][g] = x
        BY <2>1, <3>2, <3>3
      <4> QED
        BY <1>5, <4>1
    <3> QED
      BY <3>1, <3>2, <3>3 DEF EntryKept
  <2>2. CASE e # d
    <3>1. peers'[e][f] = peers[e][f]
      BY <1>0, <1>1, <2>2, TypeParts
    <3> QED
      BY <1>0, <1>5, <3>1, EntrySame
  <2> QED
    BY <2>1, <2>2
<1>7. q \in channel /\ b \in channel /\ b \notin channel' => WillBeClear(b, q)'
  BY <1>1, <1>4 DEF WillBeClear
<1>8. /\ \A x \in DOMAIN pc : Kept(x)
      /\ EntryKept(b, q) /\ EntryKept(q, b) /\ Calm(b, q)
  BY <1>4, <1>5, <1>6 DEF NoneMade, Calm
<1> QED
  BY <1>1, <1>2, <1>7, <1>8, CalmStep

\* q receives an offer of b: it has no connection to b that is open.
LEMMA OfferComes ==
  ASSUME CallInv, TypeOK', NEW b \in Browsers, NEW q \in Browsers, b # q, b \notin saw[q],
         1 \in Offers(b, q), Taken(b, q), \A x \in DOMAIN pc : Kept(x), EntryKept(b, q),
         IF active[q] THEN Made(q, b) /\ peers'[q][b] = Fresh(q) ELSE EntryKept(q, b),
         UNCHANGED <<channel, joins, stage, targets>>
  PROVE  Pair(b, q)'
<1>0. /\ Pair(b, q) /\ Phase(b) /\ Phase(q) /\ TypeOK /\ Counted
      /\ \A i \in Offers(b, q) : i \in Nat \ {0}
      /\ \A i \in Lefts(b, q) : i \in Nat \ {0}
      /\ \A i \in Offers(b, q)' : i \in Nat
  <2>1. Pair(b, q) /\ Phase(b) /\ Phase(q) /\ down[q] \in Seq(Notes)
    BY PairFacts
  <2> QED
    BY <2>1, OffersNat DEF CallInv, Offers
<1>1. Offerer(b, q)'
  BY <1>0, OffererStays DEF Pair
<1>2. ASSUME OfferedOnce(b, q) \/ AnswererOnce(b, q) PROVE HoldsOpen(q, b)'
  <2>1. HoldsOpen(q, b)
    BY <1>2 DEF OfferedOnce, AnswererOnce
  <2>2. CASE ~active[q]
    BY <2>1, <2>2, HoldsOpenStays
  <2>3. CASE active[q] /\ OfferedOnce(b, q)
    <3>1. Of(q, b) = {}
      BY <2>3 DEF OfferedOnce
    <3>2. Of(q, b)' = {Fresh(q)}
      BY <1>0, <2>3, <3>1, OfMade
    <3> QED
      BY <2>3, <3>2 DEF HoldsOpen
  <2>4. CASE active[q] /\ AnswererOnce(b, q)
    <3>1. q \in channel
      BY <1>0, <2>4 DEF AnswererOnce, Phase
    <3>2. peers[q][b] = None
      <4>1. ~ \E k \in Lefts(b, q) : k < 1
        BY <1>0
      <4> QED
        BY <2>4, <3>1, <4>1 DEF AnswererOnce, Apart
    <3> QED
      BY <1>0, <2>1, <2>4, <3>2, HoldsOpenMade
  <2> QED
    BY <1>2, <2>2, <2>3, <2>4
<1>3. ASSUME joins[b] <= 1 PROVE OfferedOnce(b, q)'
  <2>1. OfferedOnce(b, q)
    BY <1>0, <1>3 DEF Pair
  <2>2. \A i \in Offers(b, q)' : FALSE
    <3>1. \A i \in Offers(b, q) : i = 1
      BY <2>1 DEF OfferedOnce
    <3>2. \A i \in Offers(b, q)' : i + 1 = 1
      BY <3>1 DEF Taken
    <3> SUFFICES ASSUME NEW i \in Offers(b, q)' PROVE FALSE
      OBVIOUS
    <3>3. i + 1 = 1 /\ i \in Nat /\ i # 0
      BY <3>2 DEF Offers
    <3> QED
      BY <3>3
  <2>3. /\ Of(b, q)' = Of(b, q) /\ Of(q, b) = {}
        /\ ~(Of(b, q) = {} \/ stage[b] \in Of(b, q))
        /\ ~(joins[b] = 0 \/ q \in targets[b])
    BY <2>1 DEF OfferedOnce, EntryKept
  <2>4. \A x, y \in Of(q, b)' : x = y
    <3>1. CASE active[q]
      BY <1>0, <2>3, <3>1, OfMade
    <3>2. CASE ~active[q]
      BY <2>3, <3>2 DEF EntryKept
    <3> QED
      BY <3>1, <3>2
  <2> QED
    BY <1>2, <2>1, <2>2, <2>3, <2>4 DEF OfferedOnce
<1>4. ASSUME joins[q] <= 1 PROVE AnswererOnce(b, q)'
  <2>1. AnswererOnce(b, q)
    BY <1>0, <1>4 DEF Pair
  <2>2. joins[q] # 0 /\ stage[q] # Audio
    BY <2>1 DEF AnswererOnce
  <2>3. ASSUME q \in channel PROVE Apart(b, q)'
    <3>1. Apart(b, q)
      BY <2>1, <2>3 DEF AnswererOnce
    <3>2. ASSUME NEW i \in Offers(b, q), NEW j \in Offers(b, q)', i < j + 1
          PROVE  \E k \in Lefts(b, q)' : i - 1 < k /\ k < j
      <4>1. PICK k \in Lefts(b, q) : i < k /\ k < j + 1
        BY <3>1, <3>2 DEF Apart, Taken
      <4>2. k # 1
        BY <1>0, <4>1
      <4>3. k - 1 \in Lefts(b, q)'
        BY <4>2 DEF Taken
      <4> QED
        BY <1>0, <4>1, <4>3
    <3>3. ASSUME NEW i \in Offers(b, q)', NEW j \in Offers(b, q)', i < j
          PROVE  \E k \in Lefts(b, q)' : i < k /\ k < j
      <4>1. i + 1 \in Offers(b, q) /\ i + 1 < j + 1
        BY <1>0, <3>3 DEF Taken
      <4>2. \E k \in Lefts(b, q)' : (i + 1) - 1 < k /\ k < j
        BY <3>2, <4>1
      <4> QED
        BY <1>0, <4>2
    <3>4. ASSUME NEW i \in Offers(b, q)' PROVE \E k \in Lefts(b, q)' : k < i
      <4>1. 1 < i + 1
        BY DEF Offers
      <4> QED
        BY <3>2, <4>1
    <3> QED
      BY <3>3, <3>4 DEF Apart
  <2>4. ASSUME q \in channel, YetToOffer(b, q)' PROVE WillBeClear(b, q)'
    <3>1. YetToOffer(b, q)
      BY <2>4 DEF YetToOffer, EntryKept
    <3>2. WillBeClear(b, q)
      BY <2>1, <2>4, <3>1 DEF AnswererOnce
    <3>3. PICK k \in Lefts(b, q) : \A i \in Offers(b, q) : i < k
      BY <3>2 DEF WillBeClear
    <3>4. 1 < k /\ k - 1 \in Lefts(b, q)'
      BY <3>3 DEF Taken
    <3>5. ASSUME NEW i \in Offers(b, q)' PROVE i < k - 1
      <4>1. i + 1 < k
        BY <3>3 DEF Taken
      <4> QED
        BY <1>0, <4>1
    <3> QED
      BY <3>4, <3>5 DEF WillBeClear
  <2> QED
    BY <1>2, <2>1, <2>2, <2>3, <2>4 DEF AnswererOnce
<1> QED
  BY <1>1, <1>3, <1>4 DEF Pair

\* What a message does to the entries of peers and their connections.
LEMMA ReceiveEntries ==
  ASSUME CallInv, NEW d \in Browsers, Receive(d), NEW m, m = down[d][1]
  PROVE  /\ m.from \in Browsers
         /\ m.type = "voice_peer_left" => peers'[d][m.from] = None
         /\ IF m.type = "voice_offer" /\ active[d]
              THEN /\ Made(d, m.from) /\ peers'[d][m.from] = Fresh(d)
                   /\ \A e, f \in Browsers : (e = d /\ f = m.from) \/ EntryKept(e, f)
              ELSE \A e, f \in Browsers : EntryKept(e, f)
<1> DEFINE x == peers[d][m.from]
<1>0. TypeOK /\ Counted /\ Routed
  BY DEF CallInv
<1>1. m \in Notes /\ Head(down[d]) = m /\ 1 \in 1..Len(down[d])
  <2>1. Len(down[d]) \in Nat \ {0} /\ Head(down[d]) = m /\ m \in Notes
    BY <1>0, ReceiveIs
  <2> QED
    BY <2>1
<1>2. m.from \in Browsers
  BY <1>1 DEF Notes
<1>3. Holds(d, m.from)
  BY <1>0, <1>2, TypeParts
<1>4. \/ VoiceState(d, m) \/ HandlePeerLeft(d, m)
      \/ HandleOffer(d, m) \/ HandleAnswer(d, m) \/ HandleIce(d, m)
  BY <1>1 DEF Receive
<1>5. ASSUME pc' = pc, peers' = peers, NEW e, NEW f PROVE EntryKept(e, f)
  BY <1>5 DEF EntryKept, Of, Own
<1> HIDE DEF x
<1>6. CASE VoiceState(d, m) \/ HandleAnswer(d, m)
  <2>1. m.type \notin {"voice_peer_left", "voice_offer"} /\ pc' = pc /\ peers' = peers
    BY <1>6 DEF VoiceState, HandleAnswer, rtcVars
  <2> QED
    BY <1>2, <1>5, <2>1
<1>7. CASE HandlePeerLeft(d, m)
  <2>1. /\ m.type = "voice_peer_left"
        /\ pc' = IF x = None THEN pc ELSE [pc EXCEPT ![x] = Closed(@)]
        /\ peers' = [peers EXCEPT ![d][m.from] = None]
    BY <1>7 DEF HandlePeerLeft, x
  <2>2. \A e, f \in Browsers :
          peers'[e][f] = IF e = d /\ f = m.from THEN None ELSE peers[e][f]
    BY <1>0, <1>2, <2>1, TypeParts
  <2>3. NoneMade /\ (x # None => ~pc'[x].open)
    <3>1. CASE x = None
      <4>1. \A y \in DOMAIN pc : pc[y] \in Connections
        BY <1>0, TypeParts
      <4> QED
        BY <2>1, <3>1, <4>1 DEF NoneMade, Kept
    <3>2. CASE x # None
      <4>1. x \in DOMAIN pc
        BY <1>3, <3>2 DEF Holds, x
      <4> QED
        BY <1>0, <2>1, <3>2, <4>1, CloseOne
    <3> QED
      BY <3>1, <3>2
  <2>4. ASSUME NEW e \in Browsers, NEW f \in Browsers PROVE EntryKept(e, f)
    <3>1. CASE e = d /\ f = m.from
      <4>1. Of(e, f)' = Of(e, f) /\ peers'[e][f] = None
        BY <1>0, <2>2, <2>3, <3>1, OfNoneMade
      <4>2. ASSUME NEW y \in Of(e, f), y = peers[e][f] PROVE ~pc'[y].open
        <5>1. y \in DOMAIN pc
          BY DEF Of, Own
        <5>2. y # None
          BY <1>0, <5>1, Marks, TypeParts
        <5> QED
          BY <2>3, <3>1, <4>2, <5>2 DEF x
      <4> QED
        BY <4>1, <4>2 DEF EntryKept
    <3>2. CASE ~(e = d /\ f = m.from)
      <4>1. peers'[e][f] = peers[e][f]
        BY <2>2, <3>2
      <4> QED
        BY <1>0, <2>3, <4>1, EntrySame
    <3> QED
      BY <3>1, <3>2
  <2> QED
    BY <1>2, <2>1, <2>2, <2>4
<1>8. CASE HandleOffer(d, m) /\ active[d]
  <2>1. /\ m.type = "voice_offer" /\ pc' = WithNew(pc, d, m.from)
        /\ peers' = [peers EXCEPT ![d][m.from] = Fresh(d)]
    BY <1>8 DEF HandleOffer
  <2>2. \A e, f \in Browsers :
          peers'[e][f] = IF e = d /\ f = m.from THEN Fresh(d) ELSE peers[e][f]
    BY <1>0, <1>2, <2>1, TypeParts
  <2>3. Made(d, m.from)
    <3>1. /\ DOMAIN pc' = DOMAIN pc \cup {Fresh(d)}
          /\ \A y \in DOMAIN pc : pc'[y] = pc[y]
          /\ pc'[Fresh(d)] = [New EXCEPT !.peer = m.from]
      BY <1>0, <1>2, <2>1, WithNewIs
    <3>2. \A y \in DOMAIN pc : pc[y] \in Connections
      BY <1>0, TypeParts
    <3> QED
      BY <3>1, <3>2 DEF Made, Kept
  <2>4. ASSUME NEW e \in Browsers, NEW f \in Browsers, ~(e = d /\ f = m.from)
        PROVE  EntryKept(e, f)
    <3>1. peers'[e][f] = peers[e][f]
      BY <2>2, <2>4
    <3> QED
      BY <1>0, <1>2, <2>3, <2>4, <3>1, EntrySameMade
  <2> QED
    BY <1>2, <1>8, <2>1, <2>2, <2>3, <2>4
<1>9. CASE HandleOffer(d, m) /\ ~active[d]
  <2>1. m.type = "voice_offer" /\ pc' = pc /\ peers' = peers
    BY <1>9 DEF HandleOffer
  <2> QED
    BY <1>2, <1>5, <1>9, <2>1
<1>10. CASE HandleIce(d, m)
  <2>1. m.type = "voice_ice" /\ peers' = peers /\ (pc' = pc \/ (x # None /\ AddedIce(x, m.pc)))
    BY <1>10 DEF HandleIce, AddedIce, x
  <2>2. CASE pc' = pc
    BY <1>2, <1>5, <2>1, <2>2
  <2>3. CASE x # None /\ AddedIce(x, m.pc)
    <3>1. x \in DOMAIN pc
      BY <1>3, <2>3 DEF Holds, x
    <3>2. m.pc \in Ends
      <4>1. m.pc \in DOMAIN pc
        BY <1>0, <1>1, <2>1 DEF Routed, Proper
      <4> QED
        BY <1>0, <4>1, TypeParts
    <3>3. NoneMade
      BY <1>0, <2>3, <3>1, <3>2, AddedIceIs
    <3>4. \A e, f \in Browsers : EntryKept(e, f)
      BY <1>0, <2>1, <3>3, EntrySame
    <3> QED
      BY <1>2, <2>1, <3>4
  <2> QED
    BY <2>1, <2>2, <2>3
<1> QED
  BY <1>4, <1>6, <1>7, <1>8, <1>9, <1>10

LEMMA PairReceive ==
  ASSUME CallInv, TypeOK', [Next]_vars,
         NEW b \in Browsers, NEW q \in Browsers, b # q, b \notin saw[q],
         NEW d \in Browsers, Receive(d)
  PROVE  Pair(b, q)'
<1> DEFINE m == down[d][1]
<1>0. TypeOK /\ Counted /\ TypeOK'
  BY DEF CallInv
<1>1. \A x \in DOMAIN pc : Kept(x)
  BY StepConnections DEF NoneMade, Made
<1>2. UNCHANGED <<channel, joins, stage, targets>>
  BY DEF Receive, joinVars
<1>3. /\ Pair(b, q) /\ down[q] \in Seq(Notes) /\ down'[q] \in Seq(Notes)
      /\ \A i \in 1..Len(down[b]) : ~(down[b][i].type = "voice_offer" /\ down[b][i].from = q)
  <2>1. down'[q] \in Seq(Notes)
    BY <1>0 DEF TypeOK
  <2> QED
    BY <2>1, PairFacts
<1>4. /\ m.from \in Browsers
      /\ m.type = "voice_peer_left" => peers'[d][m.from] = None
      /\ IF m.type = "voice_offer" /\ active[d]
           THEN /\ Made(d, m.from) /\ peers'[d][m.from] = Fresh(d)
                /\ \A e, f \in Browsers : (e = d /\ f = m.from) \/ EntryKept(e, f)
           ELSE \A e, f \in Browsers : EntryKept(e, f)
  BY ReceiveEntries
<1>5. ASSUME EntryKept(b, q), EntryKept(q, b), Calm(b, q) PROVE Pair(b, q)'
  <2>1. /\ joins'[b] = joins[b] /\ joins'[q] = joins[q] /\ stage'[q] = stage[q]
        /\ stage'[b] = stage[b] /\ targets'[b] = targets[b] /\ channel' = channel
    BY <1>2
  <2> QED
    BY <1>1, <1>3, <1>5, <2>1, CalmStep
<1>6. CASE d # q
  <2>1. Calm(b, q)
    <3>1. down'[q] = down[q]
      BY <1>0, <1>6, ReceiveIs
    <3> QED
      BY <3>1, SameQueue DEF Calm
  <2>2. ~(m.type = "voice_offer" /\ d = b /\ m.from = q)
    <3>1. 1 \in 1..Len(down[d])
      <4>1. Len(down[d]) \in Nat \ {0}
        BY <1>0, ReceiveIs
      <4> QED
        BY <4>1
    <3> QED
      BY <1>3, <3>1
  <2> HIDE DEF m
  <2>3. EntryKept(b, q) /\ EntryKept(q, b)
    BY <1>4, <1>6, <2>2
  <2> QED
    BY <1>5, <2>1, <2>3
<1>7. CASE d = q
  <2>1. /\ Taken(b, q)
        /\ 1 \in Offers(b, q) <=> m.type = "voice_offer" /\ m.from = b
        /\ 1 \in Lefts(b, q) <=> m.type = "voice_peer_left" /\ m.from = b
    BY <1>0, <1>7, ReceiveQueue
  <2> HIDE DEF m
  <2>2. CASE 1 \in Offers(b, q)
    <3>1. IF active[q] THEN Made(q, b) /\ peers'[q][b] = Fresh(q) ELSE EntryKept(q, b)
      BY <1>4, <1>7, <2>1, <2>2
    <3>2. EntryKept(b, q)
      BY <1>4, <1>7
    <3> QED
      BY <1>1, <1>2, <2>1, <2>2, <3>1, <3>2, OfferComes
  <2>3. CASE 1 \notin Offers(b, q)
    <3>1. EntryKept(b, q) /\ EntryKept(q, b)
      BY <1>4, <1>7, <2>1, <2>3
    <3>2. Calm(b, q)
      BY <1>4, <1>7, <2>1, <2>3 DEF Calm
    <3> QED
      BY <1>5, <3>1, <3>2
  <2> QED
    BY <2>2, <2>3
<1> QED
  BY <1>6, <1>7

\* A description is set, a candidate is found.
LEMMA PairOthers ==
  ASSUME CallInv, TypeOK', NEW b \in Browsers, NEW q \in Browsers, b # q, b \notin saw[q],
         NoneMade, peers' = peers, UNCHANGED joinVars, channel' = channel, NoOffer(b, q)
  PROVE  Pair(b, q)'
<1>1. Pair(b, q) /\ down[q] \in Seq(Notes) /\ down'[q] \in Seq(Notes)
  <2>1. down'[q] \in Seq(Notes)
    BY DEF TypeOK
  <2> QED
    BY <2>1, PairFacts
<1>2. EntryKept(b, q) /\ EntryKept(q, b) /\ Calm(b, q) /\ \A x \in DOMAIN pc : Kept(x)
  <2>1. EntryKept(b, q) /\ EntryKept(q, b)
    BY EntrySame DEF CallInv
  <2> QED
    BY <2>1 DEF Calm, NoneMade
<1>3. /\ joins'[b] = joins[b] /\ joins'[q] = joins[q] /\ stage'[q] = stage[q]
      /\ stage'[b] = stage[b] /\ targets'[b] = targets[b]
  BY DEF joinVars
<1> QED
  BY <1>1, <1>2, <1>3, CalmStep

LEMMA PairFailed ==
  ASSUME CallInv, TypeOK', NEW b \in Browsers, NEW q \in Browsers, b # q, b \notin saw[q],
         NEW x \in DOMAIN pc, OnFailed(x)
  PROVE  Pair(b, q)'
<1>0. TypeOK
  BY DEF CallInv
<1>1. /\ pc[x].open /\ pc' = [pc EXCEPT ![x] = Closed(@)]
      /\ peers' = [peers EXCEPT ![x[1]][pc[x].peer] = None]
      /\ UNCHANGED <<channel, down, joinVars>>
  BY DEF OnFailed, Fails
<1>2. x[1] \in Browsers /\ pc[x].peer \in Browsers
  <2>1. x \in Ends /\ pc[x] \in Connections
    BY <1>0, TypeParts
  <2> QED
    BY <2>1 DEF Ends, Connections
<1>3. NoneMade /\ ~pc'[x].open
  BY <1>0, <1>1, CloseOne
<1>4. \A e, f \in Browsers :
        peers'[e][f] = IF e = x[1] /\ f = pc[x].peer THEN None ELSE peers[e][f]
  BY <1>0, <1>1, <1>2, TypeParts
<1>5. Pair(b, q) /\ down[q] \in Seq(Notes) /\ down'[q] \in Seq(Notes)
  <2>1. down'[q] \in Seq(Notes)
    BY DEF TypeOK
  <2> QED
    BY <2>1, PairFacts
<1>6. ASSUME NEW e \in Browsers, NEW f \in Browsers, HoldsOpen(e, f) PROVE EntryKept(e, f)
  <2>1. CASE e = x[1] /\ f = pc[x].peer
    <3>1. Of(e, f)' = Of(e, f) /\ peers'[e][f] = None
      BY <1>0, <1>3, <1>4, <2>1, OfNoneMade
    <3>2. peers[e][f] = x
      BY <1>1, <1>6, <2>1 DEF HoldsOpen, Of, Own
    <3> QED
      BY <1>3, <3>1, <3>2 DEF EntryKept
  <2>2. CASE ~(e = x[1] /\ f = pc[x].peer)
    <3>1. peers'[e][f] = peers[e][f]
      BY <1>4, <2>2
    <3> QED
      BY <1>0, <1>3, <3>1, EntrySame
  <2> QED
    BY <2>1, <2>2
<1>7. EntryKept(b, q)
  BY <1>5, <1>6 DEF Pair, Offerer
<1>8. Calm(b, q) /\ \A z \in DOMAIN pc : Kept(z)
  <2>1. NoOffer(b, q)
    BY <1>1, SameQueue
  <2> QED
    BY <1>3, <2>1 DEF Calm, NoneMade
<1>9. /\ joins'[b] = joins[b] /\ joins'[q] = joins[q] /\ stage'[q] = stage[q]
      /\ stage'[b] = stage[b] /\ targets'[b] = targets[b] /\ channel' = channel
  BY <1>1 DEF joinVars
<1>10. CASE HoldsOpen(q, b)
  <2>1. EntryKept(q, b)
    BY <1>6, <1>10
  <2> QED
    BY <1>5, <1>7, <1>8, <1>9, <2>1, CalmStep
<1>11. CASE ~HoldsOpen(q, b)
  <2>1. ~(joins[b] <= 1) /\ ~(joins[q] <= 1)
    BY <1>5, <1>11 DEF Pair, OfferedOnce, AnswererOnce
  <2>2. Offerer(b, q)'
    BY <1>5, <1>7, <1>8, <1>9, OffererStays DEF Pair
  <2> QED
    BY <1>9, <2>1, <2>2 DEF Pair
<1> QED
  BY <1>10, <1>11

LEMMA StepPairs ==
  ASSUME CallInv, TypeOK', [Next]_vars PROVE Pairs'
<1> SUFFICES ASSUME NEW b \in Browsers, NEW q \in Browsers, b # q, b \notin saw'[q]
             PROVE  Pair(b, q)'
  BY DEF Pairs
<1>0. b \notin saw[q] /\ TypeOK
  BY SawGrows DEF CallInv
<1>1. ASSUME NEW d \in Browsers, Join(d) \/ AudioReady(d) \/ OfferReady(d) \/ Leave(d) \/ Receive(d)
      PROVE  Pair(b, q)'
  BY <1>0, <1>1, PairJoin, PairAudioReady, PairOfferReady, PairLeave, PairReceive
<1>2. ASSUME NEW x \in DOMAIN pc, NEW type \in {"voice_offer", "voice_answer", "voice_ice"},
             RelayVoice(x[1], type, pc[x].peer, x) \/ UNCHANGED <<channel, down>>,
             type # "voice_offer"
      PROVE  NoOffer(b, q) /\ channel' = channel
  <2>1. x \in Ends /\ x[1] \in Browsers /\ pc[x].peer \in Browsers
    <3>1. x \in Ends /\ pc[x] \in Connections
      BY <1>0, TypeParts
    <3> QED
      BY <3>1 DEF Ends, Connections
  <2>2. CASE RelayVoice(x[1], type, pc[x].peer, x)
    <3>1. channel' = channel
      BY <2>2 DEF RelayVoice
    <3> QED
      BY <1>0, <1>2, <2>1, <2>2, <3>1, RelayQueue
  <2>3. CASE UNCHANGED <<channel, down>>
    BY <2>3, SameQueue
  <2> QED
    BY <1>2, <2>2, <2>3
<1>3. ASSUME NEW d \in applying, Described(d) PROVE Pair(b, q)'
  <2>1. d.pc \in DOMAIN pc /\ d.of \in DOMAIN pc
    BY <1>0, TypeParts
  <2>2. /\ SetRemote(d.pc, d.of) \/ pc' = pc
        /\ \/ RelayVoice(d.pc[1], "voice_answer", pc[d.pc].peer, d.pc)
           \/ UNCHANGED <<channel, down>>
        /\ peers' = peers /\ UNCHANGED joinVars
    BY <1>3 DEF Described
  <2>3. NoOffer(b, q) /\ channel' = channel
    BY <1>2, <2>1, <2>2
  <2>4. NoneMade
    <3>1. CASE SetRemote(d.pc, d.of)
      BY <1>0, <2>1, <3>1, SetRemoteIs
    <3>2. CASE pc' = pc
      BY <1>0, <3>2, TypeParts DEF NoneMade, Kept
    <3> QED
      BY <2>2, <3>1, <3>2
  <2> QED
    BY <1>0, <2>2, <2>3, <2>4, PairOthers
<1>4. ASSUME NEW x \in DOMAIN pc, OnIceCandidate(x) PROVE Pair(b, q)'
  <2>1. /\ pc' = [pc EXCEPT ![x].gathered = TRUE]
        /\ RelayVoice(x[1], "voice_ice", pc[x].peer, x) \/ UNCHANGED <<channel, down>>
        /\ peers' = peers /\ UNCHANGED joinVars
    BY <1>4 DEF OnIceCandidate
  <2>2. NoOffer(b, q) /\ channel' = channel
    BY <1>2, <2>1
  <2>3. NoneMade
    BY <1>0, <2>1, GatheredIs
  <2> QED
    BY <1>0, <2>1, <2>2, <2>3, PairOthers
<1>5. ASSUME NEW x \in DOMAIN pc, OnFailed(x) PROVE Pair(b, q)'
  BY <1>0, <1>5, PairFailed
<1>6. CASE UNCHANGED vars
  <2>1. pc' = pc /\ peers' = peers /\ channel' = channel /\ down' = down /\ UNCHANGED joinVars
    BY <1>6 DEF vars, rtcVars
  <2>2. NoneMade
    BY <1>0, <2>1, TypeParts DEF NoneMade, Kept
  <2> QED
    BY <1>0, <2>1, <2>2, SameQueue, PairOthers
<1> QED
  BY <1>1, <1>3, <1>4, <1>5, <1>6 DEF Next

-----------------------------------------------------------------------------
(* The theorems about the connections *)

LEMMA InitCallInv ==
  ASSUME Init, VoiceCallAssumption PROVE CallInv
<1>1. /\ DOMAIN pc = {} /\ channel = {} /\ applying = {}
      /\ down = [b \in Browsers |-> <<>>]
      /\ members = [b \in Browsers |-> {}] /\ saw = [b \in Browsers |-> {}]
      /\ targets = [b \in Browsers |-> {}] /\ joins = [b \in Browsers |-> 0]
      /\ active = [b \in Browsers |-> FALSE] /\ shown = [b \in Browsers |-> FALSE]
      /\ stage = [b \in Browsers |-> Idle]
      /\ peers = [b \in Browsers |-> [q \in Browsers |-> None]]
      /\ pendingIce = [b \in Browsers |-> [q \in Browsers |-> {}]]
  BY DEF Init
<1>2. TypeOK
  <2>1. down \in [Browsers -> Seq(Notes)]
    BY <1>1
  <2>2. /\ peers \in [Browsers -> [Browsers -> Ends \cup {None}]]
        /\ pendingIce \in [Browsers -> [Browsers -> SUBSET Ends]]
        /\ \A b \in Browsers : \A q \in Browsers : Holds(b, q)
    BY <1>1 DEF Holds
  <2>3. /\ stage \in [Browsers -> Ends \cup {Idle, Audio}]
        /\ joins \in [Browsers -> Nat] /\ \A b \in Browsers : joins[b] <= MaxJoins[b]
    BY <1>1 DEF VoiceCallAssumption
  <2>4. /\ channel \subseteq Browsers
        /\ members \in [Browsers -> SUBSET Browsers] /\ saw \in [Browsers -> SUBSET Browsers]
        /\ targets \in [Browsers -> SUBSET Browsers]
        /\ active \in [Browsers -> BOOLEAN] /\ shown \in [Browsers -> BOOLEAN]
        /\ DOMAIN pc \subseteq Ends /\ \A x \in DOMAIN pc : pc[x] \in Connections
        /\ applying \subseteq [pc : DOMAIN pc, sdp : {"offer", "answer"}, of : DOMAIN pc]
        /\ \A b \in Browsers : stage[b] \in {Idle, Audio} /\ (shown[b] => active[b])
    BY <1>1
  <2> QED
    BY <2>1, <2>2, <2>3, <2>4, TypeParts
<1>3. Counted
  BY <1>1, FS_EmptySet DEF Counted
<1>4. Phases
  BY <1>1, Marks DEF Phases, Phase
<1>5. Routed
  BY <1>1 DEF Routed
<1>6. ASSUME NEW b \in Browsers, NEW q \in Browsers PROVE Pair(b, q)
  <2>1. /\ Of(b, q) = {} /\ Of(q, b) = {} /\ Offers(b, q) = {}
        /\ peers[q][b] = None /\ q \notin targets[b] /\ q \notin channel
    BY <1>1 DEF Of, Own, Offers
  <2> QED
    BY <2>1 DEF Pair, Offerer, OfferedOnce, AnswererOnce, HoldsOpen
<1> QED
  BY <1>2, <1>3, <1>4, <1>5, <1>6 DEF CallInv, Pairs

LEMMA CallInvariant ==
  ASSUME VoiceCallAssumption PROVE Spec => []CallInv
<1>1. Init => CallInv
  BY InitCallInv
<1>2. CallInv /\ [Next]_vars => CallInv'
  <2> SUFFICES ASSUME CallInv, [Next]_vars PROVE CallInv'
    OBVIOUS
  <2>1. TypeOK'
    BY StepTypeOK
  <2>2. Counted' /\ Phases' /\ Routed' /\ Pairs'
    BY <2>1, StepCounted, StepPhases, StepRouted, StepPairs
  <2> QED
    BY <2>1, <2>2 DEF CallInv
<1> QED
  BY <1>1, <1>2, PTL DEF Spec

\* Every variable has its type; peers holds open connections of that browser to
\* that peer only (VoiceManager.peers), and a description that is being set is of
\* a connection that was made.
THEOREM VoiceTypeCorrect == Spec => []TypeOK
<1>1. CallInv => TypeOK
  BY DEF CallInv
<1> QED
  BY <1>1, CallInvariant, VoiceCallAssumption, PTL

\* Audio flows only over connections that leaving the call will close: of two
\* connected ends, of which the answering one was never shown the other, the
\* offering one is in the peers of its VoiceManager, and so is the answering one
\* unless both browsers have returned to the call.
THEOREM VoiceAudioOnlyInCall == Spec => []AudioOnlyInCall
<1>1. ASSUME CallInv PROVE AudioOnlyInCall
  <2> SUFFICES ASSUME NEW x \in DOMAIN pc, NEW y \in DOMAIN pc,
                      Connected(x, y), x[1] \notin saw[y[1]]
               PROVE  /\ Held(x, y[1])
                      /\ 1 \in {joins[x[1]], joins[y[1]]} => Held(y, x[1])
    BY DEF AudioOnlyInCall
  <2> DEFINE b == x[1]
             q == y[1]
  <2>1. TypeOK /\ Phases /\ Routed /\ Pairs
    BY <1>1 DEF CallInv
  <2>2. x \in Ends /\ y \in Ends /\ b \in Browsers /\ q \in Browsers
    <3>1. x \in Ends /\ y \in Ends
      BY <2>1, TypeParts
    <3> QED
      BY <3>1 DEF Ends
  <2>3. /\ pc[x].open /\ pc[y].open /\ pc[x].remote = y /\ pc[y].remote = x
        /\ x # None /\ y # None
    BY <2>2, Marks DEF Connected
  <2>4. pc[x].peer = q /\ pc[y].peer = b
    <3>1. Fit(x, y)
      BY <2>1, <2>3 DEF Routed
    <3> QED
      BY <3>1 DEF Fit
  <2>5. b # q
    <3>1. pc[x].peer \in saw[x[1]] \/ x[1] \in saw[pc[x].peer]
      BY <2>1 DEF Routed
    <3> QED
      BY <2>4, <3>1
  <2>6. x \in Of(b, q) /\ y \in Of(q, b)
    BY <2>4 DEF Of, Own
  <2>7. Pair(b, q)
    BY <2>1, <2>2, <2>5 DEF Pairs
  <2>8. ASSUME NEW e \in Browsers, NEW f \in Browsers, NEW z \in Ends, peers[e][f] = z
        PROVE  active[e]
    <3>1. z # None /\ Phase(e)
      BY <2>1, Marks DEF Phases
    <3> QED
      BY <2>8, <3>1 DEF Phase
  <2> HIDE DEF b, q
  <2>9. peers[b][q] = x
    BY <2>3, <2>6, <2>7 DEF Pair, Offerer, HoldsOpen
  <2>10. ASSUME 1 \in {joins[b], joins[q]} PROVE peers[q][b] = y
    <3>1. HoldsOpen(q, b)
      BY <2>7, <2>10 DEF Pair, OfferedOnce, AnswererOnce
    <3> QED
      BY <2>3, <2>6, <3>1 DEF HoldsOpen
  <2>11. active[b] /\ (1 \in {joins[b], joins[q]} => active[q])
    BY <2>2, <2>8, <2>9, <2>10
  <2> QED
    BY <2>9, <2>10, <2>11 DEF Held, b, q
<1> QED
  BY <1>1, CallInvariant, VoiceCallAssumption, PTL

-----------------------------------------------------------------------------
(* What a step may do, connection by connection and message by message *)

\* A connection is closed, and its description and candidates are gone.
Shut(x) == ~pc'[x].open /\ pc'[x].remote = None /\ ~pc'[x].local /\ ~pc'[x].gathered
ShutBy(x) ==
  \/ Leave(x[1]) \/ OnFailed(x)
  \/ /\ Receive(x[1]) /\ down[x[1]][1].type = "voice_peer_left"
     /\ down[x[1]][1].from = pc[x].peer

\* What stays of one that is not closed.
Still(x) ==
  /\ pc'[x].open <=> pc[x].open
  /\ pc[x].ice \subseteq pc'[x].ice
SameLocal(x) == pc'[x].local <=> pc[x].local
SameGathered(x) == pc'[x].gathered <=> pc[x].gathered

Unchanged(x) ==
  Still(x) /\ pc'[x].remote = pc[x].remote /\ SameLocal(x) /\ SameGathered(x)
Offered(x) ==
  /\ OfferReady(x[1]) /\ stage[x[1]] = x /\ pc[x].open
  /\ Still(x) /\ pc'[x].remote = pc[x].remote /\ pc'[x].local /\ SameGathered(x)
Gathered(x) ==
  /\ OnIceCandidate(x) /\ pc[x].local /\ ~pc[x].gathered
  /\ Still(x) /\ pc'[x].remote = pc[x].remote /\ pc'[x].local /\ pc'[x].gathered

\* The description d is set.
Fits(d) == /\ pc[d.pc].open /\ pc[d.pc].remote = None
           /\ pc[d.pc].local <=> d.sdp = "answer"
Set(x, d) ==
  /\ d \in applying /\ d.pc = x /\ Described(d) /\ Fits(d) /\ SetRemote(x, d.of)
  /\ Still(x) /\ pc'[x].remote = d.of /\ pc'[x].local /\ SameGathered(x)
  /\ Flushed(x) \subseteq pc'[x].ice

LEMMA ClosedFields ==
  ASSUME NEW c \in Connections
  PROVE  /\ ~Closed(c).open /\ Closed(c).remote = None
         /\ ~Closed(c).local /\ ~Closed(c).gathered
BY DEF Connections, Closed, New

LEMMA OfferedFields ==
  ASSUME NEW c \in Connections, NEW e, e = [c EXCEPT !.local = TRUE]
  PROVE  /\ (e.open <=> c.open) /\ (e.gathered <=> c.gathered)
         /\ e.remote = c.remote /\ e.ice = c.ice /\ e.local
BY DEF Connections

LEMMA GatheredFields ==
  ASSUME NEW c \in Connections, NEW e, e = [c EXCEPT !.gathered = TRUE]
  PROVE  /\ (e.open <=> c.open) /\ (e.local <=> c.local)
         /\ e.remote = c.remote /\ e.ice = c.ice /\ e.gathered
BY DEF Connections

LEMMA AddedFields ==
  ASSUME NEW c \in Connections, NEW y, NEW e, e = [c EXCEPT !.ice = @ \cup {y}]
  PROVE  /\ (e.open <=> c.open) /\ (e.local <=> c.local) /\ (e.gathered <=> c.gathered)
         /\ e.remote = c.remote /\ e.ice = c.ice \cup {y}
BY DEF Connections

LEMMA UnchangedIs ==
  ASSUME NEW x, pc'[x] = pc[x] PROVE Unchanged(x)
BY DEF Unchanged, Still, SameLocal, SameGathered

\* A step of the loop over existingMembers leaves the connections as they are.
LEMMA LoopKeeps ==
  ASSUME TypeOK, Counted, NEW b \in Browsers, NEW cs, DOMAIN cs = DOMAIN pc, NextMember(b, cs),
         NEW x \in DOMAIN pc
  PROVE  pc'[x] = cs[x]
<1>1. CASE pc' = cs
  BY <1>1
<1>2. ASSUME NEW q \in targets[b], pc' = WithNew(cs, b, q) PROVE pc'[x] = cs[x]
  <2>1. q \in Browsers
    BY DEF TypeOK
  <2>2. /\ DOMAIN pc' = DOMAIN pc \cup {Fresh(b)}
        /\ \A z \in DOMAIN pc : pc'[z] = cs[z]
        /\ pc'[Fresh(b)] = [New EXCEPT !.peer = q]
    BY <1>2, <2>1, WithNewIs, Zenon
  <2> QED
    BY <2>2
<1> QED
  BY <1>1, <1>2 DEF NextMember

\* The browsers a connection is between.
LEMMA EndsOf ==
  ASSUME TypeOK, NEW x \in DOMAIN pc
  PROVE  /\ x \in Ends /\ x # None /\ x[1] \in Browsers
         /\ pc[x] \in Connections /\ pc[x].peer \in Browsers
<1>1. x \in Ends /\ pc[x] \in Connections
  BY TypeParts
<1> QED
  BY <1>1, Marks DEF Ends, Connections

\* Offers, candidates and descriptions make these changes.
LEMMA OfferedIs ==
  ASSUME TypeOK, Counted, NEW b \in Browsers, OfferReady(b), pc[stage[b]].open
  PROVE  stage[b] \in DOMAIN pc /\ stage[b][1] = b /\ Offered(stage[b])
<1> DEFINE x == stage[b]
           cs == [pc EXCEPT ![x].local = TRUE]
<1>1. x \in DOMAIN pc /\ x[1] = b
  <2>1. x \in DOMAIN pc
    BY DEF OfferReady
  <2>2. x \in Ends /\ (x \in {Idle, Audio} \/ x[1] = b)
    BY <2>1, TypeParts
  <2> QED
    BY <2>1, <2>2, Marks
<1>2. pc'[x] = cs[x]
  <2>1. DOMAIN cs = DOMAIN pc /\ NextMember(b, cs)
    BY DEF OfferReady
  <2> HIDE DEF cs, x
  <2> QED
    BY <1>1, <2>1, LoopKeeps
<1>3. pc'[x] = [pc[x] EXCEPT !.local = TRUE] /\ pc[x] \in Connections
  BY <1>1, <1>2, EndsOf
<1>4. OfferReady(x[1]) /\ stage[x[1]] = x
  BY <1>1
<1> HIDE DEF x
<1>5. Still(x) /\ pc'[x].remote = pc[x].remote /\ pc'[x].local /\ SameGathered(x)
  BY <1>3, OfferedFields DEF Still, SameGathered
<1> QED
  BY <1>1, <1>4, <1>5 DEF Offered, x

LEMMA FoundIs ==
  ASSUME TypeOK, NEW x \in DOMAIN pc, OnIceCandidate(x) PROVE Gathered(x)
<1>1. pc' = [pc EXCEPT ![x].gathered = TRUE] /\ pc[x].local /\ ~pc[x].gathered
  BY DEF OnIceCandidate, Gathers
<1>2. pc'[x] = [pc[x] EXCEPT !.gathered = TRUE] /\ pc[x] \in Connections
  BY <1>1, EndsOf
<1>3. Still(x) /\ pc'[x].remote = pc[x].remote /\ pc'[x].local /\ pc'[x].gathered
  BY <1>1, <1>2, GatheredFields DEF Still
<1> QED
  BY <1>1, <1>3 DEF Gathered

LEMMA SetIs ==
  ASSUME TypeOK, NEW d \in applying, Described(d), Fits(d) PROVE Set(d.pc, d)
<1> DEFINE x == d.pc
<1>1. x \in DOMAIN pc /\ SetRemote(x, d.of)
  BY TypeParts DEF Described, Fits
<1>2. /\ pc'[x] = [pc[x] EXCEPT !.remote = d.of, !.ice = @ \cup Flushed(x), !.local = TRUE]
      /\ pc[x] \in Connections
  BY <1>1, EndsOf DEF SetRemote
<1>3. /\ (pc'[x].open <=> pc[x].open) /\ (pc'[x].gathered <=> pc[x].gathered)
      /\ pc'[x].remote = d.of /\ pc'[x].local /\ pc'[x].ice = pc[x].ice \cup Flushed(x)
  BY <1>2 DEF Connections
<1>4. /\ Still(x) /\ pc'[x].remote = d.of /\ pc'[x].local /\ SameGathered(x)
      /\ Flushed(x) \subseteq pc'[x].ice
  BY <1>3 DEF Still, SameGathered
<1> QED
  BY <1>1, <1>4 DEF Set

LEMMA ConnectionStep ==
  ASSUME CallInv, [Next]_vars, NEW x \in DOMAIN pc
  PROVE  \/ Unchanged(x) \/ (Shut(x) /\ ShutBy(x)) \/ Offered(x) \/ Gathered(x)
         \/ \E d \in applying : Set(x, d)
<1> USE DEF CallInv
<1>0. /\ pc[x] \in Connections /\ x \in Ends /\ x[1] \in Browsers /\ pc[x].peer \in Browsers
      /\ \A b \in Browsers : \A q \in Browsers : Holds(b, q)
  <2>1. pc[x] \in Connections /\ x \in Ends /\ \A b \in Browsers : \A q \in Browsers : Holds(b, q)
    BY TypeParts
  <2> QED
    BY <2>1 DEF Connections, Ends
<1>1. ASSUME NEW y \in DOMAIN pc, pc' = [pc EXCEPT ![y] = Closed(@)], y = x => ShutBy(x)
      PROVE  Unchanged(x) \/ (Shut(x) /\ ShutBy(x))
  <2>1. CASE y = x
    <3>1. pc'[x] = Closed(pc[x])
      BY <1>1, <2>1
    <3> QED
      BY <1>0, <1>1, <2>1, <3>1, ClosedFields DEF Shut
  <2>2. CASE y # x
    BY <1>1, <2>2, UnchangedIs
  <2> QED
    BY <2>1, <2>2
<1>2. ASSUME NEW b \in Browsers, AudioReady(b) PROVE Unchanged(x)
  <2>1. pc'[x] = pc[x]
    BY <1>2, LoopKeeps DEF AudioReady
  <2> QED
    BY <2>1, UnchangedIs
<1>3. ASSUME NEW b \in Browsers, OfferReady(b) PROVE Unchanged(x) \/ Offered(x)
  <2> DEFINE y == stage[b]
             cs == [pc EXCEPT ![y].local = TRUE]
  <2>2. CASE pc[y].open
    <3>1. CASE x = y
      BY <1>3, <2>2, <3>1, OfferedIs
    <3>2. CASE x # y
      <4>1. DOMAIN cs = DOMAIN pc /\ NextMember(b, cs)
        BY <1>3, <2>2 DEF OfferReady
      <4>2. pc'[x] = cs[x]
        <5> HIDE DEF cs
        <5> QED
          BY <4>1, LoopKeeps
      <4> QED
        BY <3>2, <4>2, UnchangedIs
    <3> QED
      BY <3>1, <3>2
  <2>3. CASE ~pc[y].open
    <3>1. pc'[x] = pc[x]
      BY <1>3, <2>3, LoopKeeps DEF OfferReady
    <3> QED
      BY <3>1, UnchangedIs
  <2> QED
    BY <2>2, <2>3
<1>4. ASSUME NEW b \in Browsers, Leave(b) PROVE Unchanged(x) \/ (Shut(x) /\ ShutBy(x))
  <2>1. pc' = CloseAll(b)
    BY <1>4 DEF Leave
  <2>2. CASE \E q \in Browsers : peers[b][q] = x
    <3>1. PICK q \in Browsers : peers[b][q] = x
      BY <2>2
    <3>2. x # None /\ Holds(b, q)
      BY <1>0, Marks
    <3>3. x[1] = b
      BY <3>1, <3>2 DEF Holds
    <3>4. pc'[x] = Closed(pc[x])
      BY <2>1, <2>2 DEF CloseAll
    <3>5. Leave(x[1])
      BY <1>4, <3>3
    <3>6. ShutBy(x)
      BY <3>5 DEF ShutBy
    <3>7. Shut(x)
      BY <1>0, <3>4, ClosedFields DEF Shut
    <3> QED
      BY <3>6, <3>7
  <2>3. CASE ~ \E q \in Browsers : peers[b][q] = x
    <3>1. pc'[x] = pc[x]
      BY <2>1, <2>3 DEF CloseAll
    <3> QED
      BY <3>1, UnchangedIs
  <2> QED
    BY <2>2, <2>3
<1>5. ASSUME NEW b \in Browsers, Receive(b) PROVE Unchanged(x) \/ (Shut(x) /\ ShutBy(x))
  <2> DEFINE m == down[b][1]
             y == peers[b][m.from]
  <2>1. m \in Notes /\ m = Head(down[b]) /\ m.from \in Browsers
    <3>1. m \in Notes /\ m = Head(down[b])
      BY <1>5, ReceiveIs
    <3> QED
      BY <3>1 DEF Notes
  <2>2. \/ VoiceState(b, m) \/ HandlePeerLeft(b, m)
        \/ HandleOffer(b, m) \/ HandleAnswer(b, m) \/ HandleIce(b, m)
    BY <1>5, <2>1 DEF Receive
  <2>3. y # None => y \in DOMAIN pc /\ y[1] = b /\ pc[y].peer = m.from
    BY <1>0, <2>1 DEF Holds
  <2>4. CASE pc' = pc
    BY <2>4, UnchangedIs
  <2>5. CASE HandlePeerLeft(b, m) /\ pc' # pc
    <3>1. /\ y # None /\ pc' = [pc EXCEPT ![y] = Closed(@)]
          /\ m.type = "voice_peer_left"
      BY <2>5 DEF HandlePeerLeft
    <3>2. y = x => ShutBy(x)
      BY <1>5, <2>3, <3>1 DEF ShutBy
    <3> HIDE DEF y
    <3> QED
      BY <1>1, <2>3, <3>1, <3>2
  <2>6. CASE HandleOffer(b, m) /\ pc' # pc
    <3>1. pc' = WithNew(pc, b, m.from)
      BY <2>6 DEF HandleOffer
    <3>2. /\ DOMAIN pc' = DOMAIN pc \cup {Fresh(b)}
          /\ \A z \in DOMAIN pc : pc'[z] = pc[z]
          /\ pc'[Fresh(b)] = [New EXCEPT !.peer = m.from]
      <4> HIDE DEF m
      <4> QED
        BY <2>1, <3>1, WithNewIs, Zenon
    <3> QED
      BY <3>2, UnchangedIs
  <2>7. CASE HandleIce(b, m) /\ pc' # pc
    <3>1. pc' = [pc EXCEPT ![y].ice = @ \cup {m.pc}] /\ y # None
      BY <2>7 DEF HandleIce
    <3>2. y \in DOMAIN pc
      BY <2>3, <3>1
    <3> HIDE DEF y, m
    <3>3. CASE x = y
      <4>1. pc'[x] = [pc[x] EXCEPT !.ice = @ \cup {m.pc}]
        BY <3>1, <3>3
      <4> QED
        BY <1>0, <4>1, AddedFields DEF Unchanged, Still, SameLocal, SameGathered
    <3>4. CASE x # y
      <4>1. pc'[x] = pc[x]
        BY <3>1, <3>2, <3>4
      <4> QED
        BY <4>1, UnchangedIs
    <3> QED
      BY <3>3, <3>4
  <2>8. VoiceState(b, m) \/ HandleAnswer(b, m) => pc' = pc
    BY DEF VoiceState, HandleAnswer, rtcVars
  <2> QED
    BY <2>2, <2>4, <2>5, <2>6, <2>7, <2>8
<1>6. ASSUME NEW d \in applying, Described(d) PROVE Unchanged(x) \/ Set(x, d)
  <2>1. CASE Fits(d)
    <3>1. Set(d.pc, d)
      BY <1>6, <2>1, SetIs
    <3>2. d.pc # x => pc'[x] = pc[x]
      BY <3>1 DEF Set, SetRemote
    <3> QED
      BY <3>1, <3>2, UnchangedIs
  <2>2. CASE ~Fits(d)
    <3>1. pc' = pc
      BY <1>6, <2>2 DEF Described, Fits
    <3> QED
      BY <3>1, UnchangedIs
  <2> QED
    BY <2>1, <2>2
<1>7. ASSUME NEW y \in DOMAIN pc, OnIceCandidate(y) PROVE Unchanged(x) \/ Gathered(x)
  <2>1. CASE x = y
    BY <1>7, <2>1, FoundIs
  <2>2. CASE x # y
    <3>1. pc'[x] = pc[x]
      BY <1>7, <2>2 DEF OnIceCandidate
    <3> QED
      BY <3>1, UnchangedIs
  <2> QED
    BY <2>1, <2>2
<1>8. ASSUME NEW y \in DOMAIN pc, OnFailed(y) PROVE Unchanged(x) \/ (Shut(x) /\ ShutBy(x))
  <2>1. pc' = [pc EXCEPT ![y] = Closed(@)]
    BY <1>8 DEF OnFailed
  <2> QED
    BY <1>1, <1>8, <2>1 DEF ShutBy
<1>9. CASE pc' = pc
  BY <1>9, UnchangedIs
<1>10. (\E b \in Browsers : Join(b)) \/ UNCHANGED vars => pc' = pc
  BY DEF Join, vars, rtcVars
<1> QED
  BY <1>2, <1>3, <1>4, <1>5, <1>6, <1>7, <1>8, <1>9, <1>10 DEF Next

\* A message is sent: the state of the channel to everybody, or what belongs to a
\* connection to the one it is for.
Announced(m) ==
  /\ m.type \in {"voice_state", "voice_peer_joined", "voice_peer_left"}
  /\ m.who = channel' /\ (m.type = "voice_peer_left" => Leave(m.from))
Relayed(q, m) ==
  /\ m.pc \in DOMAIN pc /\ m.pc[1] = m.from /\ pc[m.pc].peer = q
  /\ {m.from, q} \subseteq channel /\ channel' = channel /\ m.who = {}
  /\ \/ m.type = "voice_offer" /\ Offered(m.pc)
     \/ m.type = "voice_ice" /\ Gathered(m.pc)
     \/ m.type = "voice_answer" /\ \E d \in applying : d.sdp = "offer" /\ Set(m.pc, d)

LEMMA NoteStep ==
  ASSUME CallInv, [Next]_vars, NEW q \in Browsers
  PROVE  \/ down'[q] = down[q]
         \/ Receive(q)
         \/ \E m \in Notes : down'[q] = Append(down[q], m) /\ (Announced(m) \/ Relayed(q, m))
<1> USE DEF CallInv
<1>1. ASSUME NEW b \in Browsers, NEW type \in {"voice_peer_joined", "voice_peer_left"},
             channel' \subseteq Browsers, Announce(type, b), type = "voice_peer_left" => Leave(b)
      PROVE  \E m \in Notes : down'[q] = Append(down[q], m) /\ Announced(m)
  <2> DEFINE m == Note(IF q \in channel' \ {b} THEN type ELSE "voice_state", b, None, channel')
  <2>1. m \in Notes /\ down'[q] = Append(down[q], m)
    BY <1>1, AnnounceIs
  <2>2. /\ m.type \in {"voice_state", type} /\ m.who = channel' /\ m.from = b
    BY DEF Note
  <2> HIDE DEF m
  <2>3. Announced(m)
    BY <1>1, <2>2 DEF Announced
  <2> QED
    BY <2>1, <2>3
<1>2. ASSUME NEW x \in DOMAIN pc, NEW type \in {"voice_offer", "voice_answer", "voice_ice"},
             RelayVoice(x[1], type, pc[x].peer, x),
             \/ type = "voice_offer" /\ Offered(x)
             \/ type = "voice_ice" /\ Gathered(x)
             \/ type = "voice_answer" /\ \E d \in applying : d.sdp = "offer" /\ Set(x, d)
      PROVE  \/ down'[q] = down[q]
             \/ \E m \in Notes : down'[q] = Append(down[q], m) /\ Relayed(q, m)
  <2> DEFINE m == Note(type, x[1], x, {})
  <2>1. x \in Ends /\ x[1] \in Browsers /\ pc[x].peer \in Browsers
    BY EndsOf
  <2>2. /\ m \in Notes /\ channel' = channel
        /\ down'[q] = IF q = pc[x].peer /\ {x[1], pc[x].peer} \subseteq channel
                        THEN Append(down[q], m) ELSE down[q]
    BY <1>2, <2>1, RelayIs
  <2>3. m.type = type /\ m.pc = x /\ m.from = x[1] /\ m.who = {}
    BY DEF Note
  <2> HIDE DEF m
  <2>4. CASE q = pc[x].peer /\ {x[1], pc[x].peer} \subseteq channel
    <3>1. \/ m.type = "voice_offer" /\ Offered(m.pc)
          \/ m.type = "voice_ice" /\ Gathered(m.pc)
          \/ m.type = "voice_answer" /\ \E d \in applying : d.sdp = "offer" /\ Set(m.pc, d)
      BY <1>2, <2>3
    <3>2. /\ m.pc \in DOMAIN pc /\ m.pc[1] = m.from /\ pc[m.pc].peer = q
          /\ {m.from, q} \subseteq channel
      BY <2>3, <2>4
    <3>3. Relayed(q, m)
      BY <2>2, <2>3, <3>1, <3>2 DEF Relayed
    <3> QED
      BY <2>2, <2>4, <3>3
  <2>5. CASE ~(q = pc[x].peer /\ {x[1], pc[x].peer} \subseteq channel)
    BY <2>2, <2>5
  <2> QED
    BY <2>4, <2>5
<1>3. ASSUME NEW b \in Browsers, AudioReady(b)
      PROVE  \E m \in Notes : down'[q] = Append(down[q], m) /\ Announced(m)
  <2>1. channel' = channel \cup {b} /\ Announce("voice_peer_joined", b)
    BY <1>3 DEF AudioReady, JoinVoice
  <2>2. channel' \subseteq Browsers
    BY <2>1, TypeParts
  <2> QED
    BY <1>1, <2>1, <2>2
<1>4. ASSUME NEW b \in Browsers, Leave(b)
      PROVE  \/ down'[q] = down[q]
             \/ \E m \in Notes : down'[q] = Append(down[q], m) /\ Announced(m)
  <2>1. channel' = channel \ {b} /\ (Announce("voice_peer_left", b) \/ UNCHANGED down)
    BY <1>4 DEF Leave, LeaveVoice
  <2>2. channel' \subseteq Browsers
    BY <2>1, TypeParts
  <2> QED
    BY <1>1, <1>4, <2>1, <2>2
<1>5. ASSUME NEW b \in Browsers, OfferReady(b)
      PROVE  \/ down'[q] = down[q]
             \/ \E m \in Notes : down'[q] = Append(down[q], m) /\ Relayed(q, m)
  <2> DEFINE x == stage[b]
  <2>2. CASE pc[x].open
    <3>1. x \in DOMAIN pc /\ x[1] = b /\ Offered(x)
      BY <1>5, <2>2, OfferedIs
    <3>2. RelayVoice(b, "voice_offer", pc[x].peer, x)
      BY <1>5, <2>2 DEF OfferReady
    <3> HIDE DEF x
    <3> QED
      BY <1>2, <3>1, <3>2
  <2>3. CASE ~pc[x].open
    BY <1>5, <2>3 DEF OfferReady
  <2> QED
    BY <2>2, <2>3
<1>6. ASSUME NEW b \in Browsers, Receive(b) PROVE down'[q] = down[q] \/ Receive(q)
  <2>1. CASE q = b
    BY <1>6, <2>1
  <2>2. CASE q # b
    BY <1>6, <2>2, ReceiveIs
  <2> QED
    BY <2>1, <2>2
<1>7. ASSUME NEW d \in applying, Described(d)
      PROVE  \/ down'[q] = down[q]
             \/ \E m \in Notes : down'[q] = Append(down[q], m) /\ Relayed(q, m)
  <2>1. d.pc \in DOMAIN pc /\ d.pc \in DOMAIN pc
    BY TypeParts
  <2>2. CASE Fits(d) /\ d.sdp = "offer"
    <3>1. SetRemote(d.pc, d.of) /\ RelayVoice(d.pc[1], "voice_answer", pc[d.pc].peer, d.pc)
      BY <1>7, <2>2 DEF Described, Fits
    <3>2. Set(d.pc, d)
      BY <1>7, <2>2, SetIs
    <3> QED
      BY <1>2, <2>1, <2>2, <3>1, <3>2
  <2>3. CASE ~(Fits(d) /\ d.sdp = "offer")
    <3>1. UNCHANGED down
      BY <1>7, <2>3 DEF Described, Fits
    <3> QED
      BY <3>1
  <2> QED
    BY <2>2, <2>3
<1>8. ASSUME NEW x \in DOMAIN pc, OnIceCandidate(x)
      PROVE  \/ down'[q] = down[q]
             \/ \E m \in Notes : down'[q] = Append(down[q], m) /\ Relayed(q, m)
  <2>1. CASE active[x[1]]
    <3>1. RelayVoice(x[1], "voice_ice", pc[x].peer, x)
      BY <1>8, <2>1 DEF OnIceCandidate
    <3>2. Gathered(x)
      BY <1>8, FoundIs
    <3> QED
      BY <1>2, <3>1, <3>2
  <2>2. CASE ~active[x[1]]
    BY <1>8, <2>2 DEF OnIceCandidate
  <2> QED
    BY <2>1, <2>2
<1>9. ASSUME UNCHANGED down PROVE down'[q] = down[q]
  BY <1>9
<1>10. /\ (\E b \in Browsers : Join(b)) \/ UNCHANGED vars => UNCHANGED down
       /\ \A x \in DOMAIN pc : OnFailed(x) => UNCHANGED down
  BY DEF Join, vars, OnFailed
<1> QED
  BY <1>3, <1>4, <1>5, <1>6, <1>7, <1>8, <1>9, <1>10 DEF Next

\* A message of that type, about that connection, is on its way to q.
Under(q, type, x) == \E i \in 1..Len(down[q]) : down[q][i].type = type /\ down[q][i].pc = x

LEMMA NewNote ==
  ASSUME CallInv, [Next]_vars, NEW q \in Browsers, NEW x,
         NEW type \in {"voice_offer", "voice_answer", "voice_ice"}, Under(q, type, x)'
  PROVE  \/ Under(q, type, x)
         \/ \E m \in Notes : /\ down'[q] = Append(down[q], m) /\ Relayed(q, m)
                             /\ m.type = type /\ m.pc = x
<1>0. down[q] \in Seq(Notes)
  BY TypeParts DEF CallInv
<1>1. PICK i \in 1..Len(down'[q]) : down'[q][i].type = type /\ down'[q][i].pc = x
  BY DEF Under
<1>2. CASE down'[q] = down[q]
  BY <1>1, <1>2 DEF Under
<1>3. CASE Receive(q)
  <2>1. /\ Len(down[q]) \in Nat \ {0} /\ Len(down'[q]) = Len(down[q]) - 1
        /\ \A j \in 1..Len(down'[q]) : down'[q][j] = down[q][j + 1]
    BY <1>3, ReceiveIs DEF CallInv
  <2>2. i + 1 \in 1..Len(down[q]) /\ down'[q][i] = down[q][i + 1]
    BY <1>1, <2>1
  <2> QED
    BY <1>1, <2>2 DEF Under
<1>4. ASSUME NEW m \in Notes, down'[q] = Append(down[q], m), Announced(m) \/ Relayed(q, m)
      PROVE  Under(q, type, x) \/ (Relayed(q, m) /\ m.type = type /\ m.pc = x)
  <2>1. /\ Len(down'[q]) = Len(down[q]) + 1 /\ down'[q][Len(down[q]) + 1] = m
        /\ \A j \in 1..Len(down[q]) : down'[q][j] = down[q][j]
    BY <1>0, <1>4
  <2>2. CASE i \in 1..Len(down[q])
    BY <1>1, <2>1, <2>2 DEF Under
  <2>3. CASE i = Len(down[q]) + 1
    <3>1. m.type = type /\ m.pc = x
      BY <1>1, <2>1, <2>3
    <3>2. ~Announced(m)
      BY <3>1 DEF Announced
    <3> QED
      BY <1>4, <3>1, <3>2
  <2> QED
    BY <1>0, <1>1, <2>1, <2>2, <2>3
<1> QED
  BY <1>2, <1>3, <1>4, NoteStep

LEMMA NoteStays ==
  ASSUME CallInv, [Next]_vars, NEW q \in Browsers, NEW i \in 1..Len(down[q])
  PROVE  \/ i \in 1..Len(down'[q]) /\ down'[q][i] = down[q][i] /\ ~Receive(q)
         \/ Receive(q) /\ i = 1
         \/ Receive(q) /\ i - 1 \in 1..Len(down'[q]) /\ down'[q][i - 1] = down[q][i]
<1>0. down[q] \in Seq(Notes)
  BY TypeParts DEF CallInv
<1>1. CASE Receive(q)
  <2>1. /\ Len(down[q]) \in Nat \ {0} /\ Len(down'[q]) = Len(down[q]) - 1
        /\ \A j \in 1..Len(down'[q]) : down'[q][j] = down[q][j + 1]
    BY <1>1, ReceiveIs DEF CallInv
  <2> QED
    BY <1>1, <2>1
<1>2. ASSUME ~Receive(q), NEW m \in Notes, down'[q] = Append(down[q], m)
      PROVE  i \in 1..Len(down'[q]) /\ down'[q][i] = down[q][i]
  BY <1>0, <1>2
<1>3. CASE down'[q] = down[q]
  BY <1>1, <1>3
<1> QED
  BY <1>1, <1>2, <1>3, NoteStep

LEMMA UnderStays ==
  ASSUME CallInv, [Next]_vars, NEW q \in Browsers, NEW type, NEW x, Under(q, type, x)
  PROVE  \/ Under(q, type, x)'
         \/ Receive(q) /\ down[q][1].type = type /\ down[q][1].pc = x
<1>1. PICK i \in 1..Len(down[q]) : down[q][i].type = type /\ down[q][i].pc = x
  BY DEF Under
<1> QED
  BY <1>1, NoteStays DEF Under

LEMMA AppendedUnder ==
  ASSUME TypeOK, NEW q \in Browsers, NEW m \in Notes, down'[q] = Append(down[q], m)
  PROVE  Under(q, m.type, m.pc)'
<1>1. down[q] \in Seq(Notes)
  BY TypeParts
<1>2. Len(down'[q]) \in 1..Len(down'[q]) /\ down'[q][Len(down'[q])] = m
  BY <1>1
<1> QED
  BY <1>2 DEF Under

\* What is taken from the head of a queue.
LEMMA HeadIs ==
  ASSUME CallInv, NEW q \in Browsers, Receive(q), NEW m, m = down[q][1]
  PROVE  /\ m \in Notes /\ m.from \in Browsers /\ 1 \in 1..Len(down[q]) /\ Proper(q, m)
         /\ \/ VoiceState(q, m) \/ HandlePeerLeft(q, m)
            \/ HandleOffer(q, m) \/ HandleAnswer(q, m) \/ HandleIce(q, m)
<1>1. Len(down[q]) \in Nat \ {0} /\ Head(down[q]) = m /\ m \in Notes
  BY ReceiveIs DEF CallInv
<1>2. 1 \in 1..Len(down[q])
  BY <1>1
<1> QED
  BY <1>1, <1>2 DEF Receive, CallInv, Routed, Notes

\* A description that is being set, and was not, has just come.
Came(b, d) ==
  /\ Receive(b) /\ d.of = down[b][1].pc
  /\ \/ /\ down[b][1].type = "voice_offer" /\ d.sdp = "offer" /\ active[b]
        /\ d.pc = Fresh(b) /\ Made(b, down[b][1].from) /\ UNCHANGED pendingIce
     \/ /\ down[b][1].type = "voice_answer" /\ d.sdp = "answer"
        /\ d.pc = peers[b][down[b][1].from] /\ d.pc \in DOMAIN pc
LEMMA DescriptionCame ==
  ASSUME CallInv, [Next]_vars, NEW d \in applying', d \notin applying
  PROVE  \E b \in Browsers : Came(b, d)
<1>1. ASSUME NEW b \in Browsers, Receive(b) PROVE Came(b, d)
  <2> DEFINE m == down[b][1]
             x == peers[b][m.from]
  <2>1. /\ m.from \in Browsers
        /\ \/ VoiceState(b, m) \/ HandlePeerLeft(b, m)
           \/ HandleOffer(b, m) \/ HandleAnswer(b, m) \/ HandleIce(b, m)
    BY <1>1, HeadIs
  <2>2. VoiceState(b, m) \/ HandlePeerLeft(b, m) \/ HandleIce(b, m) => applying' = applying
    BY DEF VoiceState, HandlePeerLeft, HandleIce, rtcVars
  <2>3. CASE HandleOffer(b, m)
    <3>1. /\ m.type = "voice_offer" /\ active[b] /\ pc' = WithNew(pc, b, m.from)
          /\ d = [pc |-> Fresh(b), sdp |-> "offer", of |-> m.pc] /\ UNCHANGED pendingIce
      BY <2>3 DEF HandleOffer
    <3>2. d.pc = Fresh(b) /\ d.sdp = "offer" /\ d.of = m.pc
      BY <3>1
    <3>3. Made(b, m.from)
      <4> HIDE DEF m
      <4>1. /\ DOMAIN pc' = DOMAIN pc \cup {Fresh(b)}
            /\ \A z \in DOMAIN pc : pc'[z] = pc[z]
            /\ pc'[Fresh(b)] = [New EXCEPT !.peer = m.from]
        BY <2>1, <3>1, WithNewIs, Zenon DEF CallInv
      <4>2. \A z \in DOMAIN pc : pc[z] \in Connections
        BY TypeParts DEF CallInv
      <4> QED
        BY <4>1, <4>2 DEF Made, Kept
    <3> QED
      BY <1>1, <3>1, <3>2, <3>3 DEF Came
  <2>4. CASE HandleAnswer(b, m)
    <3>1. /\ m.type = "voice_answer" /\ x # None
          /\ d = [pc |-> x, sdp |-> "answer", of |-> m.pc]
      BY <2>4 DEF HandleAnswer
    <3>2. d.pc = x /\ d.sdp = "answer" /\ d.of = m.pc
      BY <3>1
    <3>3. x \in DOMAIN pc
      <4>1. Holds(b, m.from)
        BY <2>1, TypeParts DEF CallInv
      <4> QED
        BY <3>1, <4>1 DEF Holds
    <3> QED
      BY <1>1, <3>1, <3>2, <3>3 DEF Came
  <2> QED
    BY <2>1, <2>2, <2>3, <2>4
<1>2. ASSUME NEW b \in Browsers, Join(b) \/ AudioReady(b) \/ OfferReady(b) \/ Leave(b)
      PROVE  applying' = applying
  BY <1>2 DEF Join, AudioReady, OfferReady, Leave, rtcVars
<1>3. ASSUME NEW e \in applying, Described(e) PROVE applying' \subseteq applying
  BY <1>3 DEF Described
<1>4. ASSUME NEW x \in DOMAIN pc, OnIceCandidate(x) \/ OnFailed(x) PROVE applying' = applying
  BY <1>4 DEF OnIceCandidate, OnFailed
<1>5. UNCHANGED vars => applying' = applying
  BY DEF vars, rtcVars
<1> QED
  BY <1>1, <1>2, <1>3, <1>4, <1>5 DEF Next

LEMMA DescriptionGone ==
  ASSUME [Next]_vars, NEW d \in applying, d \notin applying' PROVE Described(d)
<1>1. ASSUME NEW b \in Browsers, Join(b) \/ AudioReady(b) \/ OfferReady(b) \/ Leave(b)
      PROVE  applying' = applying
  BY <1>1 DEF Join, AudioReady, OfferReady, Leave, rtcVars
<1>2. ASSUME NEW b \in Browsers, Receive(b) PROVE applying \subseteq applying'
  BY <1>2 DEF Receive, VoiceState, HandlePeerLeft, HandleOffer, HandleAnswer, HandleIce, rtcVars
<1>3. ASSUME NEW e \in applying, Described(e) PROVE Described(d)
  <2>1. applying' = applying \ {e}
    BY <1>3 DEF Described
  <2>2. d = e
    BY <2>1
  <2> QED
    BY <1>3, <2>2
<1>4. ASSUME NEW x \in DOMAIN pc, OnIceCandidate(x) \/ OnFailed(x) PROVE applying' = applying
  BY <1>4 DEF OnIceCandidate, OnFailed
<1>5. UNCHANGED vars => applying' = applying
  BY DEF vars, rtcVars
<1> QED
  BY <1>1, <1>2, <1>3, <1>4, <1>5 DEF Next

\* Candidates wait until a description is set, or the entry of peers is removed.
LEMMA PendingStays ==
  ASSUME CallInv, [Next]_vars, NEW e \in Browsers, NEW f \in Browsers, NEW w \in pendingIce[e][f]
  PROVE  \/ w \in pendingIce'[e][f] \/ peers'[e][f] = None
         \/ \E d \in applying : Set(d.pc, d) /\ d.pc[1] = e /\ pc[d.pc].peer = f
<1>0. /\ pendingIce \in [Browsers -> [Browsers -> SUBSET Ends]]
      /\ peers \in [Browsers -> [Browsers -> Ends \cup {None}]]
  BY TypeParts DEF CallInv
<1>1. ASSUME UNCHANGED pendingIce PROVE w \in pendingIce'[e][f]
  BY <1>1
<1>2. ASSUME NEW b \in Browsers, Leave(b)
      PROVE  w \in pendingIce'[e][f] \/ peers'[e][f] = None
  <2>1. /\ pendingIce' = [pendingIce EXCEPT ![b] = [q \in Browsers |-> {}]]
        /\ peers' = [peers EXCEPT ![b] = [q \in Browsers |-> None]]
    BY <1>2 DEF Leave
  <2> QED
    BY <1>0, <2>1
<1>3. ASSUME NEW b \in Browsers, Receive(b)
      PROVE  w \in pendingIce'[e][f] \/ peers'[e][f] = None
  <2> DEFINE m == down[b][1]
  <2>1. /\ m.from \in Browsers
        /\ \/ VoiceState(b, m) \/ HandlePeerLeft(b, m)
           \/ HandleOffer(b, m) \/ HandleAnswer(b, m) \/ HandleIce(b, m)
    BY <1>3, HeadIs
  <2> HIDE DEF m
  <2>2. VoiceState(b, m) \/ HandleOffer(b, m) \/ HandleAnswer(b, m) => UNCHANGED pendingIce
    BY DEF VoiceState, HandleOffer, HandleAnswer, rtcVars
  <2>3. CASE HandlePeerLeft(b, m)
    <3>1. /\ pendingIce' = [pendingIce EXCEPT ![b][m.from] = {}]
          /\ peers' = [peers EXCEPT ![b][m.from] = None]
      BY <2>3 DEF HandlePeerLeft
    <3> QED
      BY <1>0, <2>1, <3>1
  <2>4. CASE HandleIce(b, m)
    <3>1. UNCHANGED pendingIce \/ pendingIce' = [pendingIce EXCEPT ![b][m.from] = @ \cup {m.pc}]
      BY <2>4 DEF HandleIce
    <3> QED
      BY <1>0, <2>1, <3>1
  <2> QED
    BY <1>1, <2>1, <2>2, <2>3, <2>4
<1>4. ASSUME NEW d \in applying, Described(d), w \notin pendingIce'[e][f]
      PROVE  Set(d.pc, d) /\ d.pc[1] = e /\ pc[d.pc].peer = f
  <2>1. Fits(d)
    BY <1>1, <1>4 DEF Described, Fits
  <2>2. Set(d.pc, d)
    BY <1>4, <2>1, SetIs DEF CallInv
  <2>3. pendingIce' = [pendingIce EXCEPT ![d.pc[1]][pc[d.pc].peer] = {}]
    BY <2>2 DEF Set, SetRemote
  <2>4. d.pc[1] \in Browsers /\ pc[d.pc].peer \in Browsers
    <3>1. d.pc \in DOMAIN pc
      BY TypeParts DEF CallInv
    <3> QED
      BY <3>1, EndsOf DEF CallInv
  <2> QED
    BY <1>0, <1>4, <2>2, <2>3, <2>4
<1>5. ASSUME NEW b \in Browsers, Join(b) \/ AudioReady(b) \/ OfferReady(b)
      PROVE  UNCHANGED pendingIce
  BY <1>5 DEF Join, AudioReady, OfferReady, rtcVars
<1>6. ASSUME NEW x \in DOMAIN pc, OnIceCandidate(x) \/ OnFailed(x) PROVE UNCHANGED pendingIce
  BY <1>6 DEF OnIceCandidate, OnFailed
<1>7. UNCHANGED vars => UNCHANGED pendingIce
  BY DEF vars, rtcVars
<1> QED
  BY <1>1, <1>2, <1>3, <1>4, <1>5, <1>6, <1>7 DEF Next

\* The description of y is being set at x.
Setting(x, sdp, y) == \E d \in applying : d.pc = x /\ d.sdp = sdp /\ d.of = y

\* The candidate of w is there or will be, for the connection z of e to f.
Comes(e, f, z, w) ==
  \/ w \in pc[z].ice \/ Under(e, "voice_ice", w)
  \/ pc[z].remote = None /\ w \in pendingIce[e][f]

LEMMA ComesStays ==
  ASSUME CallInv, CallInv', [Next]_vars, NEW e \in Browsers, NEW f \in Browsers,
         NEW z \in Of(e, f), peers[e][f] = z, peers'[e][f] = z, pc'[z].open,
         HoldsOpen(e, f), NEW w \in DOMAIN pc, w[1] = f, Comes(e, f, z, w)
  PROVE  Comes(e, f, z, w)'
<1>0. /\ z \in DOMAIN pc /\ z[1] = e /\ pc[z].peer = f /\ z # None
      /\ pendingIce \in [Browsers -> [Browsers -> SUBSET Ends]]
  <2>1. z \in DOMAIN pc /\ z[1] = e /\ pc[z].peer = f
    BY DEF Of, Own
  <2>2. z # None
    BY <2>1, EndsOf DEF CallInv
  <2> QED
    BY <2>1, <2>2, TypeParts DEF CallInv
<1>1. /\ pc[z].ice \subseteq pc'[z].ice
      /\ Unchanged(z) \/ Offered(z) \/ Gathered(z) \/ \E d \in applying : Set(z, d)
  <2>1. Unchanged(z) \/ Offered(z) \/ Gathered(z) \/ \E d \in applying : Set(z, d)
    BY <1>0, ConnectionStep DEF Shut
  <2> QED
    BY <2>1 DEF Unchanged, Offered, Gathered, Set, Still
<1>2. CASE w \in pc[z].ice
  BY <1>1, <1>2 DEF Comes
<1>3. CASE pc[z].remote = None /\ w \in pendingIce[e][f]
  <2>1. ASSUME NEW d \in applying, Set(z, d) PROVE w \in pc'[z].ice
    BY <1>0, <1>3, <2>1 DEF Set, Flushed
  <2>2. CASE pc'[z].remote = None /\ w \in pendingIce'[e][f]
    BY <2>2 DEF Comes
  <2>3. CASE pc'[z].remote # None
    <3>1. \E d \in applying : Set(z, d)
      BY <1>1, <1>3, <2>3 DEF Unchanged, Offered, Gathered
    <3> QED
      BY <2>1, <3>1 DEF Comes
  <2>4. ASSUME NEW d \in applying, Set(d.pc, d), d.pc[1] = e, pc[d.pc].peer = f
        PROVE  w \in pc'[z].ice
    <3>1. d.pc \in Of(e, f) /\ pc[d.pc].open
      <4>1. d.pc \in DOMAIN pc
        BY TypeParts DEF CallInv
      <4> QED
        BY <2>4, <4>1 DEF Of, Own, Set, Fits
    <3>2. d.pc = z
      BY <3>1 DEF HoldsOpen
    <3> QED
      BY <2>1, <2>4, <3>2
  <2>5. w \in pendingIce'[e][f] \/ \E d \in applying : Set(d.pc, d) /\ d.pc[1] = e /\ pc[d.pc].peer = f
    BY <1>0, <1>3, PendingStays
  <2> QED
    BY <2>2, <2>3, <2>4, <2>5 DEF Comes
<1>4. CASE Under(e, "voice_ice", w)
  <2>1. CASE Under(e, "voice_ice", w)'
    BY <2>1 DEF Comes
  <2>2. CASE Receive(e) /\ down[e][1].type = "voice_ice" /\ down[e][1].pc = w
    <3> DEFINE m == down[e][1]
    <3>1. m.from = f
      BY <2>2, HeadIs DEF Proper
    <3>2. HandleIce(e, m)
      BY <2>2, HeadIs DEF VoiceState, HandlePeerLeft, HandleOffer, HandleAnswer
    <3>3. IF pc[z].remote = None
            THEN /\ pendingIce' = [pendingIce EXCEPT ![e][f] = @ \cup {w}]
                 /\ pc' = pc
            ELSE pc' = [pc EXCEPT ![z].ice = @ \cup {w}]
      BY <1>0, <2>2, <3>1, <3>2 DEF HandleIce
    <3>4. CASE pc[z].remote = None
      BY <1>0, <3>3, <3>4 DEF Comes
    <3>5. CASE pc[z].remote # None
      <4>1. pc'[z] = [pc[z] EXCEPT !.ice = @ \cup {w}] /\ pc[z] \in Connections
        BY <1>0, <3>3, <3>5, EndsOf DEF CallInv
      <4>2. w \in pc'[z].ice
        BY <4>1, AddedFields
      <4> QED
        BY <4>2 DEF Comes
    <3> QED
      BY <3>4, <3>5
  <2> QED
    BY <1>4, <2>1, <2>2, UnderStays
<1> QED
  BY <1>2, <1>3, <1>4 DEF Comes

\* Who holds a connection to q, and is to learn that q has left, will: the
\* connection is closed when it learns of it.
LEMMA DoomStays ==
  ASSUME CallInv, [Next]_vars, NEW b \in Browsers, NEW q \in Browsers,
         peers'[b][q] # None, Lefts(q, b) # {}
  PROVE  Lefts(q, b)' # {}
<1>1. PICK k \in 1..Len(down[b]) : down[b][k].type = "voice_peer_left" /\ down[b][k].from = q
  BY DEF Lefts
<1>2. ~(Receive(b) /\ k = 1)
  <2>1. Receive(b) /\ k = 1 => peers'[b][q] = None
    BY <1>1, ReceiveEntries
  <2> QED
    BY <2>1
<1>3. \E i \in 1..Len(down'[b]) : down'[b][i] = down[b][k]
  BY <1>2, NoteStays
<1>4. \E i \in 1..Len(down'[b]) :
        down'[b][i].type = "voice_peer_left" /\ down'[b][i].from = q
  BY <1>1, <1>3
<1> QED
  BY <1>4 DEF Lefts

LEMMA ChannelLess ==
  ASSUME CallInv, [Next]_vars, NEW b \in channel, b \notin channel' PROVE b \in Browsers /\ Leave(b)
<1>1. b \in Browsers
  BY TypeParts DEF CallInv
<1>2. ASSUME NEW d \in Browsers, Join(d) \/ AudioReady(d) \/ OfferReady(d) \/ Receive(d)
      PROVE  b \in channel'
  BY <1>2 DEF Join, AudioReady, JoinVoice, OfferReady, RelayVoice, Receive
<1>3. ASSUME NEW d \in Browsers, Leave(d) PROVE Leave(b)
  <2>1. channel' = channel \ {d}
    BY <1>3 DEF Leave, LeaveVoice
  <2>2. b = d
    BY <2>1
  <2> QED
    BY <1>3, <2>2
<1>4. ASSUME NEW d \in applying, Described(d) PROVE b \in channel'
  BY <1>4 DEF Described, RelayVoice
<1>5. ASSUME NEW x \in DOMAIN pc, OnIceCandidate(x) \/ OnFailed(x) PROVE b \in channel'
  BY <1>5 DEF OnIceCandidate, OnFailed, RelayVoice
<1>6. UNCHANGED vars => b \in channel'
  BY DEF vars
<1> QED
  BY <1>1, <1>2, <1>3, <1>4, <1>5, <1>6 DEF Next

\* Of two in the channel, one stays, or the other one learns that it leaves.
LEMMA TogetherStays ==
  ASSUME CallInv, [Next]_vars, NEW b \in Browsers, NEW q \in Browsers, b # q,
         peers'[b][q] # None, {b, q} \subseteq channel
  PROVE  {b, q} \subseteq channel' \/ Lefts(q, b)' # {}
<1>1. ASSUME Leave(b) PROVE FALSE
  <2>1. peers' = [peers EXCEPT ![b] = [e \in Browsers |-> None]]
    BY <1>1 DEF Leave
  <2> QED
    BY <2>1, TypeParts DEF CallInv
<1>2. ASSUME Leave(q) PROVE Lefts(q, b)' # {}
  <2>1. channel' = channel \ {q} /\ Announce("voice_peer_left", q) /\ channel' \subseteq Browsers
    BY <1>2, TypeParts DEF Leave, LeaveVoice, CallInv
  <2>2. b \in channel' \ {q}
    BY <2>1
  <2>3. \E k \in Lefts(q, b)' : \A i \in Offers(q, b)' : i < k
    BY <2>1, <2>2, AnnounceQueue DEF CallInv
  <2> QED
    BY <2>3
<1> QED
  BY <1>1, <1>2, ChannelLess

-----------------------------------------------------------------------------
(* Where a browser is in its join *)

\* A turn of the loop of q over its existingMembers.
Turn(q) ==
  \/ targets[q] = {} /\ targets'[q] = {} /\ stage'[q] = Idle
  \/ \E e \in targets[q] :
       /\ targets'[q] = targets[q] \ {e}
       /\ stage'[q] = Fresh(q) /\ Made(q, e) /\ peers'[q][e] = Fresh(q)

LEMMA TurnIs ==
  ASSUME TypeOK, Counted, NEW q \in Browsers, NEW cs, Sameish(cs), NextMember(q, cs)
  PROVE  Turn(q)
<1>1. /\ targets \in [Browsers -> SUBSET Browsers]
      /\ stage \in [Browsers -> Ends \cup {Idle, Audio}]
      /\ peers \in [Browsers -> [Browsers -> Ends \cup {None}]]
  BY TypeParts
<1>2. ASSUME NEW e \in targets[q],
             targets' = [targets EXCEPT ![q] = @ \ {e}], Made(q, e),
             peers' = [peers EXCEPT ![q][e] = Fresh(q)],
             stage' = [stage EXCEPT ![q] = Fresh(q)]
      PROVE  Turn(q)
  <2>1. e \in Browsers
    BY <1>1
  <2>2. targets'[q] = targets[q] \ {e} /\ stage'[q] = Fresh(q) /\ peers'[q][e] = Fresh(q)
    BY <1>1, <1>2, <2>1
  <2> QED
    BY <1>2, <2>2 DEF Turn
<1>3. ASSUME targets[q] = {}, stage' = [stage EXCEPT ![q] = Idle], targets' = targets
      PROVE  Turn(q)
  BY <1>1, <1>3 DEF Turn
<1> QED
  BY <1>2, <1>3, NextMemberIs

LEMMA OthersWait ==
  ASSUME TypeOK, NEW b \in Browsers, NEW q \in Browsers, q # b, NEW cs, NextMember(b, cs)
  PROVE  stage'[q] = stage[q] /\ targets'[q] = targets[q]
BY TypeParts DEF NextMember

\* What a step does to the join of q.
LEMMA JoinStep ==
  ASSUME CallInv, [Next]_vars, NEW q \in Browsers
  PROVE  \/ Join(q)
         \/ /\ joins'[q] = joins[q] /\ saw'[q] = saw[q] /\ (active'[q] => active[q])
            /\ \/ stage'[q] = stage[q] /\ targets'[q] = targets[q]
               \/ (AudioReady(q) \/ OfferReady(q)) /\ Turn(q)
<1> USE DEF CallInv
<1>0. /\ joins \in [Browsers -> Nat] /\ saw \in [Browsers -> SUBSET Browsers]
      /\ targets \in [Browsers -> SUBSET Browsers]
      /\ stage \in [Browsers -> Ends \cup {Idle, Audio}]
      /\ active \in [Browsers -> BOOLEAN]
  BY TypeParts
<1>1. ASSUME NEW b \in Browsers, Join(b), b # q
      PROVE  /\ joins'[q] = joins[q] /\ saw'[q] = saw[q] /\ active'[q] = active[q]
             /\ stage'[q] = stage[q] /\ targets'[q] = targets[q]
  BY <1>0, <1>1 DEF Join
<1>2. ASSUME NEW b \in Browsers, AudioReady(b)
      PROVE  /\ joins' = joins /\ saw' = saw /\ active' = active
             /\ \/ stage'[q] = stage[q] /\ targets'[q] = targets[q]
                \/ AudioReady(q) /\ Turn(q)
  <2>1. NextMember(b, pc) /\ Sameish(pc)
    BY <1>2, AudioReadySame DEF AudioReady
  <2>2. joins' = joins /\ saw' = saw /\ active' = active
    BY <1>2 DEF AudioReady
  <2>3. CASE b = q
    BY <1>2, <2>1, <2>2, <2>3, TurnIs
  <2>4. CASE b # q
    BY <2>1, <2>2, <2>4, OthersWait
  <2> QED
    BY <2>3, <2>4
<1>3. ASSUME NEW b \in Browsers, OfferReady(b)
      PROVE  /\ joins' = joins /\ saw' = saw /\ active' = active
             /\ \/ stage'[q] = stage[q] /\ targets'[q] = targets[q]
                \/ OfferReady(q) /\ Turn(q)
  <2> DEFINE cs == IF pc[stage[b]].open THEN [pc EXCEPT ![stage[b]].local = TRUE] ELSE pc
  <2>1. NextMember(b, cs) /\ Sameish(cs)
    BY <1>3, AudioReadySame, OfferReadySame DEF OfferReady
  <2>2. joins' = joins /\ saw' = saw /\ active' = active
    BY <1>3 DEF OfferReady
  <2> HIDE DEF cs
  <2>3. CASE b = q
    BY <1>3, <2>1, <2>2, <2>3, TurnIs
  <2>4. CASE b # q
    BY <2>1, <2>2, <2>4, OthersWait
  <2> QED
    BY <2>3, <2>4
<1>4. ASSUME NEW b \in Browsers, Leave(b)
      PROVE  /\ joins' = joins /\ saw' = saw /\ stage' = stage /\ targets' = targets
             /\ active'[q] => active[q]
  BY <1>0, <1>4 DEF Leave, joinVars
<1>5. ASSUME NEW b \in Browsers, Receive(b)
      PROVE  joins' = joins /\ saw' = saw /\ stage' = stage /\ targets' = targets /\ active' = active
  BY <1>5 DEF Receive, VoiceState, HandlePeerLeft, HandleOffer, HandleAnswer, HandleIce, joinVars
<1>6. ASSUME NEW d \in applying, Described(d)
      PROVE  joins' = joins /\ saw' = saw /\ stage' = stage /\ targets' = targets /\ active' = active
  BY <1>6 DEF Described, joinVars, callVars
<1>7. ASSUME NEW x \in DOMAIN pc, OnIceCandidate(x) \/ OnFailed(x)
      PROVE  joins' = joins /\ saw' = saw /\ stage' = stage /\ targets' = targets /\ active' = active
  BY <1>7 DEF OnIceCandidate, OnFailed, joinVars, callVars
<1>8. UNCHANGED vars =>
        joins' = joins /\ saw' = saw /\ stage' = stage /\ targets' = targets /\ active' = active
  BY DEF vars, joinVars, callVars
<1> QED
  BY <1>1, <1>2, <1>3, <1>4, <1>5, <1>6, <1>7, <1>8 DEF Next

LEMMA JoinIs ==
  ASSUME TypeOK, NEW q \in Browsers, Join(q)
  PROVE  /\ joins'[q] = joins[q] + 1 /\ joins[q] \in Nat /\ stage[q] = Idle
         /\ saw'[q] = saw[q] \cup members[q] /\ targets'[q] = members[q]
         /\ stage'[q] = Audio /\ active'[q] /\ pc' = pc /\ down' = down /\ channel' = channel
         /\ peers' = peers /\ applying' = applying /\ pendingIce' = pendingIce
         /\ \A b \in Browsers \ {q} : stage'[b] = stage[b] /\ targets'[b] = targets[b]
                                      /\ saw'[b] = saw[b] /\ joins'[b] = joins[b]
<1>1. /\ joins \in [Browsers -> Nat] /\ saw \in [Browsers -> SUBSET Browsers]
      /\ targets \in [Browsers -> SUBSET Browsers]
      /\ stage \in [Browsers -> Ends \cup {Idle, Audio}]
      /\ active \in [Browsers -> BOOLEAN]
  BY TypeParts
<1> QED
  BY <1>1 DEF Join, rtcVars

\* q has been in the channel; q has been in it and left.
Been(q) == joins[q] # 0 /\ (joins[q] = 1 => stage[q] # Audio)
Gone(q) == joins[q] # 0 /\ (joins[q] = 1 => ~active[q])

LEMMA BeenStays ==
  ASSUME CallInv, [Next]_vars, NEW q \in Browsers PROVE (Been(q) => Been(q)') /\ (Gone(q) => Gone(q)')
<1>1. CASE Join(q)
  <2>1. joins'[q] = joins[q] + 1 /\ joins[q] \in Nat
    BY <1>1, JoinIs DEF CallInv
  <2> QED
    BY <2>1 DEF Been, Gone
<1>2. CASE /\ joins'[q] = joins[q] /\ (active'[q] => active[q])
           /\ (stage'[q] = Audio => stage[q] = Audio)
  BY <1>2 DEF Been, Gone
<1>3. Turn(q) => stage'[q] # Audio
  <2>1. Fresh(q) # Audio
    BY FreshIs, Marks DEF CallInv
  <2> QED
    BY <2>1, Marks DEF Turn
<1> QED
  BY <1>1, <1>2, <1>3, JoinStep

\* Who is in the channel has been in it.
LEMMA InChannel == CallInv => \A q \in channel : Been(q)
<1> SUFFICES ASSUME CallInv, NEW q \in channel PROVE Been(q)
  OBVIOUS
<1>1. q \in Browsers
  BY TypeParts DEF CallInv
<1>2. Phase(q)
  BY <1>1 DEF CallInv, Phases
<1> QED
  BY <1>1, <1>2 DEF Phase, Been

LEMMA InChannelNext == CallInv' => (\A q \in channel : Been(q))'
BY InChannel, PTL

\* What a browser is shown is true, or was.
TrueNote(m) ==
  /\ \A q \in m.who : Been(q)
  /\ m.type = "voice_peer_left" => Gone(m.from)
TrueOf(b) ==
  /\ \A q \in members[b] : Been(q)
  /\ \A q \in saw[b] : Been(q)
  /\ \A i \in 1..Len(down[b]) : TrueNote(down[b][i])
  /\ joins[b] = 0 => saw[b] = {}
  /\ joins[b] = 1 /\ stage[b] = Audio => targets[b] = saw[b]
Truthful == \A b \in Browsers : TrueOf(b)

LEMMA MembersAre ==
  ASSUME CallInv, [Next]_vars, NEW b \in Browsers
  PROVE  members'[b] = members[b] \/ (Receive(b) /\ members'[b] = down[b][1].who)
<1>0. members \in [Browsers -> SUBSET Browsers]
  BY TypeParts DEF CallInv
<1>1. ASSUME NEW q \in Browsers, Receive(q)
      PROVE  members'[b] = members[b] \/ (Receive(b) /\ members'[b] = down[b][1].who)
  <2> DEFINE m == down[q][1]
  <2>1. \/ VoiceState(q, m) \/ HandlePeerLeft(q, m)
        \/ HandleOffer(q, m) \/ HandleAnswer(q, m) \/ HandleIce(q, m)
    BY <1>1, HeadIs
  <2>2. members' = members \/ members' = [members EXCEPT ![q] = m.who]
    BY <2>1 DEF VoiceState, HandlePeerLeft, HandleOffer, HandleAnswer, HandleIce
  <2> QED
    BY <1>0, <1>1, <2>2
<1>2. ASSUME NEW d \in Browsers, Join(d) \/ AudioReady(d) \/ OfferReady(d) \/ Leave(d)
      PROVE  members' = members
  BY <1>2 DEF Join, AudioReady, OfferReady, Leave
<1>3. ASSUME NEW d \in applying, Described(d) PROVE members' = members
  BY <1>3 DEF Described
<1>4. ASSUME NEW x \in DOMAIN pc, OnIceCandidate(x) \/ OnFailed(x) PROVE members' = members
  BY <1>4 DEF OnIceCandidate, OnFailed
<1>5. UNCHANGED vars => members' = members
  BY DEF vars
<1> QED
  BY <1>1, <1>2, <1>3, <1>4, <1>5 DEF Next

LEMMA StepTruthful ==
  ASSUME CallInv, CallInv', Truthful, [Next]_vars PROVE Truthful'
<1> SUFFICES ASSUME NEW b \in Browsers PROVE TrueOf(b)'
  BY DEF Truthful
<1>0. /\ TrueOf(b) /\ down[b] \in Seq(Notes)
      /\ members[b] \subseteq Browsers /\ saw[b] \subseteq Browsers
  BY TypeParts DEF CallInv, Truthful
<1>1. ASSUME NEW m \in Notes, TrueNote(m) PROVE TrueNote(m)'
  <2>1. m.who \subseteq Browsers /\ m.from \in Browsers
    BY DEF Notes
  <2>2. \A q \in Browsers : (Been(q) => Been(q)') /\ (Gone(q) => Gone(q)')
    BY BeenStays
  <2> QED
    BY <1>1, <2>1, <2>2 DEF TrueNote
<1>2. ASSUME NEW m \in Notes, Announced(m) \/ Relayed(b, m) PROVE TrueNote(m)'
  <2>1. CASE Announced(m)
    <3>1. \A q \in m.who : Been(q)'
      <4>1. \A q \in channel' : Been(q)'
        BY InChannelNext
      <4> QED
        BY <2>1, <4>1 DEF Announced
    <3>2. ASSUME m.type = "voice_peer_left" PROVE Gone(m.from)'
      <4>1. m.from \in Browsers /\ Leave(m.from)
        BY <2>1, <3>2 DEF Announced, Notes
      <4>2. /\ ~active'[m.from] /\ joins'[m.from] = joins[m.from]
            /\ shown[m.from]
        BY <4>1, TypeParts DEF Leave, joinVars, CallInv
      <4>3. joins[m.from] # 0
        BY <4>1, <4>2 DEF CallInv, Phases, Phase
      <4> QED
        BY <4>2, <4>3 DEF Gone
    <3> QED
      BY <3>1, <3>2 DEF TrueNote
  <2>2. CASE Relayed(b, m)
    BY <2>2 DEF Relayed, TrueNote
  <2> QED
    BY <1>2, <2>1, <2>2
<1>3. ASSUME NEW i \in 1..Len(down'[b]), NEW n, n = down'[b][i] PROVE TrueNote(n)'
  <2>1. CASE down'[b] = down[b]
    <3>1. n \in Notes /\ TrueNote(n)
      BY <1>0, <1>3, <2>1 DEF TrueOf
    <3> QED
      BY <1>1, <3>1
  <2>2. CASE Receive(b)
    <3>1. /\ Len(down[b]) \in Nat \ {0} /\ Len(down'[b]) = Len(down[b]) - 1
          /\ \A j \in 1..Len(down'[b]) : down'[b][j] = down[b][j + 1]
      BY <2>2, ReceiveIs DEF CallInv
    <3>2. i + 1 \in 1..Len(down[b]) /\ down'[b][i] = down[b][i + 1]
      BY <3>1
    <3>3. n \in Notes /\ TrueNote(n)
      BY <1>0, <1>3, <3>2 DEF TrueOf
    <3> QED
      BY <1>1, <3>3
  <2>3. ASSUME NEW m \in Notes, down'[b] = Append(down[b], m), Announced(m) \/ Relayed(b, m)
        PROVE  TrueNote(n)'
    <3>1. /\ Len(down'[b]) = Len(down[b]) + 1 /\ down'[b][Len(down[b]) + 1] = m
          /\ \A j \in 1..Len(down[b]) : down'[b][j] = down[b][j]
          /\ Len(down[b]) \in Nat
      BY <1>0, <2>3
    <3>2. CASE i \in 1..Len(down[b])
      <4>1. n \in Notes /\ TrueNote(n)
        BY <1>0, <1>3, <3>1, <3>2 DEF TrueOf
      <4> QED
        BY <1>1, <4>1
    <3>3. CASE i = Len(down[b]) + 1
      <4>1. n = m
        BY <1>3, <3>1, <3>3
      <4>2. TrueNote(m)'
        BY <1>2, <2>3
      <4> QED
        BY <4>1, <4>2
    <3> QED
      BY <3>1, <3>2, <3>3
  <2> QED
    BY <2>1, <2>2, <2>3, NoteStep
<1>4. \A q \in members'[b] : Been(q)'
  <2>1. ASSUME NEW q \in members[b] PROVE Been(q)'
    BY <1>0, BeenStays DEF TrueOf
  <2>2. ASSUME Receive(b), NEW q \in down[b][1].who PROVE Been(q)'
    <3>1. down[b][1] \in Notes /\ 1 \in 1..Len(down[b])
      BY <2>2, HeadIs
    <3>2. Been(q) /\ q \in Browsers
      BY <1>0, <2>2, <3>1 DEF TrueOf, TrueNote, Notes
    <3> QED
      BY <3>2, BeenStays
  <2> QED
    BY <2>1, <2>2, MembersAre
<1>5. \A q \in saw'[b] : Been(q)'
  <2>1. saw'[b] \subseteq saw[b] \cup members[b]
    BY JoinStep, JoinIs DEF CallInv
  <2> QED
    BY <1>0, <2>1, BeenStays DEF TrueOf
<1>6. joins'[b] = 0 => saw'[b] = {}
  <2>1. Join(b) => joins'[b] # 0
    BY JoinIs DEF CallInv
  <2> QED
    BY <1>0, <2>1, JoinStep DEF TrueOf
<1>7. joins'[b] = 1 /\ stage'[b] = Audio => targets'[b] = saw'[b]
  <2>1. Join(b) /\ joins'[b] = 1 => targets'[b] = saw'[b]
    <3>1. ASSUME Join(b), joins'[b] = 1 PROVE targets'[b] = saw'[b]
      <4>1. /\ joins'[b] = joins[b] + 1 /\ joins[b] \in Nat
            /\ saw'[b] = saw[b] \cup members[b] /\ targets'[b] = members[b]
        BY <3>1, JoinIs DEF CallInv
      <4>2. saw[b] = {}
        BY <1>0, <3>1, <4>1 DEF TrueOf
      <4> QED
        BY <4>1, <4>2
    <3> QED
      BY <3>1
  <2>2. Turn(b) => stage'[b] # Audio
    <3>1. Fresh(b) # Audio
      BY FreshIs, Marks DEF CallInv
    <3> QED
      BY <3>1, Marks DEF Turn
  <2> QED
    BY <1>0, <2>1, <2>2, JoinStep DEF TrueOf
<1> QED
  BY <1>3, <1>4, <1>5, <1>6, <1>7 DEF TrueOf

\* Of two who have clicked once, one only was shown the other.
OneOffers ==
  \A b, q \in Browsers :
    b # q /\ joins[b] = 1 /\ joins[q] = 1 /\ q \in saw[b] => b \notin saw[q]

LEMMA StepOneOffers ==
  ASSUME CallInv, CallInv', Truthful, OneOffers, [Next]_vars PROVE OneOffers'
<1> SUFFICES ASSUME NEW b \in Browsers, NEW q \in Browsers, b # q,
                    joins'[b] = 1, joins'[q] = 1, q \in saw'[b], b \in saw'[q]
             PROVE  FALSE
  BY DEF OneOffers
<1>1. ASSUME NEW e \in Browsers, NEW f \in Browsers, e # f, joins'[e] = 1, joins'[f] = 1,
             e \in saw'[f], Join(e)
      PROVE  FALSE
  <2>1. joins[e] = 0 /\ saw'[f] = saw[f]
    BY <1>1, JoinIs DEF CallInv
  <2>2. Been(e)
    BY <1>1, <2>1 DEF Truthful, TrueOf
  <2> QED
    BY <2>1, <2>2 DEF Been
<1>2. ~Join(b) /\ ~Join(q)
  BY <1>1
<1>3. joins'[b] = joins[b] /\ joins'[q] = joins[q] /\ saw'[b] = saw[b] /\ saw'[q] = saw[q]
  BY <1>2, JoinStep
<1> QED
  BY <1>3 DEF OneOffers

\* A connection with a remote description has one of its own, and so has one that
\* has found its candidates; they are found on open ones.
LocalOf(x) ==
  /\ pc[x].remote # None => pc[x].local
  /\ pc[x].gathered => pc[x].local /\ pc[x].open
Locals == \A x \in DOMAIN pc : LocalOf(x)

\* A connection that is made has nothing yet.
LEMMA NewFields ==
  ASSUME NEW q, NEW c, c = [New EXCEPT !.peer = q]
  PROVE  c.peer = q /\ c.open /\ ~c.local /\ ~c.gathered /\ c.remote = None /\ c.ice = {}
BY DEF New

Blank(x) == /\ pc'[x].open /\ ~pc'[x].local /\ ~pc'[x].gathered
            /\ pc'[x].remote = None /\ pc'[x].ice = {}

LEMMA OfWas ==
  ASSUME CallInv, [Next]_vars, NEW b \in Browsers, NEW q \in Browsers, NEW x \in Of(b, q)'
  PROVE  \/ x \in Of(b, q)
         \/ x \notin DOMAIN pc /\ x = Fresh(b) /\ Made(b, q) /\ Blank(x)
<1> USE DEF CallInv
<1>1. CASE NoneMade
  BY <1>1, OfNoneMade
<1>2. ASSUME NEW d \in Browsers, NEW e \in Browsers, Made(d, e)
      PROVE  \/ x \in Of(b, q)
             \/ x \notin DOMAIN pc /\ x = Fresh(b) /\ Made(b, q) /\ Blank(x)
  <2>1. Of(b, q)' = IF b = d /\ q = e THEN Of(d, e) \cup {Fresh(d)} ELSE Of(b, q)
    BY <1>2, OfMade
  <2>2. CASE x \in Of(b, q)
    BY <2>2
  <2>3. CASE x \notin Of(b, q)
    <3>1. b = d /\ q = e /\ x = Fresh(b)
      BY <2>1, <2>3
    <3>2. x \notin DOMAIN pc
      BY <3>1, FreshIs
    <3>3. pc'[x] = [New EXCEPT !.peer = q]
      BY <1>2, <3>1 DEF Made
    <3>4. Blank(x)
      BY <3>3, NewFields DEF Blank
    <3> QED
      BY <1>2, <3>1, <3>2, <3>4
  <2> QED
    BY <2>2, <2>3
<1> QED
  BY <1>1, <1>2, StepConnections

\* Who it is of does not change.
LEMMA OfStays ==
  ASSUME CallInv, [Next]_vars, NEW b, NEW q, NEW x \in Of(b, q)
  PROVE  x \in Of(b, q)'
<1>1. \A z \in DOMAIN pc : Kept(z)
  BY StepConnections DEF NoneMade, Made
<1> QED
  BY <1>1 DEF Of, Own, Kept

LEMMA OfIs ==
  ASSUME CallInv, NEW b, NEW q, NEW x \in Of(b, q)
  PROVE  /\ x \in DOMAIN pc /\ x \in Ends /\ x # None /\ x[1] = b /\ pc[x].peer = q
         /\ b \in Browsers /\ q \in Browsers /\ pc[x] \in Connections
<1>1. x \in DOMAIN pc /\ x[1] = b /\ pc[x].peer = q
  BY DEF Of, Own
<1> QED
  BY <1>1, EndsOf DEF CallInv

LEMMA StepLocals ==
  ASSUME CallInv, Locals, [Next]_vars PROVE Locals'
<1> SUFFICES ASSUME NEW x \in DOMAIN pc' PROVE LocalOf(x)'
  BY DEF Locals
<1>1. CASE x \in DOMAIN pc
  <2>1. LocalOf(x)
    BY <1>1 DEF Locals
  <2>2. CASE Unchanged(x)
    BY <2>1, <2>2 DEF Unchanged, Still, SameLocal, SameGathered, LocalOf
  <2>3. CASE Shut(x)
    BY <2>3 DEF Shut, LocalOf
  <2>4. CASE Offered(x)
    BY <2>1, <2>4 DEF Offered, Still, SameGathered, LocalOf
  <2>5. CASE Gathered(x)
    <3>1. pc[x].open
      BY <2>5 DEF Gathered, OnIceCandidate, Gathers
    <3> QED
      BY <2>5, <3>1 DEF Gathered, Still, LocalOf
  <2>6. ASSUME NEW d \in applying, Set(x, d) PROVE LocalOf(x)'
    BY <2>1, <2>6 DEF Set, Still, SameGathered, LocalOf
  <2> QED
    BY <1>1, <2>2, <2>3, <2>4, <2>5, <2>6, ConnectionStep
<1>2. CASE x \notin DOMAIN pc
  <2>1. PICK b \in Browsers, q \in Browsers : Made(b, q)
    BY <1>2, StepConnections DEF NoneMade
  <2>2. pc'[x] = [New EXCEPT !.peer = q]
    BY <1>2, <2>1 DEF Made
  <2>3. ~pc'[x].gathered /\ pc'[x].remote = None
    BY <2>2, NewFields
  <2> QED
    BY <2>3 DEF LocalOf
<1> QED
  BY <1>1, <1>2

-----------------------------------------------------------------------------
(* Two browsers of which q was never shown b: what is under way between them *)

\* The offer of x has left b.
OfferOut(b, q, x) ==
  \/ Under(q, "voice_offer", x)
  \/ \E y \in Of(q, b) : Setting(y, "offer", x) \/ pc[y].remote = x

\* Both are in the channel, or b will learn that q has left.
Sure(b, q) == Lefts(q, b) # {} \/ {b, q} \subseteq channel

\* The connection y of q answers x, of b, which has the answer or will have it.
Answered(b, x, y) ==
  /\ pc[y].remote = x
  /\ \/ pc[x].remote = y
     \/ pc[x].remote = None /\ (Under(b, "voice_answer", y) \/ Setting(x, "answer", y))

\* An offer is made once, and sent when both are in the channel.
Staged(b, q) == \A x \in Of(b, q) : stage[b] = x => ~pc[x].local
Reached(b, q) == \A x \in Of(b, q) : pc[x].open /\ OfferOut(b, q, x) => Sure(b, q)

\* The candidates of the answer come to the offer.
OffererHears(b, q) ==
  \A x \in Of(b, q), y \in Of(q, b) :
    pc[x].open /\ pc[y].gathered /\ Answered(b, x, y) =>
      Lefts(q, b) # {} \/ Comes(b, q, x, y)

\* Those of the offer come behind it, and to its answer.
Behind(q, i, x) ==
  \E j \in 1..Len(down[q]) : i < j /\ down[q][j].type = "voice_ice" /\ down[q][j].pc = x
OfferFollowed(b, q) ==
  \A x \in Of(b, q) : \A i \in Offers(b, q) :
    down[q][i].pc = x /\ pc[x].gathered => Lefts(q, b) # {} \/ Behind(q, i, x)
Answers(y, x) == pc[y].remote = x \/ (pc[y].remote = None /\ Setting(y, "offer", x))
AnswererHears(b, q) ==
  joins[b] <= 1 \/ joins[q] <= 1 =>
    \A x \in Of(b, q), y \in Of(q, b) :
      pc[y].open /\ pc[x].gathered /\ Answers(y, x) => Lefts(q, b) # {} \/ Comes(q, b, y, x)

Flow(b, q) ==
  /\ Staged(b, q) /\ Reached(b, q)
  /\ OffererHears(b, q) /\ OfferFollowed(b, q) /\ AnswererHears(b, q)
Flows == \A b, q \in Browsers : b # q /\ b \notin saw[q] => Flow(b, q)

LEMMA Entries ==
  CallInv => \A b, q \in Browsers : b # q /\ b \notin saw[q] =>
               /\ HoldsOpen(b, q)
               /\ joins[b] <= 1 \/ joins[q] <= 1 => HoldsOpen(q, b)
BY DEF CallInv, Pairs, Pair, Offerer, OfferedOnce, AnswererOnce

LEMMA EntriesNext ==
  CallInv' => (\A b, q \in Browsers : b # q /\ b \notin saw[q] =>
                 /\ HoldsOpen(b, q)
                 /\ joins[b] <= 1 \/ joins[q] <= 1 => HoldsOpen(q, b))'
BY Entries, PTL

\* b holds its connection that is open, before and after the step.
LEMMA OffererHolds ==
  ASSUME CallInv, CallInv', [Next]_vars, NEW b \in Browsers, NEW q \in Browsers, b # q,
         b \notin saw'[q], NEW x \in Of(b, q), pc'[x].open
  PROVE  peers[b][q] = x /\ peers'[b][q] = x /\ x # None /\ pc[x].open
<1>1. x \in Of(b, q)' /\ b \notin saw[q]
  BY OfStays, SawGrows
<1>2. pc[x].open /\ x # None
  <2>1. \A z \in DOMAIN pc : Kept(z)
    BY StepConnections DEF NoneMade, Made
  <2>2. x \in DOMAIN pc /\ x # None
    BY OfIs
  <2> QED
    BY <2>1, <2>2 DEF Kept
<1>3. HoldsOpen(b, q) /\ HoldsOpen(b, q)'
  BY <1>1, Entries, EntriesNext
<1> QED
  BY <1>1, <1>2, <1>3 DEF HoldsOpen

LEMMA AnswererHolds ==
  ASSUME CallInv, CallInv', [Next]_vars, NEW b \in Browsers, NEW q \in Browsers, b # q,
         b \notin saw'[q], joins'[b] <= 1 \/ joins'[q] <= 1, NEW y \in Of(q, b), pc'[y].open
  PROVE  peers[q][b] = y /\ peers'[q][b] = y /\ y # None /\ pc[y].open /\ HoldsOpen(q, b)
<1>1. y \in Of(q, b)' /\ b \notin saw[q]
  BY OfStays, SawGrows
<1>2. pc[y].open /\ y # None
  <2>1. \A z \in DOMAIN pc : Kept(z)
    BY StepConnections DEF NoneMade, Made
  <2>2. y \in DOMAIN pc /\ y # None
    BY OfIs
  <2> QED
    BY <2>1, <2>2 DEF Kept
<1>3. joins[b] <= 1 \/ joins[q] <= 1
  <2>1. ASSUME NEW e \in Browsers, joins'[e] <= 1 PROVE joins[e] <= 1
    <3>1. joins'[e] = joins[e] \/ (joins'[e] = joins[e] + 1 /\ joins[e] \in Nat)
      BY JoinStep, JoinIs DEF CallInv
    <3> QED
      BY <2>1, <3>1
  <2> QED
    BY <2>1
<1>4. HoldsOpen(q, b) /\ HoldsOpen(q, b)'
  BY <1>1, <1>3, Entries, EntriesNext
<1> QED
  BY <1>1, <1>2, <1>4 DEF HoldsOpen

\* What is set at a connection of the one who offers is an answer, at one of the
\* other an offer.
LEMMA SetBetween ==
  ASSUME CallInv, NEW b \in Browsers, NEW q \in Browsers, b \notin saw[q], NEW d \in applying
  PROVE  /\ d.pc \in Of(b, q) => d.sdp = "answer" /\ d.of \in Of(q, b)
         /\ d.pc \in Of(q, b) => d.sdp = "offer" /\ d.of \in Of(b, q)
<1>1. /\ d.pc \in DOMAIN pc /\ d.of \in DOMAIN pc /\ d.sdp \in {"offer", "answer"}
      /\ Meant(d)
  BY TypeParts DEF CallInv, Routed
<1> QED
  BY <1>1 DEF Meant, Fit, Of, Own

LEMMA TurnTaken ==
  ASSUME CallInv, NEW q \in Browsers, AudioReady(q) \/ OfferReady(q)
  PROVE  Turn(q)
<1> DEFINE cs == IF pc[stage[q]].open THEN [pc EXCEPT ![stage[q]].local = TRUE] ELSE pc
<1>1. CASE AudioReady(q)
  BY <1>1, TurnIs, AudioReadySame DEF AudioReady, CallInv
<1>2. CASE OfferReady(q)
  <2>1. NextMember(q, cs) /\ Sameish(cs)
    BY <1>2, AudioReadySame, OfferReadySame DEF OfferReady, CallInv
  <2> HIDE DEF cs
  <2> QED
    BY <2>1, TurnIs DEF CallInv
<1> QED
  BY <1>1, <1>2

LEMMA StepStaged ==
  ASSUME CallInv, [Next]_vars, NEW b \in Browsers, NEW q \in Browsers, b # q, b \notin saw[q],
         Staged(b, q)
  PROVE  Staged(b, q)'
<1> SUFFICES ASSUME NEW x \in Of(b, q)', stage'[b] = x, pc'[x].local PROVE FALSE
  BY DEF Staged
<1>1. x \in Of(b, q)
  BY OfWas DEF Blank
<1>2. x \in DOMAIN pc /\ x \in Ends /\ x[1] = b
  BY <1>1, OfIs
<1>3. stage'[b] = stage[b] /\ ~AudioReady(b) /\ ~OfferReady(b)
  <2>1. ~Join(b)
    BY <1>2, JoinIs, Marks DEF CallInv
  <2>2. ~Turn(b)
    <3>1. Fresh(b) \notin DOMAIN pc
      BY FreshIs DEF CallInv
    <3> QED
      BY <1>2, <3>1, Marks DEF Turn
  <2> QED
    BY <2>1, <2>2, JoinStep, TurnTaken
<1>4. ~pc[x].local
  BY <1>1, <1>3 DEF Staged
<1>5. \A d \in applying : ~Set(x, d)
  BY <1>1, <1>4, SetBetween DEF Set, Fits
<1> QED
  BY <1>2, <1>3, <1>4, <1>5, ConnectionStep DEF Unchanged, SameLocal, Shut, Offered, Gathered

LEMMA SureStays ==
  ASSUME CallInv, [Next]_vars, NEW b \in Browsers, NEW q \in Browsers, b # q,
         peers'[b][q] # None, Sure(b, q)
  PROVE  Sure(b, q)'
BY DoomStays, TogetherStays DEF Sure

\* An offer that is out was, or has just been sent.
LEMMA OfferOutWas ==
  ASSUME CallInv, [Next]_vars, NEW b \in Browsers, NEW q \in Browsers, b # q, b \notin saw[q],
         NEW x \in Of(b, q)', OfferOut(b, q, x)'
  PROVE  /\ x \in Of(b, q)
         /\ \/ OfferOut(b, q, x)
            \/ Offered(x) /\ {b, q} \subseteq channel /\ channel' = channel
<1>0. x # None
  <2>1. x \in Of(b, q) => x # None
    BY OfIs
  <2>2. Fresh(b) # None
    BY FreshIs, Marks DEF CallInv
  <2> QED
    BY <2>1, <2>2, OfWas
<1>1. x \in DOMAIN pc => x \in Of(b, q)
  BY OfWas
<1>2. CASE Under(q, "voice_offer", x)'
  <2>1. ASSUME Under(q, "voice_offer", x) PROVE x \in DOMAIN pc /\ OfferOut(b, q, x)
    BY <2>1 DEF Under, CallInv, Routed, Proper, OfferOut
  <2>2. ASSUME NEW m \in Notes, Relayed(q, m), m.type = "voice_offer", m.pc = x
        PROVE  x \in DOMAIN pc /\ Offered(x) /\ {b, q} \subseteq channel /\ channel' = channel
    <3>1. x \in DOMAIN pc /\ m.from = x[1] /\ {m.from, q} \subseteq channel /\ channel' = channel
          /\ Offered(x)
      BY <2>2 DEF Relayed
    <3>2. x[1] = b
      BY <1>1, <3>1, OfIs
    <3> QED
      BY <3>1, <3>2
  <2> QED
    BY <1>1, <1>2, <2>1, <2>2, NewNote
<1>3. ASSUME NEW y \in Of(q, b)', Setting(y, "offer", x)'
      PROVE  x \in DOMAIN pc /\ OfferOut(b, q, x)
  <2>1. PICK d \in applying' : d.pc = y /\ d.sdp = "offer" /\ d.of = x
    BY <1>3 DEF Setting
  <2>2. CASE d \in applying
    <3>1. d.pc \in DOMAIN pc /\ d.of \in DOMAIN pc
      BY <2>2, TypeParts DEF CallInv
    <3>2. y \in Of(q, b)
      BY <1>3, <2>1, <3>1, OfWas
    <3> QED
      BY <2>1, <2>2, <3>1, <3>2 DEF OfferOut, Setting
  <2>3. CASE d \notin applying
    <3>1. PICK e \in Browsers : Came(e, d)
      BY <2>3, DescriptionCame
    <3>2. /\ Receive(e) /\ x = down[e][1].pc /\ down[e][1].type = "voice_offer"
          /\ y = Fresh(e)
      BY <2>1, <3>1 DEF Came
    <3>3. Fresh(e)[1] = e /\ Fresh(e) \notin DOMAIN pc
      BY FreshIs DEF CallInv
    <3>4. e = q
      <4>1. y = Fresh(q)
        BY <1>3, <3>2, <3>3, OfWas, OfIs
      <4>2. Fresh(q)[1] = q
        BY FreshIs DEF CallInv
      <4> QED
        BY <3>2, <3>3, <4>1, <4>2
    <3>5. 1 \in 1..Len(down[q]) /\ Proper(q, down[q][1])
      BY <3>2, <3>4, HeadIs
    <3> QED
      BY <3>2, <3>4, <3>5 DEF OfferOut, Under, Proper
  <2> QED
    BY <2>2, <2>3
<1>4. ASSUME NEW y \in Of(q, b)', pc'[y].remote = x
      PROVE  x \in DOMAIN pc /\ OfferOut(b, q, x)
  <2>1. y \in Of(q, b)
    BY <1>0, <1>4, OfWas DEF Blank
  <2>2. y \in DOMAIN pc
    BY <2>1, OfIs
  <2>3. CASE pc[y].remote = x
    BY <1>0, <2>1, <2>2, <2>3 DEF OfferOut, CallInv, Routed
  <2>4. ASSUME NEW d \in applying, Set(y, d) PROVE x \in DOMAIN pc /\ OfferOut(b, q, x)
    <3>1. d.pc = y /\ d.of = x /\ d.sdp = "offer"
      BY <1>4, <2>1, <2>4, SetBetween DEF Set
    <3>2. d.of \in DOMAIN pc
      BY TypeParts DEF CallInv
    <3> QED
      BY <2>1, <3>1, <3>2 DEF OfferOut, Setting
  <2> QED
    BY <1>0, <1>4, <2>2, <2>3, <2>4, ConnectionStep DEF Unchanged, Shut, Offered, Gathered
<1>5. \/ Under(q, "voice_offer", x)'
      \/ \E y \in Of(q, b)' : Setting(y, "offer", x)' \/ pc'[y].remote = x
  BY DEF OfferOut
<1> QED
  BY <1>1, <1>2, <1>3, <1>4, <1>5

LEMMA StepReached ==
  ASSUME CallInv, CallInv', [Next]_vars, NEW b \in Browsers, NEW q \in Browsers, b # q,
         b \notin saw'[q], Reached(b, q)
  PROVE  Reached(b, q)'
<1> SUFFICES ASSUME NEW x \in Of(b, q)', pc'[x].open, OfferOut(b, q, x)' PROVE Sure(b, q)'
  BY DEF Reached
<1>1. b \notin saw[q]
  BY SawGrows
<1>2. /\ x \in Of(b, q)
      /\ \/ OfferOut(b, q, x)
         \/ Offered(x) /\ {b, q} \subseteq channel /\ channel' = channel
  BY <1>1, OfferOutWas
<1>3. peers'[b][q] # None /\ pc[x].open
  BY <1>2, OffererHolds
<1> QED
  BY <1>2, <1>3, SureStays DEF Reached, Sure

\* A candidate found while both are in the channel is sent.
LEMMA FoundSent ==
  ASSUME CallInv, NEW e \in Browsers, NEW f \in Browsers, NEW x \in Of(e, f), Gathered(x),
         {e, f} \subseteq channel
  PROVE  \E m \in Notes : /\ down'[f] = Append(down[f], m)
                          /\ m.type = "voice_ice" /\ m.pc = x
<1>1. x \in DOMAIN pc /\ x \in Ends /\ x[1] = e /\ pc[x].peer = f
  BY OfIs
<1>2. OnIceCandidate(x) /\ active[e]
  BY DEF Gathered, CallInv, Phases, Phase
<1>3. RelayVoice(e, "voice_ice", f, x)
  BY <1>1, <1>2 DEF OnIceCandidate
<1> DEFINE m == Note("voice_ice", e, x, {})
<1>4. m \in Notes /\ down'[f] = Append(down[f], m)
  <2>1. TypeOK
    BY DEF CallInv
  <2>2. /\ m \in Notes
        /\ \A q \in Browsers : down'[q] = IF q = f /\ {e, f} \subseteq channel
                                          THEN Append(down[q], m) ELSE down[q]
    BY <1>1, <1>3, <2>1, RelayIs
  <2> HIDE DEF m
  <2> QED
    BY <2>2
<1>5. m.type = "voice_ice" /\ m.pc = x
  BY DEF Note
<1> QED
  BY <1>4, <1>5

LEMMA FoundComes ==
  ASSUME CallInv, NEW e \in Browsers, NEW f \in Browsers, NEW x \in Of(e, f), Gathered(x),
         {e, f} \subseteq channel
  PROVE  Under(f, "voice_ice", x)'
<1>1. PICK m \in Notes : /\ down'[f] = Append(down[f], m)
                         /\ m.type = "voice_ice" /\ m.pc = x
  BY FoundSent
<1>2. Under(f, m.type, m.pc)'
  BY <1>1, AppendedUnder DEF CallInv
<1> QED
  BY <1>1, <1>2

LEMMA StepOffererHears ==
  ASSUME CallInv, CallInv', Locals, [Next]_vars, NEW b \in Browsers, NEW q \in Browsers,
         b # q, b \notin saw'[q], Reached(b, q), OffererHears(b, q)
  PROVE  OffererHears(b, q)'
<1> SUFFICES ASSUME NEW x \in Of(b, q)', NEW y \in Of(q, b)', pc'[x].open,
                    pc'[y].gathered, Answered(b, x, y)'
             PROVE  Lefts(q, b)' # {} \/ Comes(b, q, x, y)'
  BY DEF OffererHears
<1>0. b \notin saw[q]
  BY SawGrows
<1>1. y \in Of(q, b)
  BY OfWas DEF Blank
<1>2. x \in Of(b, q)
  <2>1. OfferOut(b, q, x)'
    BY DEF OfferOut, Answered
  <2> QED
    BY <1>0, <2>1, OfferOutWas
<1>3. /\ peers[b][q] = x /\ peers'[b][q] = x /\ x # None /\ pc[x].open
      /\ HoldsOpen(b, q)
  BY <1>0, <1>2, OffererHolds, Entries
<1>4. x \in DOMAIN pc /\ y \in DOMAIN pc /\ x[1] = b /\ y[1] = q /\ y # None
  BY <1>1, <1>2, OfIs
<1>5. (\A d \in applying : ~Set(y, d)) /\ pc[y].remote = x
  <2>1. ASSUME NEW d \in applying, Set(y, d) PROVE FALSE
    <3>1. d.pc = y /\ pc[y].gathered /\ ~(pc[y].local /\ d.sdp = "offer")
      BY <2>1 DEF Set, Fits, SameGathered
    <3>2. d.sdp = "offer"
      BY <1>0, <1>1, <3>1, SetBetween
    <3> QED
      BY <1>4, <3>1, <3>2 DEF Locals, LocalOf
  <2>2. pc'[y].remote = x
    BY DEF Answered
  <2> QED
    BY <1>4, <2>1, <2>2, ConnectionStep DEF Unchanged, Shut, Offered, Gathered
<1>6. Answered(b, x, y)
  <2>1. CASE pc'[x].remote = y
    <3>1. ASSUME NEW d \in applying, Set(x, d) PROVE Answered(b, x, y)
      <4>1. d.pc = x /\ d.of = y /\ pc[x].remote = None
        BY <2>1, <3>1 DEF Set, Fits
      <4>2. d.sdp = "answer"
        BY <1>0, <1>2, <4>1, SetBetween
      <4> QED
        BY <1>5, <4>1, <4>2 DEF Answered, Setting
    <3> QED
      BY <1>4, <1>5, <2>1, <3>1, ConnectionStep
        DEF Unchanged, Shut, Offered, Gathered, Answered
  <2>2. ASSUME pc'[x].remote = None PROVE pc[x].remote = None
    <3>1. ASSUME NEW d \in applying, Set(x, d) PROVE FALSE
      <4>1. d.of \in DOMAIN pc /\ d.of = None
        BY <2>2, <3>1, TypeParts DEF Set, CallInv
      <4> QED
        BY <4>1, EndsOf DEF CallInv
    <3> QED
      BY <1>4, <2>2, <3>1, ConnectionStep DEF Unchanged, Shut, Offered, Gathered
  <2>3. CASE pc'[x].remote = None /\ Under(b, "voice_answer", y)'
    <3>1. ASSUME NEW m \in Notes, Relayed(b, m), m.type = "voice_answer", m.pc = y PROVE FALSE
      BY <1>5, <3>1 DEF Relayed
    <3> QED
      BY <1>5, <2>2, <2>3, <3>1, NewNote DEF Answered
  <2>4. CASE pc'[x].remote = None /\ Setting(x, "answer", y)'
    <3>1. PICK d \in applying' : d.pc = x /\ d.sdp = "answer" /\ d.of = y
      BY <2>4 DEF Setting
    <3>2. CASE d \in applying
      BY <1>5, <2>2, <2>4, <3>1, <3>2 DEF Answered, Setting
    <3>3. CASE d \notin applying
      <4>1. PICK e \in Browsers : Came(e, d)
        BY <3>3, DescriptionCame
      <4> DEFINE m == down[e][1]
      <4>2. /\ Receive(e) /\ y = m.pc /\ m.type = "voice_answer" /\ x = peers[e][m.from]
        BY <3>1, <4>1 DEF Came
      <4>3. m.from \in Browsers /\ 1 \in 1..Len(down[e])
        BY <4>2, HeadIs
      <4>4. Holds(e, m.from)
        BY <4>3, TypeParts DEF CallInv
      <4>5. e = b
        BY <1>3, <1>4, <4>2, <4>4 DEF Holds
      <4>6. Under(b, "voice_answer", y)
        BY <4>2, <4>3, <4>5 DEF Under
      <4> QED
        BY <1>5, <2>2, <2>4, <4>6 DEF Answered
    <3> QED
      BY <3>2, <3>3
  <2> QED
    BY <2>1, <2>3, <2>4 DEF Answered
<1>7. ASSUME Lefts(q, b) # {} PROVE Lefts(q, b)' # {}
  BY <1>3, <1>7, DoomStays
<1>8. CASE pc[y].gathered
  <2>1. Lefts(q, b) # {} \/ Comes(b, q, x, y)
    BY <1>1, <1>2, <1>3, <1>6, <1>8 DEF OffererHears
  <2>2. ASSUME Comes(b, q, x, y) PROVE Comes(b, q, x, y)'
    BY <1>2, <1>3, <1>4, <2>2, ComesStays
  <2> QED
    BY <1>7, <2>1, <2>2
<1>9. CASE ~pc[y].gathered
  <2>1. Gathered(y)
    BY <1>4, <1>5, <1>9, ConnectionStep DEF Unchanged, SameGathered, Shut, Offered
  <2>2. OfferOut(b, q, x)
    BY <1>1, <1>5 DEF OfferOut
  <2>3. Lefts(q, b) # {} \/ {q, b} \subseteq channel
    BY <1>2, <1>3, <2>2 DEF Reached, Sure
  <2>4. ASSUME {q, b} \subseteq channel PROVE Comes(b, q, x, y)'
    <3>1. Under(b, "voice_ice", y)'
      BY <1>1, <2>1, <2>4, FoundComes
    <3> QED
      BY <3>1 DEF Comes
  <2> QED
    BY <1>7, <2>3, <2>4
<1> QED
  BY <1>8, <1>9

\* What has come to a place in a queue.
LEMMA PlaceWas ==
  ASSUME CallInv, [Next]_vars, NEW q \in Browsers, NEW i \in 1..Len(down'[q])
  PROVE  \/ ~Receive(q) /\ i \in 1..Len(down[q]) /\ down'[q][i] = down[q][i]
         \/ Receive(q) /\ i + 1 \in 1..Len(down[q]) /\ down'[q][i] = down[q][i + 1]
         \/ Announced(down'[q][i]) \/ Relayed(q, down'[q][i])
<1>0. down[q] \in Seq(Notes)
  BY TypeParts DEF CallInv
<1>1. CASE Receive(q)
  <2>1. /\ Len(down[q]) \in Nat \ {0} /\ Len(down'[q]) = Len(down[q]) - 1
        /\ \A j \in 1..Len(down'[q]) : down'[q][j] = down[q][j + 1]
    BY <1>1, ReceiveIs DEF CallInv
  <2> QED
    BY <1>1, <2>1
<1>2. CASE ~Receive(q) /\ down'[q] = down[q]
  BY <1>2
<1>3. ASSUME ~Receive(q), NEW m \in Notes, down'[q] = Append(down[q], m),
             Announced(m) \/ Relayed(q, m)
      PROVE  \/ i \in 1..Len(down[q]) /\ down'[q][i] = down[q][i]
             \/ Announced(down'[q][i]) \/ Relayed(q, down'[q][i])
  <2>1. /\ Len(down'[q]) = Len(down[q]) + 1 /\ down'[q][Len(down[q]) + 1] = m
        /\ \A j \in 1..Len(down[q]) : down'[q][j] = down[q][j]
        /\ Len(down[q]) \in Nat
    BY <1>0, <1>3
  <2>2. i \in 1..Len(down[q]) \/ i = Len(down[q]) + 1
    BY <2>1
  <2>3. CASE i = Len(down[q]) + 1
    <3>1. down'[q][i] = m
      BY <2>1, <2>3
    <3> QED
      BY <1>3, <3>1
  <2> QED
    BY <2>1, <2>2, <2>3
<1> QED
  BY <1>1, <1>2, <1>3, NoteStep

LEMMA StepOfferFollowed ==
  ASSUME CallInv, CallInv', Locals, Locals', [Next]_vars, NEW b \in Browsers, NEW q \in Browsers,
         b # q, b \notin saw'[q], Staged(b, q), Reached(b, q), OfferFollowed(b, q)
  PROVE  OfferFollowed(b, q)'
<1> SUFFICES ASSUME NEW x \in Of(b, q)', NEW i \in Offers(b, q)', down'[q][i].pc = x,
                    pc'[x].gathered
             PROVE  Lefts(q, b)' # {} \/ Behind(q, i, x)'
  BY DEF OfferFollowed
<1>0. b \notin saw[q]
  BY SawGrows
<1>1. /\ i \in 1..Len(down'[q]) /\ down'[q][i].type = "voice_offer"
      /\ down'[q][i].from = b
  BY DEF Offers
<1>2. x \in Of(b, q)
  BY OfWas DEF Blank
<1>3. x \in DOMAIN pc /\ pc'[x].open
  <2>1. x \in DOMAIN pc'
    BY DEF Of, Own
  <2> QED
    BY <1>2, <2>1, OfIs DEF Locals, LocalOf
<1>4. peers'[b][q] # None /\ pc[x].open
  BY <1>2, <1>3, OffererHolds
<1>5. ~Announced(down'[q][i]) /\ ~Relayed(q, down'[q][i])
  <2>1. ~Announced(down'[q][i])
    BY <1>1 DEF Announced
  <2>2. ~Offered(x)
    <3>1. ASSUME Offered(x) PROVE FALSE
      <4>1. stage[b] = x /\ pc[x].gathered
        BY <1>2, <3>1, OfIs DEF Offered, SameGathered
      <4> QED
        BY <1>2, <1>3, <4>1 DEF Staged, Locals, LocalOf
    <3> QED
      BY <3>1
  <2>3. PICK m : m = down'[q][i]
    OBVIOUS
  <2>4. ~Relayed(q, m)
    BY <1>1, <2>2, <2>3 DEF Relayed
  <2> QED
    BY <2>1, <2>3, <2>4
<1>6. PICK k \in 1..Len(down[q]) :
         /\ down[q][k] = down'[q][i]
         /\ IF Receive(q) THEN k = i + 1 ELSE k = i
  BY <1>1, <1>5, PlaceWas
<1>7. k \in Offers(b, q) /\ down[q][k].pc = x
  BY <1>1, <1>6 DEF Offers
<1>8. ASSUME Lefts(q, b) # {} PROVE Lefts(q, b)' # {}
  BY <1>4, <1>8, DoomStays
<1>9. CASE pc[x].gathered
  <2>1. Lefts(q, b) # {} \/ Behind(q, k, x)
    BY <1>2, <1>7, <1>9 DEF OfferFollowed
  <2>2. ASSUME Behind(q, k, x) PROVE Behind(q, i, x)'
    <3>1. PICK j \in 1..Len(down[q]) :
             k < j /\ down[q][j].type = "voice_ice" /\ down[q][j].pc = x
      BY <2>2 DEF Behind
    <3>2. j # 1 /\ k \in Nat /\ j \in Nat /\ i \in Nat
      BY <1>1, <1>6, <3>1
    <3>3. CASE Receive(q)
      <4>1. j - 1 \in 1..Len(down'[q]) /\ down'[q][j - 1] = down[q][j]
        BY <3>2, <3>3, NoteStays
      <4>2. i < j - 1
        BY <1>6, <3>1, <3>2, <3>3
      <4> QED
        BY <3>1, <4>1, <4>2 DEF Behind
    <3>4. CASE ~Receive(q)
      <4>1. j \in 1..Len(down'[q]) /\ down'[q][j] = down[q][j] /\ i < j
        BY <1>6, <3>1, <3>4, NoteStays
      <4> QED
        BY <3>1, <4>1 DEF Behind
    <3> QED
      BY <3>3, <3>4
  <2> QED
    BY <1>8, <2>1, <2>2
<1>10. CASE ~pc[x].gathered
  <2>1. Gathered(x)
    BY <1>3, <1>10, ConnectionStep DEF Unchanged, SameGathered, Shut, Offered, Set
  <2>2. OfferOut(b, q, x)
    BY <1>7 DEF OfferOut, Under, Offers
  <2>3. Lefts(q, b) # {} \/ {b, q} \subseteq channel
    BY <1>2, <1>4, <2>2 DEF Reached, Sure
  <2>4. ASSUME {b, q} \subseteq channel PROVE Behind(q, i, x)'
    <3>1. PICK m \in Notes : /\ down'[q] = Append(down[q], m)
                             /\ m.type = "voice_ice" /\ m.pc = x
      BY <1>2, <2>1, <2>4, FoundSent
    <3>2. down[q] \in Seq(Notes)
      BY TypeParts DEF CallInv
    <3>3. /\ Len(down'[q]) = Len(down[q]) + 1 /\ down'[q][Len(down[q]) + 1] = m
          /\ Len(down[q]) \in Nat
      BY <3>1, <3>2
    <3>4. i # Len(down[q]) + 1
      BY <1>1, <3>1, <3>3
    <3>5. Len(down[q]) + 1 \in 1..Len(down'[q]) /\ i < Len(down[q]) + 1
      BY <1>1, <3>3, <3>4
    <3> QED
      BY <3>1, <3>3, <3>5 DEF Behind
  <2> QED
    BY <1>8, <2>3, <2>4
<1> QED
  BY <1>9, <1>10

LEMMA StepAnswererHears ==
  ASSUME CallInv, CallInv', Locals, Locals', [Next]_vars, NEW b \in Browsers, NEW q \in Browsers,
         b # q, b \notin saw'[q], Reached(b, q), OfferFollowed(b, q), AnswererHears(b, q)
  PROVE  AnswererHears(b, q)'
<1> SUFFICES ASSUME joins'[b] <= 1 \/ joins'[q] <= 1,
                    NEW x \in Of(b, q)', NEW y \in Of(q, b)', pc'[y].open, pc'[x].gathered,
                    Answers(y, x)'
             PROVE  Lefts(q, b)' # {} \/ Comes(q, b, y, x)'
  BY DEF AnswererHears
<1>0. b \notin saw[q]
  BY SawGrows
<1>1. x \in Of(b, q)
  BY OfWas DEF Blank
<1>2. /\ x \in DOMAIN pc /\ x # None /\ x[1] = b /\ pc'[x].open
      /\ ~ \E d \in applying : Set(x, d) /\ pc'[x].gathered /\ ~pc[x].gathered
  <2>1. x \in DOMAIN pc'
    BY DEF Of, Own
  <2> QED
    BY <1>1, <2>1, OfIs DEF Locals, LocalOf, Set, SameGathered
<1>3. peers'[b][q] # None /\ pc[x].open
  BY <1>1, <1>2, OffererHolds
<1>4. ASSUME Lefts(q, b) # {} PROVE Lefts(q, b)' # {}
  BY <1>3, <1>4, DoomStays
<1>5. CASE y \in Of(q, b)
  <2>0. y \in DOMAIN pc /\ y # None /\ y[1] = q
    BY <1>5, OfIs
  <2>1. peers[q][b] = y /\ peers'[q][b] = y /\ pc[y].open /\ HoldsOpen(q, b)
    BY <1>5, AnswererHolds
  <2>2. ASSUME NEW d \in applying, Set(y, d) PROVE Answers(y, x)
    <3>1. d.pc = y /\ pc[y].remote = None /\ pc'[y].remote = d.of
      BY <2>2 DEF Set, Fits
    <3>2. d.of \in DOMAIN pc
      BY TypeParts DEF CallInv
    <3>3. d.of # None
      BY <3>2, EndsOf DEF CallInv
    <3>4. d.of = x
      BY <3>1, <3>3 DEF Answers
    <3>5. d.sdp = "offer"
      BY <1>0, <1>5, <3>1, SetBetween
    <3> QED
      BY <3>1, <3>4, <3>5 DEF Answers, Setting
  <2>3. ASSUME pc'[y].remote = pc[y].remote PROVE Answers(y, x)
    <3>1. ASSUME Setting(y, "offer", x)' PROVE Setting(y, "offer", x)
      <4>1. PICK d \in applying' : d.pc = y /\ d.sdp = "offer" /\ d.of = x
        BY <3>1 DEF Setting
      <4>2. d \in applying
        <5>1. ASSUME d \notin applying PROVE FALSE
          <6>1. PICK e \in Browsers : Came(e, d)
            BY <5>1, DescriptionCame
          <6>2. y = Fresh(e)
            BY <4>1, <6>1 DEF Came
          <6> QED
            BY <2>0, <6>2, FreshIs DEF CallInv
        <5> QED
          BY <5>1
      <4> QED
        BY <4>1, <4>2 DEF Setting
    <3> QED
      BY <2>3, <3>1 DEF Answers
  <2>4. Answers(y, x)
    BY <2>0, <2>2, <2>3, ConnectionStep DEF Unchanged, Shut, Offered, Gathered
  <2>5. CASE pc[x].gathered
    <3>0. joins[b] <= 1 \/ joins[q] <= 1
      <4>1. ASSUME NEW e \in Browsers, joins'[e] <= 1 PROVE joins[e] <= 1
        <5>1. joins'[e] = joins[e] \/ (joins'[e] = joins[e] + 1 /\ joins[e] \in Nat)
          BY JoinStep, JoinIs DEF CallInv
        <5> QED
          BY <4>1, <5>1
      <4> QED
        BY <4>1
    <3>1. Lefts(q, b) # {} \/ Comes(q, b, y, x)
      BY <1>1, <1>5, <2>1, <2>4, <2>5, <3>0 DEF AnswererHears
    <3>2. ASSUME Comes(q, b, y, x) PROVE Comes(q, b, y, x)'
      BY <1>2, <1>5, <2>1, <3>2, ComesStays
    <3> QED
      BY <1>4, <3>1, <3>2
  <2>6. CASE ~pc[x].gathered
    <3>1. Gathered(x)
      BY <1>2, <2>6, ConnectionStep DEF Unchanged, SameGathered, Shut, Offered
    <3>2. OfferOut(b, q, x)
      BY <1>5, <2>4 DEF OfferOut, Answers
    <3>3. Lefts(q, b) # {} \/ {b, q} \subseteq channel
      BY <1>1, <1>3, <3>2 DEF Reached, Sure
    <3>4. ASSUME {b, q} \subseteq channel PROVE Comes(q, b, y, x)'
      <4>1. Under(q, "voice_ice", x)'
        BY <1>1, <3>1, <3>4, FoundComes
      <4> QED
        BY <4>1 DEF Comes
    <3> QED
      BY <1>4, <3>3, <3>4
  <2> QED
    BY <2>5, <2>6
<1>6. CASE y \notin Of(q, b)
  <2>1. y \notin DOMAIN pc /\ y = Fresh(q) /\ pc'[y].remote = None
    BY <1>6, OfWas DEF Blank
  <2>2. PICK d \in applying' : d.pc = y /\ d.sdp = "offer" /\ d.of = x
    BY <1>2, <2>1 DEF Answers, Setting
  <2>3. d \notin applying
    <3>1. d \in applying => d.pc \in DOMAIN pc
      BY TypeParts DEF CallInv
    <3> QED
      BY <2>1, <2>2, <3>1
  <2>4. PICK e \in Browsers : Came(e, d)
    BY <2>3, DescriptionCame
  <2> DEFINE m == down[e][1]
  <2>5. /\ Receive(e) /\ m.pc = x /\ m.type = "voice_offer" /\ y = Fresh(e)
    BY <2>2, <2>4 DEF Came
  <2>6. Fresh(e)[1] = e /\ Fresh(q)[1] = q
    BY FreshIs DEF CallInv
  <2>7. e = q
    BY <2>1, <2>5, <2>6
  <2>8. 1 \in 1..Len(down[q]) /\ m.from = b
    BY <1>2, <2>5, <2>7, HeadIs DEF Proper
  <2>9. 1 \in Offers(b, q) /\ down[q][1].pc = x
    BY <2>5, <2>7, <2>8 DEF Offers
  <2>10. pc[x].gathered
    <3>1. ~Gathered(x)
      <4>1. OnIceCandidate(x) => applying' = applying
        BY DEF OnIceCandidate
      <4> QED
        BY <2>3, <4>1 DEF Gathered
    <3> QED
      BY <1>2, <3>1, ConnectionStep DEF Unchanged, SameGathered, Shut, Offered
  <2>11. Lefts(q, b) # {} \/ Behind(q, 1, x)
    BY <1>1, <2>9, <2>10 DEF OfferFollowed
  <2>12. ASSUME Behind(q, 1, x) PROVE Comes(q, b, y, x)'
    <3>1. PICK j \in 1..Len(down[q]) :
             1 < j /\ down[q][j].type = "voice_ice" /\ down[q][j].pc = x
      BY <2>12 DEF Behind
    <3>2. \E i \in 1..Len(down'[q]) : down'[q][i] = down[q][j]
      BY <3>1, NoteStays
    <3>3. Under(q, "voice_ice", x)'
      BY <3>1, <3>2 DEF Under
    <3> QED
      BY <3>3 DEF Comes
  <2> QED
    BY <1>4, <2>11, <2>12
<1> QED
  BY <1>5, <1>6

LEMMA StepFlows ==
  ASSUME CallInv, CallInv', Locals, Locals', Flows, [Next]_vars PROVE Flows'
<1> SUFFICES ASSUME NEW b \in Browsers, NEW q \in Browsers, b # q, b \notin saw'[q]
             PROVE  Flow(b, q)'
  BY DEF Flows
<1>1. b \notin saw[q]
  BY SawGrows
<1>2. Flow(b, q)
  BY <1>1 DEF Flows
<1>3. Staged(b, q)' /\ Reached(b, q)'
  BY <1>1, <1>2, StepStaged, StepReached DEF Flow
<1>4. OffererHears(b, q)' /\ OfferFollowed(b, q)' /\ AnswererHears(b, q)'
  BY <1>2, StepOffererHears, StepOfferFollowed, StepAnswererHears DEF Flow
<1> QED
  BY <1>3, <1>4 DEF Flow

\* When nothing is under way, candidates are there.
LEMMA QuietCandidates ==
  ASSUME CallInv, Locals, Flows PROVE CandidatesArrive
<1> SUFFICES ASSUME Quiet, NEW x \in DOMAIN pc, NEW y \in DOMAIN pc,
                    Connected(x, y), ~Glare(x[1], y[1]), y[1] \in Gatherers,
                    x[1] \notin saw[y[1]] \/ 1 \in {joins[x[1]], joins[y[1]]}
             PROVE  y \in pc[x].ice
  BY DEF CandidatesArrive
<1>1. PICK b, q : b = x[1] /\ q = y[1]
  OBVIOUS
<1>2. /\ pc[x].open /\ pc[y].open /\ pc[x].remote = y /\ pc[y].remote = x
      /\ x # None /\ y # None /\ b \in Browsers /\ q \in Browsers
  BY <1>1, EndsOf DEF Connected, CallInv
<1>3. x \in Of(b, q) /\ y \in Of(q, b) /\ (q \in saw[b] \/ b \in saw[q])
  <2>1. Fit(x, y)
    BY <1>2 DEF CallInv, Routed
  <2>2. pc[x].peer \in saw[x[1]] \/ x[1] \in saw[pc[x].peer]
    BY DEF CallInv, Routed
  <2> QED
    BY <1>1, <2>1, <2>2 DEF Fit, Of, Own
<1>4. b # q
  BY <1>1, <1>3 DEF Glare
<1>5. pc[y].gathered
  <2>1. pc[y].local
    BY <1>2 DEF Locals, LocalOf
  <2> QED
    BY <1>2, <2>1 DEF Quiet, Gathers
<1>6. down[b] = <<>> /\ down[q] = <<>>
  BY <1>2 DEF Quiet
<1>7. ASSUME NEW e \in Browsers, down[e] = <<>>, NEW f
      PROVE  Lefts(f, e) = {} /\ ~Under(e, "voice_ice", y)
  BY <1>7 DEF Lefts, Under
<1>8. Comes(b, q, x, y) => y \in pc[x].ice
  BY <1>2, <1>6, <1>7 DEF Comes
<1>9. CASE b \notin saw[q]
  <2>1. OffererHears(b, q)
    BY <1>2, <1>4, <1>9 DEF Flows, Flow
  <2>2. Answered(b, x, y)
    BY <1>2 DEF Answered
  <2>3. Comes(b, q, x, y)
    BY <1>2, <1>3, <1>5, <1>6, <1>7, <2>1, <2>2 DEF OffererHears
  <2> QED
    BY <1>8, <2>3
<1>10. CASE b \in saw[q]
  <2>1. q \notin saw[b]
    BY <1>1, <1>10 DEF Glare
  <2>2. AnswererHears(q, b)
    BY <1>2, <1>4, <2>1 DEF Flows, Flow
  <2>3. Answers(x, y)
    BY <1>2 DEF Answers
  <2>4. joins[b] <= 1 \/ joins[q] <= 1
    BY <1>1, <1>10
  <2>5. Comes(b, q, x, y)
    BY <1>2, <1>3, <1>5, <1>6, <1>7, <2>2, <2>3, <2>4 DEF AnswererHears
  <2> QED
    BY <1>8, <2>5
<1> QED
  BY <1>9, <1>10

-----------------------------------------------------------------------------
(* A newcomer n, and a member e of the channel that it was shown *)

Newly(n, e) == {n, e} \subseteq channel /\ n # e /\ joins[n] = 1 /\ joins[e] = 1 /\ e \in saw[n]

\* How far the connection x of n to e is: it is being offered, the offer is on its
\* way, a connection of e answers it.
AtOffer(n, x) == stage[n] = x /\ ~pc[x].local /\ pc[x].remote = None
AtSending(e, x) == pc[x].local /\ pc[x].remote = None /\ Under(e, "voice_offer", x)
Taking(x, y) ==
  /\ pc[y].remote = None /\ ~pc[y].local /\ Setting(y, "offer", x)
  /\ pc[x].remote \in {None, y}
AtAnswer(n, e, x) ==
  pc[x].local /\ \E y \in Of(e, n) : pc[y].open /\ (Taking(x, y) \/ Answered(n, x, y))
Offering(n, e, x) ==
  pc[x].open /\ (AtOffer(n, x) \/ AtSending(e, x) \/ AtAnswer(n, e, x))

Newcomers ==
  \A n, e \in Browsers :
    Newly(n, e) => e \in targets[n] \/ \E x \in Of(n, e) : Offering(n, e, x)

LEMMA NewlyFacts ==
  ASSUME CallInv, OneOffers, NEW n \in Browsers, NEW e \in Browsers, Newly(n, e)
  PROVE  /\ n \notin saw[e] /\ n # e /\ active[n] /\ active[e]
         /\ OfferedOnce(n, e) /\ HoldsOpen(n, e) /\ HoldsOpen(e, n)
         /\ \A x, y \in Of(n, e) : x = y
         /\ \A x, y \in Of(e, n) : x = y
<1>1. n \notin saw[e] /\ n # e /\ joins[n] <= 1
  BY DEF Newly, OneOffers
<1>2. Pair(n, e)
  BY <1>1 DEF CallInv, Pairs
<1>3. active[n] /\ active[e]
  BY DEF Newly, CallInv, Phases, Phase
<1> QED
  BY <1>1, <1>2, <1>3 DEF Pair, Offerer, OfferedOnce

\* Neither leaves, or learns that the other one has left.
LEMMA NewlyOpen ==
  ASSUME CallInv, Truthful, [Next]_vars, NEW n \in Browsers, NEW e \in Browsers,
         NEW b \in Browsers, NEW q \in Browsers, {b, q} = {n, e},
         Newly(n, e), Newly(n, e)', NEW x \in Of(b, q), ShutBy(x)
  PROVE  OnFailed(x)
<1>1. x[1] = b /\ pc[x].peer = q
  BY OfIs
<1>2. ASSUME Leave(x[1]) PROVE FALSE
  <2>1. Leave(b)
    BY <1>1, <1>2
  <2>2. b \notin channel'
    BY <2>1 DEF Leave, LeaveVoice
  <2> QED
    BY <2>2 DEF Newly
<1>3. ASSUME Receive(x[1]), down[x[1]][1].type = "voice_peer_left",
             down[x[1]][1].from = pc[x].peer
      PROVE  FALSE
  <2>1. Receive(b) /\ down[b][1].type = "voice_peer_left" /\ down[b][1].from = q
    BY <1>1, <1>3
  <2>2. 1 \in 1..Len(down[b])
    BY <2>1, HeadIs
  <2>3. Gone(q)
    BY <2>1, <2>2 DEF Truthful, TrueOf, TrueNote
  <2>4. q \in channel /\ joins[q] = 1
    BY DEF Newly
  <2>5. Phase(q)
    BY DEF CallInv, Phases
  <2> QED
    BY <2>3, <2>4, <2>5 DEF Gone, Phase
<1> QED
  BY <1>2, <1>3 DEF ShutBy

\* A member that n still has to reach is reached, or stays among them.
LEMMA NewlyReached ==
  ASSUME CallInv, CallInv', [Next]_vars, NEW n \in Browsers, NEW e \in Browsers,
         Newly(n, e)', e \in targets[n], ~Join(n)
  PROVE  e \in targets'[n] \/ \E x \in Of(n, e)' : Offering(n, e, x)'
<1>1. CASE targets'[n] = targets[n]
  BY <1>1
<1>2. CASE Turn(n)
  <2>1. PICK f \in targets[n] :
           /\ targets'[n] = targets[n] \ {f}
           /\ stage'[n] = Fresh(n) /\ Made(n, f)
    BY <1>2 DEF Turn
  <2>2. CASE f = e
    <3>1. f \in Browsers
      BY TypeParts DEF CallInv
    <3>2. Fresh(n) \in Of(n, e)'
      BY <2>1, <2>2, <3>1, OfMade DEF CallInv
    <3>3. pc'[Fresh(n)] = [New EXCEPT !.peer = e]
      BY <2>1, <2>2 DEF Made
    <3> DEFINE x == Fresh(n)
    <3>4. PICK z : z = Fresh(n)
      OBVIOUS
    <3>5. pc'[z].open /\ ~pc'[z].local /\ pc'[z].remote = None
      BY <3>3, <3>4, NewFields
    <3>6. Offering(n, e, z)'
      BY <2>1, <3>4, <3>5 DEF Offering, AtOffer
    <3> QED
      BY <3>2, <3>4, <3>6
  <2>3. CASE f # e
    BY <2>1, <2>3
  <2> QED
    BY <2>2, <2>3
<1> QED
  BY <1>1, <1>2, JoinStep

\* Both were in the channel, or n has just come.
LEMMA NewlyWas ==
  ASSUME CallInv, CallInv', Truthful, [Next]_vars, NEW n \in Browsers, NEW e \in Browsers,
         Newly(n, e)'
  PROVE  ~Join(n) /\ ~Join(e) /\ (Newly(n, e) \/ e \in targets[n])
<1>1. ASSUME NEW b \in Browsers, b \in channel' PROVE ~Join(b) /\ active'[b] /\ stage'[b] # Audio
  <2>1. active'[b] /\ stage'[b] # Audio
    BY <1>1 DEF CallInv, Phases, Phase
  <2> QED
    BY <2>1, JoinIs DEF CallInv
<1>2. /\ ~Join(n) /\ active'[n] /\ stage'[n] # Audio
      /\ ~Join(e) /\ active'[e] /\ stage'[e] # Audio
  BY <1>1 DEF Newly
<1>3. /\ joins[n] = 1 /\ joins[e] = 1 /\ e \in saw[n] /\ active[n] /\ active[e] /\ n # e
  BY <1>2, JoinStep DEF Newly
<1>4. e \in channel
  <2>1. Been(e)
    BY <1>3 DEF Truthful, TrueOf
  <2> QED
    BY <1>3, <2>1 DEF Been, CallInv, Phases, Phase
<1>5. CASE n \in channel
  BY <1>2, <1>3, <1>4, <1>5 DEF Newly
<1>6. CASE n \notin channel
  <2>1. stage[n] = Audio
    BY <1>3, <1>6 DEF CallInv, Phases, Phase
  <2> QED
    BY <1>2, <1>3, <2>1 DEF Truthful, TrueOf
<1> QED
  BY <1>5, <1>6

\* The connection stays open, and with its description.
LEMMA OfferingOpen ==
  ASSUME CallInv, Truthful, OneOffers, [Next]_vars, NEW n \in Browsers, NEW e \in Browsers,
         Newly(n, e), Newly(n, e)', NEW x \in Of(n, e), Offering(n, e, x)
  PROVE  pc'[x].open /\ ~Shut(x) /\ (pc[x].local => pc'[x].local)
<1>1. x \in DOMAIN pc /\ x # None
  BY OfIs
<1>2. ~Fails(x)
  <2>1. ASSUME NEW y \in Of(e, n), pc[y].open, Taking(x, y) \/ Answered(n, x, y) PROVE ~Fails(x)
    BY <2>1 DEF Fails, Taking, Answered
  <2>2. pc[x].remote = None => ~Fails(x)
    BY DEF Fails
  <2> QED
    BY <2>1, <2>2 DEF Offering, AtOffer, AtSending, AtAnswer
<1>3. ~ShutBy(x)
  <2>1. ~OnFailed(x)
    BY <1>2 DEF OnFailed
  <2> QED
    BY <2>1, NewlyOpen
<1>4. ~Shut(x) /\ pc[x].open
  <2>1. Unchanged(x) \/ Offered(x) \/ Gathered(x) \/ \E d \in applying : Set(x, d)
    BY <1>1, <1>3, ConnectionStep
  <2> QED
    BY <2>1 DEF Offering, Unchanged, Offered, Gathered, Set, Still, Shut
<1> QED
  BY <1>1, <1>3, <1>4, ConnectionStep
    DEF Unchanged, Offered, Gathered, Set, Still, SameLocal

LEMMA FromOffer ==
  ASSUME CallInv, Truthful, OneOffers, [Next]_vars, NEW n \in Browsers, NEW e \in Browsers,
         Newly(n, e), Newly(n, e)', ~Join(n), NEW x \in Of(n, e), Offering(n, e, x),
         AtOffer(n, x)
  PROVE  Offering(n, e, x)'
<1>1. x \in DOMAIN pc /\ x \in Ends /\ x # None /\ x[1] = n /\ pc[x].peer = e
  BY OfIs
<1>2. pc'[x].open /\ ~Shut(x) /\ pc[x].open
  BY OfferingOpen DEF Offering
<1>3. stage[n] = x /\ ~pc[x].local /\ pc[x].remote = None
  BY DEF AtOffer
<1>4. CASE OfferReady(n)
  <2>1. Offered(x)
    BY <1>2, <1>3, <1>4, OfferedIs DEF CallInv
  <2>2. pc'[x].local /\ pc'[x].remote = None
    BY <1>3, <2>1 DEF Offered
  <2>3. RelayVoice(n, "voice_offer", e, x)
    BY <1>1, <1>2, <1>3, <1>4 DEF OfferReady
  <2>4. Under(e, "voice_offer", x)'
    <3> DEFINE m == Note("voice_offer", n, x, {})
    <3>1. /\ m \in Notes
          /\ \A q \in Browsers : down'[q] = IF q = e /\ {n, e} \subseteq channel
                                            THEN Append(down[q], m) ELSE down[q]
      <4>1. TypeOK
        BY DEF CallInv
      <4> QED
        BY <1>1, <2>3, <4>1, RelayIs
    <3>2. m.type = "voice_offer" /\ m.pc = x
      BY DEF Note
    <3> HIDE DEF m
    <3>3. down'[e] = Append(down[e], m)
      BY <3>1 DEF Newly
    <3>4. Under(e, m.type, m.pc)'
      BY <3>1, <3>3, AppendedUnder DEF CallInv
    <3> QED
      BY <3>2, <3>4
  <2> QED
    BY <1>2, <2>2, <2>4 DEF Offering, AtSending
<1>5. CASE ~OfferReady(n)
  <2>1. stage'[n] = x
    <3>1. ~AudioReady(n)
      BY <1>1, <1>3, Marks DEF AudioReady
    <3> QED
      BY <1>3, <1>5, <3>1, JoinStep
  <2>2. \A d \in applying : ~Set(x, d)
    BY <1>3, NewlyFacts, SetBetween DEF Set, Fits
  <2>3. Unchanged(x)
    BY <1>1, <1>2, <1>3, <1>5, <2>2, ConnectionStep DEF Offered, Gathered
  <2> QED
    BY <1>2, <1>3, <2>1, <2>3 DEF Unchanged, SameLocal, Offering, AtOffer
<1> QED
  BY <1>4, <1>5

LEMMA HandlerIs ==
  ASSUME CallInv, NEW q \in Browsers, Receive(q), NEW m, m = down[q][1]
  PROVE  /\ m.type = "voice_offer" => HandleOffer(q, m)
         /\ m.type = "voice_answer" => HandleAnswer(q, m)
<1>1. \/ VoiceState(q, m) \/ HandlePeerLeft(q, m)
      \/ HandleOffer(q, m) \/ HandleAnswer(q, m) \/ HandleIce(q, m)
  BY HeadIs
<1> QED
  BY <1>1 DEF VoiceState, HandlePeerLeft, HandleOffer, HandleAnswer, HandleIce

LEMMA FromSending ==
  ASSUME CallInv, Truthful, OneOffers, [Next]_vars, NEW n \in Browsers, NEW e \in Browsers,
         Newly(n, e), Newly(n, e)', NEW x \in Of(n, e), Offering(n, e, x), AtSending(e, x)
  PROVE  Offering(n, e, x)'
<1>1. x \in DOMAIN pc /\ x \in Ends /\ x # None /\ x[1] = n /\ pc[x].peer = e
  BY OfIs
<1>2. pc'[x].open /\ ~Shut(x) /\ pc'[x].local
  BY OfferingOpen DEF AtSending
<1>3. Of(e, n) = {}
  <2>1. PICK i \in 1..Len(down[e]) : down[e][i].type = "voice_offer" /\ down[e][i].pc = x
    BY DEF AtSending, Under
  <2>2. down[e][i].from = n
    BY <1>1, <2>1 DEF CallInv, Routed, Proper
  <2>3. Offers(n, e) # {}
    BY <2>1, <2>2 DEF Offers
  <2> QED
    BY <2>3, NewlyFacts DEF OfferedOnce
<1>4. pc'[x].remote = None
  <2>1. \A d \in applying : ~Set(x, d)
    BY <1>3, NewlyFacts, SetBetween DEF Set
  <2> QED
    BY <1>1, <1>2, <2>1, ConnectionStep DEF AtSending, Unchanged, Offered, Gathered
<1>5. CASE Under(e, "voice_offer", x)'
  BY <1>2, <1>4, <1>5 DEF Offering, AtSending
<1>6. CASE Receive(e) /\ down[e][1].type = "voice_offer" /\ down[e][1].pc = x
  <2> DEFINE m == down[e][1]
  <2>1. m.from = n
    BY <1>1, <1>6, HeadIs DEF Proper
  <2>2. HandleOffer(e, m) /\ active[e]
    <3>1. HandleOffer(e, m)
      BY <1>6, HandlerIs
    <3> QED
      BY <3>1, NewlyFacts
  <2>3. PICK y : y = Fresh(e)
    OBVIOUS
  <2>4. applying' = applying \cup {[pc |-> y, sdp |-> "offer", of |-> x]}
    BY <1>6, <2>2, <2>3 DEF HandleOffer
  <2>5. Setting(y, "offer", x)'
    <3>1. PICK d : d = [pc |-> y, sdp |-> "offer", of |-> x]
      OBVIOUS
    <3>2. d \in applying' /\ d.pc = y /\ d.sdp = "offer" /\ d.of = x
      BY <2>4, <3>1
    <3> QED
      BY <3>2 DEF Setting
  <2>6. Made(e, n)
    BY <1>6, <2>1, <2>2, ReceiveEntries
  <2>7. y \in Of(e, n)'
    BY <2>3, <2>6, OfMade DEF CallInv
  <2>8. pc'[y].open /\ ~pc'[y].local /\ pc'[y].remote = None
    <3>1. pc'[y] = [New EXCEPT !.peer = n]
      BY <2>3, <2>6 DEF Made
    <3> QED
      BY <3>1, NewFields
  <2>9. Taking(x, y)'
    BY <1>4, <2>5, <2>8 DEF Taking
  <2> QED
    BY <1>2, <2>7, <2>8, <2>9 DEF Offering, AtAnswer
<1> QED
  BY <1>5, <1>6, UnderStays DEF AtSending

\* The answering connection stays open.
LEMMA AnswerOpen ==
  ASSUME CallInv, Truthful, OneOffers, [Next]_vars, NEW n \in Browsers, NEW e \in Browsers,
         Newly(n, e), Newly(n, e)', NEW x \in Of(n, e), NEW y \in Of(e, n), pc[x].open,
         pc[y].open, Taking(x, y) \/ Answered(n, x, y)
  PROVE  pc'[y].open /\ ~Shut(y)
<1>1. y \in DOMAIN pc /\ y # None
  BY OfIs
<1>2. ~OnFailed(y)
  <2>1. x # None
    BY OfIs
  <2> QED
    BY <2>1 DEF OnFailed, Fails, Taking, Answered
<1>3. ~ShutBy(y)
  BY <1>2, NewlyOpen
<1>4. Unchanged(y) \/ Offered(y) \/ Gathered(y) \/ \E d \in applying : Set(y, d)
  BY <1>1, <1>3, ConnectionStep
<1> QED
  BY <1>4 DEF Unchanged, Offered, Gathered, Set, Still, Shut

LEMMA SetAtOfferer ==
  ASSUME CallInv, OneOffers, NEW n \in Browsers, NEW e \in Browsers, Newly(n, e),
         NEW x \in Of(n, e), NEW y \in Of(e, n), NEW d \in applying
  PROVE  /\ d.pc = x => d.sdp = "answer" /\ d.of = y
         /\ d.pc = y => d.sdp = "offer" /\ d.of = x
<1>1. n \notin saw[e] /\ (\A z, w \in Of(n, e) : z = w) /\ (\A z, w \in Of(e, n) : z = w)
  BY NewlyFacts
<1>2. /\ d.pc \in Of(n, e) => d.sdp = "answer" /\ d.of \in Of(e, n)
      /\ d.pc \in Of(e, n) => d.sdp = "offer" /\ d.of \in Of(n, e)
  BY <1>1, SetBetween
<1> QED
  BY <1>1, <1>2

\* The offer is being set: it is afterwards, or the answer is on its way.
LEMMA FromTaking ==
  ASSUME CallInv, Truthful, OneOffers, [Next]_vars, NEW n \in Browsers, NEW e \in Browsers,
         Newly(n, e), Newly(n, e)', NEW x \in Of(n, e), Offering(n, e, x), pc[x].local,
         NEW y \in Of(e, n), pc[y].open, Taking(x, y)
  PROVE  Offering(n, e, x)'
<1>1. /\ x \in DOMAIN pc /\ x # None /\ y \in DOMAIN pc /\ y # None
      /\ y[1] = e /\ pc[y].peer = n
  BY OfIs
<1>2. pc'[x].open /\ ~Shut(x) /\ pc'[x].local
  BY OfferingOpen
<1>3. pc'[y].open /\ ~Shut(y) /\ y \in Of(e, n)'
  BY AnswerOpen, OfStays DEF Offering
<1>4. pc'[x].remote \in {None, y}
  <2>1. ASSUME NEW d \in applying, Set(x, d) PROVE pc'[x].remote = y
    BY <2>1, SetAtOfferer DEF Set
  <2> QED
    BY <1>1, <1>2, <2>1, ConnectionStep DEF Taking, Unchanged, Offered, Gathered
<1>5. ASSUME NEW d \in applying, Set(y, d) PROVE Answered(n, x, y)'
  <2>1. d.sdp = "offer" /\ d.of = x /\ pc'[y].remote = x /\ d.pc = y
    BY <1>5, SetAtOfferer DEF Set
  <2>2. RelayVoice(e, "voice_answer", n, y)
    BY <1>1, <1>5, <2>1 DEF Set, Fits, Described
  <2>3. Under(n, "voice_answer", y)'
    <3> DEFINE m == Note("voice_answer", e, y, {})
    <3>1. /\ m \in Notes
          /\ \A q \in Browsers : down'[q] = IF q = n /\ {e, n} \subseteq channel
                                            THEN Append(down[q], m) ELSE down[q]
      <4>1. TypeOK /\ y \in Ends
        BY OfIs DEF CallInv
      <4> QED
        BY <2>2, <4>1, RelayIs
    <3>2. m.type = "voice_answer" /\ m.pc = y
      BY DEF Note
    <3> HIDE DEF m
    <3>3. down'[n] = Append(down[n], m)
      BY <3>1 DEF Newly
    <3>4. Under(n, m.type, m.pc)'
      BY <3>1, <3>3, AppendedUnder DEF CallInv
    <3> QED
      BY <3>2, <3>4
  <2> QED
    BY <1>4, <2>1, <2>3 DEF Answered
<1>6. ASSUME ~ \E d \in applying : Set(y, d) PROVE Taking(x, y)'
  <2>1. PICK d \in applying : d.pc = y /\ d.sdp = "offer" /\ d.of = x
    BY DEF Taking, Setting
  <2>2. d \in applying'
    <3>1. ASSUME Described(d) PROVE FALSE
      <4>1. Fits(d)
        BY <2>1 DEF Taking, Fits
      <4> QED
        BY <1>6, <2>1, <3>1, <4>1, SetIs DEF CallInv
    <3> QED
      BY <3>1, DescriptionGone
  <2>3. Setting(y, "offer", x)'
    BY <2>1, <2>2 DEF Setting
  <2>4. ~Offered(y) /\ ~Gathered(y)
    <3>1. stage[e] \in DOMAIN pc => pc[stage[e]].peer # n
      BY NewlyFacts, PairFacts
    <3> QED
      BY <1>1, <3>1 DEF Offered, Gathered, Taking
  <2>5. Unchanged(y)
    BY <1>1, <1>3, <1>6, <2>4, ConnectionStep
  <2> QED
    BY <1>4, <2>3, <2>5 DEF Taking, Unchanged, SameLocal
<1> QED
  BY <1>2, <1>3, <1>5, <1>6 DEF Offering, AtAnswer

\* The answer is on its way, being set, or set: it is one of these afterwards.
LEMMA FromAnswered ==
  ASSUME CallInv, Truthful, OneOffers, [Next]_vars, NEW n \in Browsers, NEW e \in Browsers,
         Newly(n, e), Newly(n, e)', NEW x \in Of(n, e), Offering(n, e, x), pc[x].local,
         NEW y \in Of(e, n), pc[y].open, Answered(n, x, y)
  PROVE  Offering(n, e, x)'
<1>1. /\ x \in DOMAIN pc /\ x # None /\ y \in DOMAIN pc /\ y # None
      /\ y[1] = e /\ pc[y].peer = n
  BY OfIs
<1>2. pc'[x].open /\ ~Shut(x) /\ pc'[x].local /\ pc[x].open
  BY OfferingOpen DEF Offering
<1>3. pc'[y].open /\ ~Shut(y) /\ y \in Of(e, n)'
  BY <1>2, AnswerOpen, OfStays
<1>4. pc'[y].remote = x
  <2>1. pc[y].remote = x /\ \A d \in applying : ~Set(y, d)
    BY <1>1 DEF Answered, Set, Fits
  <2> QED
    BY <1>1, <1>3, <2>1, ConnectionStep DEF Unchanged, Offered, Gathered
<1>5. ASSUME NEW d \in applying, Set(x, d) PROVE Answered(n, x, y)'
  BY <1>4, <1>5, SetAtOfferer DEF Set, Answered
<1>6. ASSUME ~ \E d \in applying : Set(x, d) PROVE Answered(n, x, y)'
  <2>1. pc'[x].remote = pc[x].remote
    BY <1>1, <1>2, <1>6, ConnectionStep DEF Unchanged, Offered, Gathered
  <2>2. CASE pc[x].remote = y
    BY <1>4, <2>1, <2>2 DEF Answered
  <2>3. CASE pc[x].remote = None /\ Under(n, "voice_answer", y)
    <3>1. CASE Under(n, "voice_answer", y)'
      BY <1>4, <2>1, <2>3, <3>1 DEF Answered
    <3>2. CASE Receive(n) /\ down[n][1].type = "voice_answer" /\ down[n][1].pc = y
      <4> DEFINE m == down[n][1]
      <4>1. m.from = e
        BY <1>1, <3>2, HeadIs DEF Proper
      <4>2. HandleAnswer(n, m)
        BY <3>2, HandlerIs
      <4>3. peers[n][e] = x
        BY <1>2, NewlyFacts DEF HoldsOpen
      <4>4. applying' = applying \cup {[pc |-> x, sdp |-> "answer", of |-> y]}
        BY <1>1, <3>2, <4>1, <4>2, <4>3 DEF HandleAnswer
      <4>5. Setting(x, "answer", y)'
        <5>1. PICK d : d = [pc |-> x, sdp |-> "answer", of |-> y]
          OBVIOUS
        <5>2. d \in applying' /\ d.pc = x /\ d.sdp = "answer" /\ d.of = y
          BY <4>4, <5>1
        <5> QED
          BY <5>2 DEF Setting
      <4> QED
        BY <1>4, <2>1, <2>3, <4>5 DEF Answered
    <3> QED
      BY <2>3, <3>1, <3>2, UnderStays
  <2>4. CASE pc[x].remote = None /\ Setting(x, "answer", y)
    <3>1. PICK d \in applying : d.pc = x /\ d.sdp = "answer" /\ d.of = y
      BY <2>4 DEF Setting
    <3>2. d \in applying'
      <4>1. ASSUME Described(d) PROVE FALSE
        <5>1. Fits(d)
          BY <1>2, <2>4, <3>1 DEF Fits
        <5> QED
          BY <1>6, <3>1, <4>1, <5>1, SetIs DEF CallInv
      <4> QED
        BY <4>1, DescriptionGone
    <3>3. Setting(x, "answer", y)'
      BY <3>1, <3>2 DEF Setting
    <3> QED
      BY <1>4, <2>1, <2>4, <3>3 DEF Answered
  <2> QED
    BY <2>2, <2>3, <2>4 DEF Answered
<1> QED
  BY <1>2, <1>3, <1>5, <1>6 DEF Offering, AtAnswer

LEMMA StepNewcomers ==
  ASSUME CallInv, CallInv', Truthful, OneOffers, Newcomers, [Next]_vars PROVE Newcomers'
<1> SUFFICES ASSUME NEW n \in Browsers, NEW e \in Browsers, Newly(n, e)'
             PROVE  e \in targets'[n] \/ \E x \in Of(n, e)' : Offering(n, e, x)'
  BY DEF Newcomers
<1>1. ~Join(n) /\ ~Join(e) /\ (Newly(n, e) \/ e \in targets[n])
  BY NewlyWas
<1>2. CASE e \in targets[n]
  BY <1>1, <1>2, NewlyReached
<1>3. ASSUME Newly(n, e), NEW x \in Of(n, e), Offering(n, e, x)
      PROVE  x \in Of(n, e)' /\ Offering(n, e, x)'
  <2>1. x \in Of(n, e)'
    BY OfStays
  <2>2. CASE AtOffer(n, x)
    BY <1>1, <1>3, <2>1, <2>2, FromOffer
  <2>3. CASE AtSending(e, x)
    BY <1>3, <2>1, <2>3, FromSending
  <2>4. CASE AtAnswer(n, e, x)
    BY <1>3, <2>1, <2>4, FromTaking, FromAnswered DEF AtAnswer
  <2> QED
    BY <1>3, <2>1, <2>2, <2>3, <2>4 DEF Offering
<1> QED
  BY <1>1, <1>2, <1>3 DEF Newcomers

-----------------------------------------------------------------------------
(* What is under way, and the theorems about it *)

FlowInv == Truthful /\ OneOffers /\ Locals /\ Flows /\ Newcomers

LEMMA InitFlowInv ==
  ASSUME Init PROVE FlowInv
<1>1. /\ DOMAIN pc = {} /\ channel = {} /\ applying = {}
      /\ down = [b \in Browsers |-> <<>>]
      /\ members = [b \in Browsers |-> {}] /\ saw = [b \in Browsers |-> {}]
      /\ joins = [b \in Browsers |-> 0]
  BY DEF Init
<1>2. Truthful /\ OneOffers /\ Newcomers
  BY <1>1 DEF Truthful, TrueOf, OneOffers, Newcomers, Newly
<1>3. Locals
  BY <1>1 DEF Locals
<1>4. Flows
  BY <1>1 DEF Flows, Flow, Staged, Reached, OffererHears, OfferFollowed, AnswererHears, Of, Own
<1> QED
  BY <1>2, <1>3, <1>4 DEF FlowInv

LEMMA FlowInvariant ==
  ASSUME VoiceCallAssumption PROVE Spec => []FlowInv
<1>1. Init => FlowInv
  BY InitFlowInv
<1>2. CallInv /\ CallInv' /\ FlowInv /\ [Next]_vars => FlowInv'
  <2> SUFFICES ASSUME CallInv, CallInv', FlowInv, [Next]_vars PROVE FlowInv'
    OBVIOUS
  <2>1. Truthful' /\ OneOffers' /\ Locals' /\ Newcomers'
    BY StepTruthful, StepOneOffers, StepLocals, StepNewcomers DEF FlowInv
  <2>2. Flows'
    BY <2>1, StepFlows DEF FlowInv
  <2> QED
    BY <2>1, <2>2 DEF FlowInv
<1> QED
  BY <1>1, <1>2, CallInvariant, PTL DEF Spec

\* When nothing is under way, a newcomer's connections are answered.
LEMMA QuietNewcomers ==
  ASSUME CallInv, OneOffers, Newcomers PROVE NewcomerConnects
<1> SUFFICES ASSUME Quiet, NEW n \in channel, NEW e \in channel \ {n},
                    joins[n] = 1, joins[e] = 1, e \in saw[n]
             PROVE  InCall(n, e)
  BY DEF NewcomerConnects
<1>1. n \in Browsers /\ e \in Browsers
  BY TypeParts DEF CallInv
<1>2. Newly(n, e)
  BY DEF Newly
<1>3. HoldsOpen(n, e) /\ HoldsOpen(e, n)
  BY <1>1, <1>2, NewlyFacts
<1>4. stage[n] = Idle /\ down[n] = <<>> /\ down[e] = <<>> /\ applying = {}
  BY <1>1 DEF Quiet
<1>5. targets[n] = {}
  BY <1>1, <1>4 DEF CallInv, Phases, Phase
<1>6. PICK x \in Of(n, e) : Offering(n, e, x)
  BY <1>1, <1>2, <1>5 DEF Newcomers
<1>7. x \in Ends /\ x # None /\ x \in DOMAIN pc
  BY <1>6, OfIs
<1>8. ASSUME NEW type, NEW z
      PROVE  ~Under(n, type, z) /\ ~Under(e, type, z) /\ \A w : ~Setting(w, type, z)
  <2>1. Len(down[n]) = 0 /\ Len(down[e]) = 0
    BY <1>4
  <2>2. ~Under(n, type, z) /\ ~Under(e, type, z)
    BY <2>1 DEF Under
  <2>3. \A w : ~Setting(w, type, z)
    BY <1>4 DEF Setting
  <2> QED
    BY <2>2, <2>3
<1>9. ~AtOffer(n, x) /\ ~AtSending(e, x)
  <2>1. x # Idle
    BY <1>7, Marks
  <2>2. ~Under(e, "voice_offer", x)
    BY <1>8
  <2> QED
    BY <1>4, <2>1, <2>2 DEF AtOffer, AtSending
<1>10. PICK y \in Of(e, n) : pc[y].open /\ Answered(n, x, y)
  <2>1. AtAnswer(n, e, x)
    BY <1>6, <1>9 DEF Offering
  <2>2. \A y : ~Taking(x, y)
    BY <1>8 DEF Taking
  <2> QED
    BY <2>1, <2>2 DEF AtAnswer
<1>11. pc[x].open /\ pc[x].remote = y /\ pc[y].remote = x /\ y \in DOMAIN pc
  <2>1. ~Under(n, "voice_answer", y) /\ ~Setting(x, "answer", y)
    BY <1>8
  <2>2. pc[x].open /\ y \in DOMAIN pc
    BY <1>6, <1>10, OfIs DEF Offering
  <2> QED
    BY <1>10, <2>1, <2>2 DEF Answered
<1>12. peers[n][e] = x /\ peers[e][n] = y
  BY <1>3, <1>6, <1>10, <1>11 DEF HoldsOpen
<1> QED
  BY <1>7, <1>10, <1>11, <1>12 DEF InCall, Connected

\* Once everything is delivered, a connection has every candidate that the other
\* end found, whether it came before the description it belongs to, while that was
\* being set (VoiceManager.pendingIce), or after: between two of which one only
\* offers, for the one who offers always, for the other one unless both browsers
\* have returned to the call.
THEOREM VoiceCandidatesArrive == Spec => []CandidatesArrive
<1>1. CallInv /\ FlowInv => CandidatesArrive
  BY QuietCandidates DEF FlowInv
<1> QED
  BY <1>1, CallInvariant, FlowInvariant, VoiceCallAssumption, PTL

\* Once everything is delivered, each member that a newcomer was shown and that is
\* still there has a connection with it, over which audio flows, whatever the
\* other browsers do meanwhile.
THEOREM VoiceNewcomerConnects == Spec => []NewcomerConnects
<1>1. CallInv /\ FlowInv => NewcomerConnects
  BY QuietNewcomers DEF FlowInv
<1> QED
  BY <1>1, CallInvariant, FlowInvariant, VoiceCallAssumption, PTL

=============================================================================
