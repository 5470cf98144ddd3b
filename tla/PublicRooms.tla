---------------------------- MODULE PublicRooms ----------------------------
(***************************************************************************)
(* What the Go server promises about membership of a public room, with the *)
(* goroutines, the locks and the copied lists left out: a connection       *)
(* enters a room in one step and only while it is there to read, it leaves *)
(* a room only because it is departing, and it is retired when it has left *)
(* every room.                                                             *)
(***************************************************************************)
CONSTANTS Clients, Names

VARIABLES
  in,        \* who is in a room
  departed,  \* connections that have hung up
  retired    \* connections nothing may be sent to any more

vars == <<in, departed, retired>>

Init ==
  /\ in = [r \in Names |-> {}]
  /\ departed = {}
  /\ retired = {}

Enter(c, r) ==
  /\ c \notin departed
  /\ in' = [in EXCEPT ![r] = @ \cup {c}]
  /\ UNCHANGED <<departed, retired>>

Depart(c) ==
  /\ c \notin departed
  /\ departed' = departed \cup {c}
  /\ UNCHANGED <<in, retired>>

Leave(c, r) ==
  /\ c \in departed \ retired
  /\ in' = [in EXCEPT ![r] = @ \ {c}]
  /\ UNCHANGED <<departed, retired>>

Retire(c) ==
  /\ c \in departed
  /\ \A r \in Names : c \notin in[r]
  /\ retired' = retired \cup {c}
  /\ UNCHANGED <<in, departed>>

Next ==
  \E c \in Clients :
    \/ Depart(c)
    \/ Retire(c)
    \/ \E r \in Names : Enter(c, r) \/ Leave(c, r)

Spec == Init /\ [][Next]_vars
=============================================================================
