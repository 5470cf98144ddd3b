----------------------------- MODULE MCBleRelay -----------------------------
(* BleRelay for TLC: who is in which room and who hears whom. *)
EXTENDS BleRelay

CONSTANTS relay, other, g, p1, p2, p3

\* Both connections are in every room.
MCJoined == [c \in Clients |-> Rooms]

\* The relay hears two ids, the other connection at most a third one.
MCHears == [c \in Clients |-> IF c = relay THEN {p1, p2} ELSE Peers \ {p1, p2}]
=============================================================================
