----------------------------- MODULE MCRoomLog -----------------------------
(* RoomLog for TLC: who is in the room and who comes later. *)
EXTENDS RoomLog

CONSTANTS a, b, z, m, p

\* z is another connection of b's browser.
MCTabOf == [c \in Clients |-> IF c = z THEN b ELSE c]

MCSent == <<m>>
=============================================================================
