------------------------------- MODULE MCHub -------------------------------
(* Hub for TLC: who opens which connection. *)
EXTENDS Hub

CONSTANTS c1, c2

\* Everybody has one connection.
OneEach == [c \in Clients |-> c]
=============================================================================
