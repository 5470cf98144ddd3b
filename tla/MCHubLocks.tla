---------------------------- MODULE MCHubLocks ----------------------------
(* HubLocks for TLC: the goroutines and what they are asked to do. *)
EXTENDS HubLocks

CONSTANTS hubRun, relay, other, relayReader, otherReader, relayWriter, otherWriter

MCReaders == [c \in Clients |-> IF c = relay THEN relayReader ELSE otherReader]
MCWriters == [c \in Clients |-> IF c = relay THEN relayWriter ELSE otherWriter]

\* The relay registers peers, drops them, joins voice and writes, its reader
\* and its writer share the lock of the connection; the other connection and
\* the hub do what takes the most locks.
All ==
  [t \in Threads |->
     CASE t = relayReader -> {"register_ble_peer", "unregister_ble_peer",
                              "join_voice", "send_message"}
       [] t = relayWriter -> {"ping"}
       [] t = otherReader -> {"set_transport", "join_room", "start_dm"}
       [] t = HubRun -> {"register", "unregister", "tick"}
       [] OTHER -> {}]
=============================================================================
