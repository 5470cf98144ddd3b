---------------------------- MODULE MCPhoneMesh ----------------------------
(* PhoneMesh for TLC: two phones in range of each other, x by the first's    *)
(* WebView, w at the server.  Packets of p2 may reach p1 twice.              *)
EXTENDS PhoneMesh

CONSTANTS p1, p2, x, w

MCAuthor == [m \in Msgs |-> IF m = x THEN p1 ELSE Web]
MCLinks == {<<p1, p2>>, <<p2, p1>>}
MCDual == {<<p2, p1>>}
=============================================================================
