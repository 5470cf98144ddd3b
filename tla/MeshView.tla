------------------------------ MODULE MeshView ------------------------------
(***************************************************************************)
(* The peers of a room in the store, the picture of the mesh that is drawn *)
(* of them, and the indicator that counts them.                            *)
(*                                                                         *)
(* Of a peer matter its id, its transport, the node it hangs on (via, ""   *)
(* for none), its state, and whether it has a name that is not a scanner's. *)
(* A list of peers is a set: its order moves nodes around a circle only.   *)
(***************************************************************************)
EXTENDS Naturals, FiniteSets

Ids(peers) == {p.id : p \in peers}
Unique(peers) == \A p, q \in peers : p.id = q.id => p = q

TransportPriority(t, preferred) ==
  CASE t = preferred -> 0
    [] t # preferred /\ t = "tcp" -> 1
    [] t # preferred /\ t = "wifi-direct" -> 2
    [] t # preferred /\ t = "btle" -> 3
    [] OTHER -> 4

\* deduplicatePeers: of an id with several transports the server sends the best,
\* of equal ones any, because the peers come out of a map.
Deduplicated(peers, list, preferred) ==
  /\ list \subseteq peers /\ Unique(list) /\ Ids(list) = Ids(peers)
  /\ \A p \in list, q \in peers : p.id = q.id =>
       TransportPriority(p.transport, preferred) <= TransportPriority(q.transport, preferred)

-----------------------------------------------------------------------------
(* The store *)

Bridged == {"btle", "wifi-direct"}
Presentable(p) == p.named /\ p.id # ""

\* mesh_state: what a bridge has brought stays, unless the server has its id.
SetMeshPeers(existing, peers) ==
  {p \in peers \cup {b \in existing : b.transport \in Bridged /\ b.id \notin Ids(peers)} :
     Presentable(p)}

\* ble_mesh_state replaces the Bluetooth peers.
MergeMeshPeers(existing, blePeers) == {p \in existing : p.transport # "btle"} \cup blePeers

-----------------------------------------------------------------------------
(* The picture *)

Self == "self"

DirectPeers(peers) == {p \in peers : p.via = ""}
RelayPeers(peers) == peers \ DirectPeers(peers)

\* The ring of direct peers, and this browser in the middle.
PosById(peers) == Ids(DirectPeers(peers)) \cup {Self}

\* A direct peer hangs on the middle, and so does one whose node is not a direct
\* peer.
Parent(peers, p) == IF p.via # "" /\ p.via \in PosById(peers) THEN p.via ELSE Self

TransportCssVar(t) ==
  CASE t \in {"tcp", "wifi", "wifi-direct", "quic"} -> "transport-wifi"
    [] t = "btle" -> "transport-ble"
    [] t = "relay" -> "transport-relay"
    [] t = "lan" -> "status-success"
    [] t = "p2p" -> "status-info"
    [] OTHER -> "fg-tertiary"

TransportBadgeVariant(t) ==
  CASE t = "btle" -> "transport-ble"
    [] t = "relay" -> "transport-relay"
    [] t \in {"wifi", "wifi-direct", "tcp", "quic", "lan", "p2p"} -> "transport-wifi"
    [] OTHER -> "transport-offline"

Line(peers, p) ==
  [from |-> Parent(peers, p), to |-> p.id, color |-> TransportCssVar(p.transport),
   dashed |-> p.via # "" \/ p.state = "degraded", faint |-> p.state = "degraded"]

Node(p, selected) ==
  [id |-> p.id, color |-> TransportCssVar(p.transport), large |-> p.via = "",
   pulses |-> p.state = "connected" /\ p.via = "", ringed |-> selected = p.id]

\* A click on the selected node closes the panel.
Select(selected, p) == IF selected = p.id THEN "" ELSE p.id

\* The panel with the details of a peer: a line on the node it hangs on only if
\* there is one.
Details(p) ==
  {"transport", "latency", "state", "connected", "id"}
    \cup IF p.via # "" THEN {"via"} ELSE {}

Legend(peers) == {TransportBadgeVariant(p.transport) : p \in peers}

-----------------------------------------------------------------------------
(* The indicator, for the peers of every room *)

FlatPeers(mesh) == UNION {{<<r, p>> : p \in mesh[r]} : r \in DOMAIN mesh}

Bluetooth(flat) == {x \in flat : x[2].transport = "btle"}
WifiDirect(flat) == {x \in flat : x[2].transport = "wifi-direct"}
InternetMesh(flat) == {x \in flat : x[2].transport \notin Bridged}

MeshTotal(flat) ==
  Cardinality(Bluetooth(flat)) + Cardinality(WifiDirect(flat)) + Cardinality(InternetMesh(flat))

Overall(connected, flat) ==
  IF ~connected THEN "offline" ELSE IF MeshTotal(flat) > 0 THEN "online" ELSE "limited"

Status(ok) == IF ok THEN "ok" ELSE "off"
Rows(connected, flat) ==
  [websocket |-> Status(connected),
   bluetooth |-> Status(Cardinality(Bluetooth(flat)) > 0),
   wifiDirect |-> Status(Cardinality(WifiDirect(flat)) > 0),
   internet |-> Status(Cardinality(InternetMesh(flat)) > 0)]

=============================================================================
