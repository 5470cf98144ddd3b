------------------------------ MODULE MapLook ------------------------------
(***************************************************************************)
(* What a marker looks like and what the map is drawn from: the form's     *)
(* choices, the legacy colour and type that travel, the icon and colour    *)
(* that come out; the map styles with their sources and layers.            *)
(***************************************************************************)
EXTENDS Naturals

\* A CoT type stands for its label and icon.
CotTypes == {"b-m-p-w", "b-m-p-s-m", "b-m-p-s-p-i", "b-m-p-c-cp", "b-r-.-O"}
Affiliations == {"f", "h", "n", "u"}

AffiliationToLegacy == [f |-> "green", h |-> "red", n |-> "blue", u |-> "yellow"]
LegacyToToken == [green |-> "friendly", red |-> "hostile", blue |-> "neutral",
                  yellow |-> "unknown", white |-> "unknown"]
LegendToken == [f |-> "friendly", h |-> "hostile", n |-> "neutral", u |-> "unknown"]

GetCotType(t) == IF t \in CotTypes THEN t ELSE "b-m-p-w"
GetCotColor(c) == IF c \in DOMAIN LegacyToToken THEN LegacyToToken[c] ELSE "unknown"

\* The form's fields; of the name it matters whether there is one, or blanks.
Names == {"none", "blanks", "text"}
FormValues == [name : Names, cotType : CotTypes, affiliation : Affiliations]
FormDefaults == [name |-> "none", cotType |-> "b-m-p-w", affiliation |-> "f"]

\* A name of blanks is a name to the form.
Valid(values) == values.name # "none"

\* What the form sends, the name trimmed.
Submitted(values) ==
  [name |-> IF values.name = "blanks" THEN "none" ELSE values.name,
   icon |-> values.cotType, color |-> AffiliationToLegacy[values.affiliation],
   cot_type |-> values.cotType]

\* The server drops a marker without a name,
Accepted(d) == d.name # "none"

\* and fills in the type of a client that sends an icon only.
ServerType(d) ==
  IF d.cot_type # "" THEN d.cot_type
  ELSE CASE d.icon = "waypoint" -> "b-m-p-w"
         [] d.icon \in {"objective", "info"} -> "b-m-p-s-p-i"
         [] OTHER -> "b-m-p-s-m"

\* The elements of the pins: of a marker, of a contact, of this user.
DrawnMarker(marker) ==
  [icon |-> GetCotType(marker.cot_type), color |-> GetCotColor(marker.color), faded |-> FALSE]
DrawnContact(stale) ==
  [icon |-> GetCotType("b-m-p-c-cp"), color |-> "friendly", faded |-> stale]
DrawnSelf == [icon |-> "YOU", color |-> "friendly", faded |-> FALSE]

\* What is chosen in the form is what everybody sees.
LooksAsChosen(values) ==
  LET d == Submitted(values) IN
  DrawnMarker([cot_type |-> ServerType(d), color |-> d.color])
    = [icon |-> values.cotType, color |-> LegendToken[values.affiliation], faded |-> FALSE]

\* The colour of every pin is in the legend, whatever a client or the server sends.
InLegend(pin) == \E a \in Affiliations : pin.color = LegendToken[a]

-----------------------------------------------------------------------------

MapStyles == {"dark", "light", "topo", "satellite"}
NextStyle == [dark |-> "light", light |-> "topo", topo |-> "satellite", satellite |-> "dark"]

AvailableStyles(key) == IF key THEN MapStyles ELSE {"satellite"}

\* Without a key there is satellite only.
EffectiveStyle(style, key) == IF style \in AvailableStyles(key) THEN style ELSE "satellite"

Satellite(key) ==
  [sources |-> {"esri"} \cup IF key THEN {"protomaps"} ELSE {},
   layers |-> {"esri"} \cup IF key THEN {"protomaps"} ELSE {}]

\* A style is its sources, and those its layers draw from; the background draws
\* from none.
BuildStyle(key, theme) ==
  IF theme = "satellite" THEN Satellite(key)
  ELSE [sources |-> {"protomaps"}, layers |-> {"protomaps"}]

\* A source with tiles to fetch: those of Protomaps need a key.
Served(key) == {"esri"} \cup IF key THEN {"protomaps"} ELSE {}

\* Whatever is chosen, every layer has a source, and every source has tiles.
MapHasTiles(style, key) ==
  LET built == BuildStyle(key, EffectiveStyle(style, key)) IN
  built.layers \subseteq built.sources /\ built.sources \subseteq Served(key)

=============================================================================
