--------------------------- MODULE MCTacticalMap ---------------------------
(* Instances of TacticalMap. *)
EXTENDS TacticalMap

=============================================================================
