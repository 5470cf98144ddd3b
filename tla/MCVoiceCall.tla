---- MODULE MCVoiceCall ----
(* Instances of VoiceCall for TLC. *)
EXTENDS VoiceCall

CONSTANTS ann, bob

\* ann leaves and returns.
OnceOrTwice == [b \in Browsers |-> IF b = ann THEN 2 ELSE 1]

Once == [b \in Browsers |-> 1]

====
