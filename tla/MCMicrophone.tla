---------------------------- MODULE MCMicrophone ----------------------------
(* Instances of Microphone; BleAudio shares the audio context of the call. *)
EXTENDS Microphone, BleAudio

=============================================================================
