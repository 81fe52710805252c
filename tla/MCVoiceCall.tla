---------------------------- MODULE MCVoiceCall ----------------------------
(***************************************************************************)
(* VoiceCall for TLC, with the desktop's frames of 256 ms.                 *)
(***************************************************************************)
EXTENDS VoiceCall

Frame16k == 256
=============================================================================
