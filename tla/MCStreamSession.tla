-------------------------- MODULE MCStreamSession --------------------------
(***************************************************************************)
(* StreamSession for TLC.  The page sends 4096 samples of the sound card   *)
(* at a time (static/voice-stream.html): 256 ms at 16 kHz, 85 ms at 48 kHz.*)
(***************************************************************************)
EXTENDS StreamTurns

Frame16k == 256
Frame48k == 85
=============================================================================
