---------------------------- MODULE MCCallSystem ----------------------------
(***************************************************************************)
(* CallSystem for TLC.  The kinds of networks the runs take.               *)
(***************************************************************************)
EXTENDS CallSystem

Sound == {}
Bad   == {"lost", "broken"}
=============================================================================
