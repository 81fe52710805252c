-------------------------- MODULE MCModelServices --------------------------
(***************************************************************************)
(* ModelServices for TLC.                                                  *)
(***************************************************************************)
EXTENDS ModelServices

AllServers == Programs
=============================================================================
