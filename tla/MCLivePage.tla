----------------------------- MODULE MCLivePage -----------------------------
(***************************************************************************)
(* LivePage for TLC: every service may fail.                               *)
(***************************************************************************)
EXTENDS LivePage

Any == Services
=============================================================================
