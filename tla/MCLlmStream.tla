---------------------------- MODULE MCLlmStream ----------------------------
(***************************************************************************)
(* LlmStream for TLC: tokens that close a clause or leave it open, in a   *)
(* script whose letters and marks take more than one byte.                 *)
(***************************************************************************)
EXTENDS LlmStream

SomeTokens == { <<Letter>>, <<Space, Letter>>, <<Mark>>, <<Mark, Break>> }
Devanagari == {Letter, Mark}
AnyJunk    == {"empty", "broken"}
=============================================================================
