-------------------------- MODULE MCSentenceSplit --------------------------
(***************************************************************************)
(* SentenceSplit, and with it ClauseStream, for TLC: tokens of one         *)
(* character, a line break as it comes, behind a sentence or before a      *)
(* word, and tokens that reach over a closing, with the beginning of the   *)
(* next word and with a second closing.                                    *)
(***************************************************************************)
EXTENDS SentenceSplit

SomeTokens == { <<Letter>>, <<Mark>>, <<Comma>>, <<Space>>, <<Break, Letter>>, <<Mark, Break>>,
                <<Mark, Space, Letter>>, <<Mark, Space, Letter, Mark, Space>> }
=============================================================================
