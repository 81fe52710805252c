---------------------------- MODULE StreamTurns ----------------------------
(***************************************************************************)
(* A streaming session implements turn taking.  The mapping reads the      *)
(* floor off the reply task: "yielding" from the moment it is cancelled    *)
(* until its finally clause clears the field.                              *)
(***************************************************************************)
EXTENDS StreamSession

Ear == CASE handler = "recv"   -> "open"
         [] handler = "detect" -> "deciding"
         [] OTHER              -> "shut"

Floor ==
    CASE reply = None                                    -> "caller"
      [] reply # None /\ (task[reply].cancel \/ ~Live(reply)) -> "yielding"
      [] reply # None /\ At(reply, "created")             -> "taken"
      [] reply # None /\ At(reply, "asr")                 -> "taken"
      [] reply # None /\ At(reply, "farewell")            -> "answered"
      [] OTHER                                            -> "heard"

Abstract == INSTANCE TurnTaking
    WITH Turns <- Tasks, ear <- Ear, floor <- Floor, log <- history

\* Every behaviour of the session is one of turn taking: a turn is taken only
\* while the caller has the floor, one line is heard and one answered per
\* turn, a cancelled reply adds nothing to the history, and a reset leaves
\* nothing of the turn under way.
TakesTurns == Abstract!Spec
=============================================================================
