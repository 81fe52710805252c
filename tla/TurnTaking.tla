----------------------------- MODULE TurnTaking -----------------------------
(***************************************************************************)
(* What a voice session promises, whatever it is built from: who has the   *)
(* floor, and what is on the record.  The caller has the floor until the   *)
(* session decides that the turn is over; then the agent has it, hears at  *)
(* most one line, answers with at most one, and gives the floor back.  A   *)
(* reply that was interrupted says nothing more for the record.            *)
(***************************************************************************)
EXTENDS Integers, Sequences

CONSTANT Turns      \* the numbers a turn can have, a set of naturals

VARIABLES
    ear,    \* "open", "deciding" whether the turn is over, or "shut"
    floor,  \* "caller", or how far the agent is with its turn
    log     \* the lines of both sides

vars == <<ear, floor, log>>

AgentFloor == {"taken", "heard", "answered", "yielding"}
LineOf(role, n) == [role |-> role, turn |-> n]

Init == ear = "open" /\ floor = "caller" /\ log = <<>>

Decide ==
    /\ ear = "open" /\ floor = "caller"
    /\ ear' = "deciding"
    /\ UNCHANGED <<floor, log>>

Pass ==
    /\ ear = "deciding"
    /\ ear' = "open"
    /\ UNCHANGED <<floor, log>>

Take ==
    /\ ear = "deciding" /\ floor = "caller"
    /\ ear' = "open" /\ floor' = "taken"
    /\ log' = log

\* The line gets a number no line on the record has reached.
Hear ==
    /\ floor = "taken" /\ floor' = "heard"
    /\ \E n \in Turns :
          /\ \A i \in DOMAIN log : log[i].turn < n
          /\ log' = Append(log, LineOf("user", n))
    /\ ear' = ear

HearNothing ==
    /\ floor = "taken" /\ floor' = "answered"
    /\ UNCHANGED <<ear, log>>

Answer ==
    /\ floor = "heard" /\ floor' = "answered"
    /\ log # <<>>
    /\ log' = Append(log, LineOf("assistant", log[Len(log)].turn))
    /\ ear' = ear

Interrupt ==
    /\ floor \in AgentFloor /\ floor' = "yielding"
    /\ UNCHANGED <<ear, log>>

Yield ==
    /\ floor \in AgentFloor /\ floor' = "caller"
    /\ UNCHANGED <<ear, log>>

\* The record is wiped, and the reply under way with it.
Forget ==
    /\ ear = "open"
    /\ log' = <<>>
    /\ floor' = IF floor \in AgentFloor THEN "yielding" ELSE floor
    /\ ear' = ear

HangUp ==
    /\ ear # "shut" /\ ear' = "shut"
    /\ floor' = floor \/ (floor \in AgentFloor /\ floor' = "yielding")
    /\ log' = log

Next == \/ Decide \/ Pass \/ Take \/ Hear \/ HearNothing \/ Answer
        \/ Interrupt \/ Yield \/ Forget \/ HangUp

Spec == Init /\ [][Next]_vars
=============================================================================
