--------------------------- MODULE SpeechService ---------------------------
(***************************************************************************)
(* What a server that holds one model promises its clients, whatever it is *)
(* built from: it gets ready once and stays so, every request gets one     *)
(* answer, what it answers with comes from a model that is there whole,    *)
(* and if it says so, it computes for one request at a time.               *)
(***************************************************************************)

CONSTANT Requests

VARIABLES
    alone,   \* one request at a time; never changes
    ready,   \* the model is there
    req      \* what became of each request

vars == <<alone, ready, req>>

Outcomes == {"served", "refused"}

Init == alone \in BOOLEAN /\ ready = FALSE /\ req = [r \in Requests |-> "none"]

GetReady == ~ready /\ ready' = TRUE /\ UNCHANGED <<alone, req>>

Becomes(r, s) == req' = [req EXCEPT ![r] = s]

Ask(r) ==
    /\ req[r] = "none"
    /\ Becomes(r, "waiting") \/ Becomes(r, "refused")
    /\ UNCHANGED <<alone, ready>>

Compute(r) ==
    /\ req[r] = "waiting" /\ Becomes(r, "computing")
    /\ alone => \A q \in Requests : req[q] # "computing"
    /\ alone' = alone /\ ready' \in {ready, TRUE}

Serve(r) ==
    /\ req[r] = "computing" /\ ready /\ Becomes(r, "served")
    /\ UNCHANGED <<alone, ready>>

Refuse(r) ==
    /\ req[r] \in {"waiting", "computing"} /\ Becomes(r, "refused")
    /\ UNCHANGED <<alone, ready>>

Collect(r) ==
    /\ req[r] \in Outcomes /\ Becomes(r, "none")
    /\ UNCHANGED <<alone, ready>>

Next == GetReady \/ \E r \in Requests :
    Ask(r) \/ Compute(r) \/ Serve(r) \/ Refuse(r) \/ Collect(r)

Spec == Init /\ [][Next]_vars
=============================================================================
