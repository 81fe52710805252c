------------------------------ MODULE CallPage ------------------------------
(***************************************************************************)
(* The call-centre page, services/static/call.html: starting and ending    *)
(* calls, the voice detector in loop, the recorder, the turns it sends and *)
(* the audio it plays.  All of it is one set of global variables; a turn   *)
(* (sendTurn) is a coroutine that reads them again after every await, and  *)
(* may outlive the call it belongs to.                                     *)
(*                                                                         *)
(* The user does not press the button again while a call is being set up.  *)
(***************************************************************************)
EXTENDS CallNames

VARIABLES
    live, busy, speaking,
    call,          \* CALL, 0 before the first
    ctx,           \* the call whose AudioContext is ctx, 0 once it is closed
    starting,      \* where startCall waits
    opened,        \* calls started so far
    rec,           \* the recorder that the variable rec holds
    orphans,       \* recorders still running that no variable holds
    flight,        \* the coroutines sendTurn
    posted,        \* turns sent so far
    heardIn        \* history variable: [of, in], a clip of call "of" was
                   \* started on the audio context of call "in"

micVars  == <<live, busy, speaking, rec, orphans>>
callVars == <<call, ctx, starting, opened>>
turnVars == <<flight, posted, heardIn>>
callPageVars == <<micVars, callVars, turnVars>>

Starting == {"no", "mic", "fetch", "resume"}
\* "stopping": stop() was called, onstop has not run
RecorderType == {"off", "on", "stopping"}

\* a turn waits for the response, for the next part of the stream, or for the
\* queue to be played; "failed": it had no response, "broken": its stream broke.  queue: clips not yet
\* played, the first of which drain is playing; sounding: it has started
FlightType == [pc : {"none", "fetch", "reading", "waiting", "failed", "broken", "over"},
               call : Calls \cup {0}, queue : Nat, sounding : BOOLEAN]
InFlight(n) == flight[n].pc \in {"fetch", "reading", "waiting"}

CallPageInit ==
    /\ live = FALSE /\ busy = FALSE /\ speaking = FALSE
    /\ rec = "off" /\ orphans = 0
    /\ call = 0 /\ ctx = 0 /\ starting = "no" /\ opened = 0
    /\ flight = [n \in Turns |->
                    [pc |-> "none", call |-> 0, queue |-> 0, sounding |-> FALSE]]
    /\ posted = 0 /\ heardIn = {}

\* armRecorder: the recorder it replaces, if any, is not stopped
ArmRecorder ==
    /\ rec' = "on"
    /\ orphans' = IF rec = "on" THEN orphans + 1 ELSE orphans

Resume ==
    /\ busy' = FALSE /\ speaking' = FALSE
    /\ live' = live
    /\ IF live THEN ArmRecorder ELSE UNCHANGED <<rec, orphans>>

-----------------------------------------------------------------------------
(* startCall, one action per await, and endCall.                           *)

StartCall ==
    /\ ~live /\ starting = "no" /\ opened < MaxCalls
    /\ starting' = "mic" /\ opened' = opened + 1
    /\ UNCHANGED <<micVars, call, ctx, turnVars>>

\* By the time a microphone is granted, the recorders of the last call have
\* delivered their last event.
MicGranted ==
    /\ starting = "mic" /\ rec # "stopping"
    /\ starting' = "fetch"
    /\ UNCHANGED <<micVars, call, ctx, opened, turnVars>>

\* The microphone is refused, or the server cannot be reached.
StartFails ==
    /\ starting \in {"mic", "fetch"}
    /\ starting' = "no"
    /\ UNCHANGED <<micVars, call, ctx, opened, turnVars>>

GoLive ==
    /\ live' = TRUE
    /\ ArmRecorder
    /\ UNCHANGED <<busy, speaking>>

\* The server answered with the id; the context may have to be resumed.
CallOpened ==
    /\ starting = "fetch"
    /\ call' = opened /\ ctx' = opened
    /\ \/ starting' = "resume" /\ UNCHANGED micVars
       \/ starting' = "no" /\ GoLive
    /\ UNCHANGED <<opened, turnVars>>

ContextResumed ==
    /\ starting = "resume"
    /\ starting' = "no" /\ GoLive
    /\ UNCHANGED <<call, ctx, opened, turnVars>>

EndCallIdle ==   \* mistake: also clears busy, as a fresh call would want
    /\ live
    /\ live' = FALSE
    /\ rec' = IF rec = "on" THEN "stopping" ELSE rec
    /\ orphans' = 0
    /\ busy' = FALSE
    /\ ctx' = 0
    /\ UNCHANGED <<speaking, call, starting, opened, turnVars>>

EndCallKeepsRecorder ==   \* mistake: only the context is closed
    /\ live
    /\ live' = FALSE
    /\ ctx' = 0
    /\ UNCHANGED <<busy, speaking, rec, orphans, call, starting, opened, turnVars>>

\* The tracks stop, and with them every recorder; busy and speaking stay.
EndCall ==
    /\ live
    /\ live' = FALSE
    /\ rec' = IF rec = "on" THEN "stopping" ELSE rec
    /\ orphans' = 0
    /\ ctx' = 0
    /\ UNCHANGED <<busy, speaking, call, starting, opened, turnVars>>

-----------------------------------------------------------------------------
(* loop and rec.onstop.                                                    *)

LoopHears ==
    /\ live /\ ~busy /\ ~speaking
    /\ speaking' = TRUE
    /\ UNCHANGED <<live, busy, rec, orphans, callVars, turnVars>>

\* SILENCE_MS of silence: what came before was a turn, or too short for one.
LoopPauses ==
    /\ live /\ ~busy /\ speaking
    /\ speaking' = FALSE
    /\ \/ /\ posted < MaxPosts
          /\ busy' = TRUE
          /\ rec' = IF rec = "on" THEN "stopping" ELSE rec
       \/ UNCHANGED <<busy, rec>>
    /\ UNCHANGED <<live, orphans, callVars, turnVars>>

SendTurn ==
    /\ posted < MaxPosts
    /\ posted' = posted + 1
    /\ flight' = [flight EXCEPT ![posted + 1].pc = "fetch",
                                ![posted + 1].call = call]
    /\ UNCHANGED <<live, busy, speaking, orphans, heardIn>>

\* rec.onstop, with a recording of more or of less than 2000 bytes
RecorderStops ==
    /\ rec = "stopping"
    /\ \/ live /\ SendTurn /\ rec' = "off"
       \/ live /\ Resume /\ UNCHANGED turnVars
       \/ /\ ~live /\ rec' = "off"
          /\ UNCHANGED <<live, busy, speaking, orphans, turnVars>>
    /\ UNCHANGED callVars

-----------------------------------------------------------------------------
(* The rest of sendTurn.                                                   *)

Leave(n, pc) == flight' = [flight EXCEPT ![n].pc = pc]

FetchFails(n) ==
    /\ flight[n].pc = "fetch"
    /\ Leave(n, "failed") /\ Resume
    /\ UNCHANGED <<callVars, posted, heardIn>>

Responded(n) ==
    /\ flight[n].pc = "fetch"
    /\ Leave(n, "reading")
    /\ UNCHANGED <<micVars, callVars, posted, heardIn>>

ReadSkipSilently(n) ==   \* mistake: returns without listening again
    /\ flight[n].pc = "reading"
    /\ Leave(n, "over")
    /\ UNCHANGED <<micVars, callVars, posted, heardIn>>

ReadSkip(n) ==
    /\ flight[n].pc = "reading"
    /\ Leave(n, "over") /\ Resume
    /\ UNCHANGED <<callVars, posted, heardIn>>

ReadChunkListens(n) ==   \* mistake: listens again once the answer is audible
    /\ flight[n].pc = "reading"
    /\ flight' = [flight EXCEPT ![n].queue = @ + 1]
    /\ Resume
    /\ UNCHANGED <<callVars, posted, heardIn>>

ReadChunk(n) ==
    /\ flight[n].pc = "reading"
    /\ flight' = [flight EXCEPT ![n].queue = @ + 1]
    /\ UNCHANGED <<micVars, callVars, posted, heardIn>>

ReadEnd(n) ==
    /\ flight[n].pc = "reading"
    /\ Leave(n, "waiting")
    /\ UNCHANGED <<micVars, callVars, posted, heardIn>>

\* rd.read() rejects: nobody catches it.
ReadBreaks(n) ==
    /\ flight[n].pc = "reading"
    /\ Leave(n, "broken")
    /\ UNCHANGED <<micVars, callVars, posted, heardIn>>

\* play: the clip is decoded and starts on whatever context ctx is by then.
ClipStarts(n) ==
    /\ flight[n].queue > 0 /\ ~flight[n].sounding
    /\ flight' = [flight EXCEPT ![n].sounding = TRUE]
    /\ heardIn' = IF ctx = 0 THEN heardIn
                  ELSE heardIn \cup {[of |-> flight[n].call, in |-> ctx]}
    /\ UNCHANGED <<micVars, callVars, posted>>

\* onended, or the timer two seconds after its length
ClipEnds(n) ==
    /\ flight[n].sounding
    /\ flight' = [flight EXCEPT ![n].queue = @ - 1, ![n].sounding = FALSE]
    /\ UNCHANGED <<micVars, callVars, posted, heardIn>>

ClipRejectedTwice(n) ==   \* mistake: drain takes a clip off an empty queue
    /\ flight[n].pc = "waiting" /\ ~flight[n].sounding
    /\ flight' = [flight EXCEPT ![n].queue = @ - 1]
    /\ UNCHANGED <<micVars, callVars, posted, heardIn>>

\* decodeAudioData rejects the clip.
ClipRejected(n) ==
    /\ flight[n].queue > 0 /\ ~flight[n].sounding
    /\ flight' = [flight EXCEPT ![n].queue = @ - 1]
    /\ UNCHANGED <<micVars, callVars, posted, heardIn>>

AllPlayedEarly(n) ==   \* mistake: does not wait for the queue
    /\ flight[n].pc = "waiting"
    /\ Leave(n, "over") /\ Resume
    /\ UNCHANGED <<callVars, posted, heardIn>>

AllPlayed(n) ==
    /\ flight[n].pc = "waiting" /\ flight[n].queue = 0
    /\ Leave(n, "over") /\ Resume
    /\ UNCHANGED <<callVars, posted, heardIn>>

Play(n) == ClipStarts(n) \/ ClipEnds(n) \/ ClipRejected(n) \/ AllPlayed(n)
User == StartCall \/ EndCall \/ LoopHears \/ LoopPauses
Setup == MicGranted \/ StartFails \/ CallOpened \/ ContextResumed

-----------------------------------------------------------------------------
CallPageTypeOK ==
    /\ live \in BOOLEAN /\ busy \in BOOLEAN /\ speaking \in BOOLEAN
    /\ rec \in RecorderType /\ orphans \in Nat
    /\ call \in Calls \cup {0} /\ ctx \in Calls \cup {0}
    /\ starting \in Starting /\ opened \in 0 .. MaxCalls
    /\ flight \in [Turns -> FlightType] /\ posted \in 0 .. MaxPosts
    /\ heardIn \subseteq [of : Calls \cup {0}, in : Calls]

\* One turn at a time, whatever calls were ended and started meanwhile: while a
\* turn is under way no other is, the detector is off and no recording is about
\* to become a turn.
OneTurnAtATime ==
    \A n \in Turns : InFlight(n) =>
        /\ busy
        /\ ~(live /\ rec = "stopping")
        /\ \A m \in Turns : InFlight(m) => m = n

\* The agent does not listen to itself: nothing is being played, or about to
\* be, while the detector is on.
NoEcho == \A n \in Turns : flight[n].queue > 0 => busy

\* The words of a caller who is listened to are recorded.
ListeningIsRecording == live /\ ~busy => rec = "on"
=============================================================================
