------------------------------ MODULE LivePage ------------------------------
(***************************************************************************)
(* voice-live.html: a console that records an utterance, has it recognised *)
(* and answered, and speaks the answer clause by clause through a queue.   *)
(* The page runs one callback at a time; between two awaits of startListen,*)
(* stopListen, handleInput and drainTTS anything else may run, and several *)
(* calls of each may be waiting at once.  The three services are external: *)
(* each request is answered, well or badly.                                *)
(*                                                                         *)
(* Audio, texts and timings are left out; an utterance counts as voiced or *)
(* not, a token as the end of a clause or not.  The settings are those the *)
(* page starts with: live backend, spoken clause by clause, hands-free.    *)
(***************************************************************************)
EXTENDS Integers, Sequences

CONSTANTS
    MaxTurns,    \* bound: utterances that are answered
    MaxClauses,  \* bound: clauses of an answer
    MaxTaps,     \* bound: taps on the microphone and typed lines
    Faults       \* no text recognised, no speech, no answer, no microphone

Services == {"deaf", "mute", "mindless", "forbidden"}

ASSUME LiveAssumption ==
    /\ MaxTurns \in Nat /\ MaxClauses \in Nat /\ MaxTaps \in Nat
    /\ Faults \subseteq Services

VARIABLES
    mic,        \* $("mic").dataset.state
    listening,
    opening,    \* startListen calls that wait for the microphone
    stt,        \* recognitions under way
    busy, turnNo,
    turn,       \* each handleInput
    history,
    ttsQueue, ttsBusy,
    drains,     \* the drainTTS calls under way, as the clip and what it waits for
    timers,     \* hands-free timers that have not fired
    taps        \* gestures so far

earVars   == <<listening, opening, stt>>
turnVars  == <<busy, turnNo, turn, history>>
voiceVars == <<ttsQueue, ttsBusy, drains, timers>>
vars      == <<mic, earVars, turnVars, voiceVars, taps>>

Turns == 1 .. MaxTurns
Clips == Turns \X (1 .. MaxClauses + 1)

\* out: something was answered; rest: spokeBuf holds something to say
Unborn == [st |-> "none", out |-> FALSE, rest |-> FALSE, clauses |-> 0]
Line(role, n) == [role |-> role, turn |-> n]

Init ==
    /\ mic = "idle" /\ listening = FALSE /\ opening = 0 /\ stt = 0
    /\ busy = FALSE /\ turnNo = 0 /\ turn = [n \in Turns |-> Unborn] /\ history = <<>>
    /\ ttsQueue = <<>> /\ ttsBusy = FALSE /\ drains = {} /\ timers = 0
    /\ taps = 0

-----------------------------------------------------------------------------
Drain(clip) == [clip |-> clip, at |-> "fetch"]

\* speak: a clip joins the queue, and the queue is drained if nobody does.
Speak(clip) ==
    /\ IF ttsBusy
       THEN ttsQueue' = Append(ttsQueue, clip) /\ UNCHANGED <<ttsBusy, drains>>
       ELSE /\ ttsBusy' = TRUE
            /\ ttsQueue' = Tail(Append(ttsQueue, clip))
            /\ drains' = drains \cup {Drain(Head(Append(ttsQueue, clip)))}
    /\ timers' = timers

\* What is playing is stopped and its end is reported like any other; a clip
\* that is being fetched is not, though ttsBusy says that nobody drains.
StopSpeaking == ttsQueue' = <<>> /\ ttsBusy' = FALSE /\ UNCHANGED <<drains, timers>>

StartListen ==
    IF listening THEN UNCHANGED <<earVars, voiceVars>>
    ELSE StopSpeaking /\ opening' = opening + 1 /\ UNCHANGED <<listening, stt>>

MicGranted ==
    /\ opening > 0 /\ opening' = opening - 1
    /\ listening' = TRUE /\ mic' = "listening"
    /\ UNCHANGED <<stt, turnVars, voiceVars, taps>>

MicDenied ==
    /\ "forbidden" \in Faults /\ opening > 0 /\ opening' = opening - 1
    /\ UNCHANGED <<mic, listening, stt, turnVars, voiceVars, taps>>

\* stopListen, of enough voice: the recording goes to the recogniser.
StopListen == listening' = FALSE /\ mic' = "thinking" /\ stt' = stt + 1
                                                      /\ opening' = opening
\* bound: no more is said than may be answered
Speakable == turnNo + stt < MaxTurns

Silence ==
    /\ listening /\ Speakable /\ StopListen
    /\ UNCHANGED <<turnVars, voiceVars, taps>>

-----------------------------------------------------------------------------
\* mistake: an utterance is answered although another one still is
HandleInputAtOnce ==
    /\ busy' = TRUE /\ turnNo' = turnNo + 1
    /\ turn' = [turn EXCEPT ![turnNo'].st = "streaming"]
    /\ history' = Append(history, Line("user", turnNo'))
    /\ mic' = "thinking"

\* handleInput, as far as its first await; what comes while busy is dropped.
HandleInput ==
    IF busy THEN UNCHANGED <<turnVars, mic>>
    ELSE /\ busy' = TRUE /\ turnNo' = turnNo + 1
         /\ turn' = [turn EXCEPT ![turnNo'].st = "streaming"]
         /\ history' = Append(history, Line("user", turnNo'))
         /\ mic' = "thinking"

Recognised ==
    /\ stt > 0 /\ stt' = stt - 1
    /\ HandleInput
    /\ UNCHANGED <<listening, opening, voiceVars, taps>>

NothingRecognised ==
    /\ stt > 0 /\ stt' = stt - 1 /\ "deaf" \in Faults
    /\ mic' = "idle"
    /\ UNCHANGED <<listening, opening, turnVars, voiceVars, taps>>

Streaming(n) == turn[n].st = "streaming"

\* A token that closes a clause, with or without the start of the next one.
Clause(n) ==
    /\ Streaming(n) /\ turn[n].clauses < MaxClauses
    /\ \E rest \in BOOLEAN :
         turn' = [turn EXCEPT ![n] = [st |-> "streaming", out |-> TRUE,
                                      rest |-> rest, clauses |-> @.clauses + 1]]
    /\ Speak(<<n, turn[n].clauses + 1>>)
    /\ UNCHANGED <<mic, earVars, busy, turnNo, history, taps>>

Token(n) ==
    /\ Streaming(n) /\ ~turn[n].rest
    /\ turn' = [turn EXCEPT ![n] = [st |-> "streaming", out |-> TRUE, rest |-> TRUE,
                                    clauses |-> @.clauses]]
    /\ UNCHANGED <<mic, earVars, busy, turnNo, history, voiceVars, taps>>

\* mistake: an empty answer leaves busy as it is
ConcludeBusy(n, out, quiet) ==
    /\ IF turn[n].rest THEN Speak(<<n, turn[n].clauses + 1>>) ELSE UNCHANGED voiceVars
    /\ IF out THEN /\ turn' = [turn EXCEPT ![n].st = "polling"]
                   /\ history' = Append(history, Line("assistant", n))
                   /\ busy' = busy /\ mic' = quiet
       ELSE turn' = [turn EXCEPT ![n].st = "over"] /\ mic' = "idle"
                                                   /\ UNCHANGED <<busy, history>>

\* After the stream, however it ended: the tail is spoken, the answer
\* remembered, and an empty one forgotten.
Conclude(n, out, quiet) ==
    /\ IF turn[n].rest THEN Speak(<<n, turn[n].clauses + 1>>) ELSE UNCHANGED voiceVars
    /\ IF out THEN /\ turn' = [turn EXCEPT ![n].st = "polling"]
                   /\ history' = Append(history, Line("assistant", n))
                   /\ busy' = busy /\ mic' = quiet
       ELSE /\ turn' = [turn EXCEPT ![n].st = "over"] /\ busy' = FALSE /\ mic' = "idle"
            /\ history' = history

StreamEnds(n) ==
    /\ Streaming(n)
    /\ turn[n].out \/ "mindless" \in Faults
    /\ Conclude(n, turn[n].out, mic)
    /\ UNCHANGED <<earVars, turnNo, taps>>

\* An error message takes the place of an empty answer, on the screen and in
\* the history, but is not spoken.
StreamFails(n) ==
    /\ Streaming(n) /\ "mindless" \in Faults /\ Conclude(n, TRUE, mic)
    /\ UNCHANGED <<earVars, turnNo, taps>>

\* The first audio, or 200 looks at the clock without any.
PollEnds(n) ==
    /\ turn[n].st = "polling" /\ turn' = [turn EXCEPT ![n].st = "over"]
    /\ busy' = FALSE
    /\ UNCHANGED <<mic, earVars, turnNo, history, voiceVars, taps>>

-----------------------------------------------------------------------------
ClipStarts(d) ==
    /\ d \in drains /\ d.at = "fetch" /\ mic' = "speaking"
    /\ drains' = (drains \ {d}) \cup {[d EXCEPT !.at = "play"]}
    /\ UNCHANGED <<earVars, turnVars, ttsQueue, ttsBusy, timers, taps>>

\* mistake: one call speaks one clip
DrainEndsAlone(d) ==
    /\ ttsBusy' = FALSE /\ ttsQueue' = ttsQueue /\ drains' = drains \ {d}
    /\ mic' = "idle" /\ timers' = timers + 1

\* The end of drainTTS, of a clip or of an error: the next clip, or the
\* hands-free timer.
DrainEnds(d) ==
    IF ttsQueue # <<>>
    THEN /\ ttsBusy' = TRUE /\ ttsQueue' = Tail(ttsQueue)
         /\ drains' = (drains \ {d}) \cup {Drain(Head(ttsQueue))}
         /\ UNCHANGED <<mic, timers>>
    ELSE /\ ttsBusy' = FALSE /\ ttsQueue' = ttsQueue /\ drains' = drains \ {d}
         /\ mic' = "idle" /\ timers' = timers + 1

ClipEnds(d) ==
    /\ d \in drains /\ d.at = "play" /\ DrainEnds(d)
    /\ UNCHANGED <<earVars, turnVars, taps>>

ClipFails(d) ==
    /\ d \in drains /\ d.at = "fetch" /\ "mute" \in Faults /\ DrainEnds(d)
    /\ UNCHANGED <<earVars, turnVars, taps>>

TimerFires ==
    /\ timers > 0
    /\ IF ~listening /\ mic = "idle"
       THEN /\ opening' = opening + 1 /\ UNCHANGED <<listening, stt>>
            /\ ttsQueue' = <<>> /\ ttsBusy' = FALSE /\ drains' = drains
       ELSE UNCHANGED <<earVars, ttsQueue, ttsBusy, drains>>
    /\ timers' = timers - 1
    /\ UNCHANGED <<mic, turnVars, taps>>

-----------------------------------------------------------------------------
(* What the person in front of it does.                                    *)
Gesture == taps < MaxTaps /\ taps' = taps + 1

TapListening ==     \* too short to be speech, or an utterance
    /\ Gesture /\ mic = "listening"
    /\ \/ listening /\ Speakable /\ StopListen
       \/ listening /\ listening' = FALSE /\ mic' = "idle" /\ UNCHANGED <<opening, stt>>
    /\ UNCHANGED <<turnVars, voiceVars>>

TapSpeaking ==
    /\ Gesture /\ mic = "speaking" /\ StopSpeaking /\ mic' = "idle"
    /\ UNCHANGED <<earVars, turnVars>>

\* The aborted stream throws at its await, and its turn concludes at once.
TapThinking ==
    /\ Gesture /\ mic = "thinking"
    /\ \/ \E n \in Turns : Streaming(n) /\ Conclude(n, turn[n].out, "idle")
       \/ /\ \A n \in Turns : ~Streaming(n)
          /\ mic' = "idle" /\ UNCHANGED <<busy, turn, history, voiceVars>>
    /\ UNCHANGED <<earVars, turnNo>>

TapIdle ==
    /\ Gesture /\ mic = "idle" /\ StartListen
    /\ UNCHANGED <<mic, turnVars>>

SendTyped ==
    /\ Gesture /\ Speakable /\ HandleInput
    /\ UNCHANGED <<earVars, voiceVars>>

Person == TapListening \/ TapSpeaking \/ TapThinking \/ TapIdle \/ SendTyped

Answering(n) == Clause(n) \/ Token(n) \/ StreamEnds(n) \/ StreamFails(n)
Voice == \E d \in drains : ClipStarts(d) \/ ClipEnds(d) \/ ClipFails(d)

Next == \/ MicGranted \/ MicDenied \/ Silence \/ Recognised \/ NothingRecognised
        \/ Voice \/ TimerFires \/ Person
        \/ \E n \in Turns : Answering(n) \/ PollEnds(n)

Spec == Init /\ [][Next]_vars

\* Requests are answered, clips end, timers fire; the caller says something
\* and stops.
FairSpec ==
    /\ Spec /\ WF_vars(MicGranted) /\ WF_vars(Recognised \/ NothingRecognised)
    /\ WF_vars(Voice) /\ WF_vars(TimerFires) /\ WF_vars(Silence)
    /\ \A n \in Turns : WF_vars(Answering(n)) /\ WF_vars(PollEnds(n))

-----------------------------------------------------------------------------
TypeOK ==
    /\ mic \in {"idle", "listening", "thinking", "speaking"} /\ listening \in BOOLEAN
    /\ opening \in Nat /\ stt \in Nat /\ timers \in Nat /\ taps \in 0 .. MaxTaps
    /\ busy \in BOOLEAN /\ ttsBusy \in BOOLEAN /\ turnNo \in 0 .. MaxTurns
    /\ turn \in [Turns -> [st : {"none", "streaming", "polling", "over"},
                           out : BOOLEAN, rest : BOOLEAN, clauses : 0 .. MaxClauses]]
    /\ history \in Seq([role : {"user", "assistant"}, turn : Turns])
    /\ ttsQueue \in Seq(Clips) /\ drains \subseteq [clip : Clips, at : {"fetch", "play"}]

UnderWay == {n \in Turns : turn[n].st \in {"streaming", "polling"}}

\* busy is up exactly while one answer is under way: handleInput shares its
\* stream element, its first-audio callback and the abort controller among all
\* its calls, and lowers busy at two places, after an empty answer and at the end.
OneAnswerAtATime ==
    /\ busy <=> UnderWay # {}
    /\ \A m, n \in UnderWay : m = n

\* What the LLM is shown stays a conversation: every answer follows its own
\* question, although turns are aborted, fail or come back empty.
HistoryPaired ==
    \A i \in DOMAIN history : history[i].role = "assistant" =>
        i > 1 /\ history[i - 1] = Line("user", history[i].turn)

\* While an answer streams its question is the last thing in the history.
QuestionIsLast ==
    \A n \in Turns : Streaming(n) =>
        history # <<>> /\ history[Len(history)] = Line("user", n)

\* A clip in the queue has somebody to play it, whatever was stopped, failed
\* or started over in between: no wake-up of drainTTS is lost.
NoClipForgotten == ttsQueue # <<>> => ttsBusy /\ drains # {}

\* The inductive invariant of the page.
LiveInv ==
    /\ TypeOK /\ OneAnswerAtATime /\ HistoryPaired /\ QuestionIsLast /\ NoClipForgotten
    /\ turnNo + stt <= MaxTurns
    /\ \A n \in Turns : n > turnNo => turn[n].st = "none"
    /\ ttsBusy => drains # {}

\* The page never stays busy: however the answer ends, the next utterance is
\* accepted.
TurnsEnd == busy ~> ~busy
=============================================================================
