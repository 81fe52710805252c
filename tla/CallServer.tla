----------------------------- MODULE CallServer -----------------------------
(***************************************************************************)
(* The call-centre server, services/call.py: what it keeps of every call   *)
(* and the turns it works on.  A turn is one request whose answer is a     *)
(* stream of events; the generator events() runs until its next wait (the  *)
(* recogniser, the LLM, the TTS server, or the client that takes an        *)
(* event), so there is one action per wait.                                *)
(*                                                                         *)
(* Of the events the page acts on "skip" and on "chunk" (tts_chunk); the   *)
(* others are only shown and are left out.                                 *)
(***************************************************************************)
EXTENDS CallNames

CONSTANTS
    MaxChunks,     \* bound: sentences of one answer
    MAX_TURNS      \* lines of history that are kept: 40

ASSUME ServerAssumption == MaxChunks \in Nat /\ MAX_TURNS \in Nat \ {0}

VARIABLES
    history, segments,   \* _calls[c]["history"] and ["segments"]
    turn,                \* where the generator of a turn waits
    stream               \* its events that the page has not read

serverVars == <<history, segments, turn, stream>>

\* "none": not received; "heard": the transcript is on its way to the client
AtWork   == {"asr", "heard", "llm", "tts"}
TurnPC   == AtWork \cup {"none", "over"}
\* clips: sentences of the answer spoken so far
TurnType == [pc : TurnPC, call : Calls \cup {0}, clips : 0 .. MaxChunks]

Side(who, n) == [who |-> who, turn |-> n]
SideType     == [who : {"user", "agent"}, turn : Turns]

ServerInit ==
    /\ history = [c \in Calls |-> <<>>]
    /\ segments = [c \in Calls |-> <<>>]
    /\ turn = [n \in Turns |-> [pc |-> "none", call |-> 0, clips |-> 0]]
    /\ stream = [n \in Turns |-> <<>>]

Proceed(n, pc) == turn' = [turn EXCEPT ![n].pc = pc]
CallOf(n) == turn[n].call

\* call_turn, as far as the StreamingResponse
Post(n, c) ==
    /\ turn[n].pc = "none"
    /\ turn' = [turn EXCEPT ![n] = [pc |-> "asr", call |-> c, clips |-> 0]]
    /\ UNCHANGED <<history, segments, stream>>

\* Less than a quarter of a second, a transcript that ran to the cap, or an
\* empty one.
Skip(n) ==
    /\ turn[n].pc = "asr"
    /\ Proceed(n, "over")
    /\ stream' = [stream EXCEPT ![n] = Append(@, "skip")]
    /\ UNCHANGED <<history, segments>>

\* The transcript is sent before it is remembered.
Heard(n) ==
    /\ turn[n].pc = "asr"
    /\ Proceed(n, "heard")
    /\ UNCHANGED <<history, segments, stream>>

\* mistake: del call["history"][MAX_TURNS:]
TrimmedAtEnd(s) == IF Len(s) <= MAX_TURNS THEN s ELSE SubSeq(s, 1, MAX_TURNS)

\* del call["history"][:-MAX_TURNS]
Trimmed(s) ==
    IF Len(s) <= MAX_TURNS THEN s
    ELSE SubSeq(s, Len(s) - MAX_TURNS + 1, Len(s))

RememberUntrimmed(n) ==   \* mistake: the history is never cut
    /\ turn[n].pc = "heard"
    /\ segments' = [segments EXCEPT ![CallOf(n)] = Append(@, Side("user", n))]
    /\ history' = [history EXCEPT ![CallOf(n)] = Append(@, Side("user", n))]
    /\ Proceed(n, "llm")
    /\ stream' = stream

Remember(n) ==
    /\ turn[n].pc = "heard"
    /\ segments' = [segments EXCEPT ![CallOf(n)] = Append(@, Side("user", n))]
    /\ history' =
          [history EXCEPT ![CallOf(n)] = Trimmed(Append(@, Side("user", n)))]
    /\ Proceed(n, "llm")
    /\ stream' = stream

\* The answer is complete, and perhaps empty (the LLM's status is not looked at).
Answered(n) ==
    /\ turn[n].pc = "llm"
    /\ history' = [history EXCEPT ![CallOf(n)] = Append(@, Side("agent", n))]
    /\ Proceed(n, "tts") \/ Proceed(n, "over")
    /\ UNCHANGED <<segments, stream>>

\* A sentence was synthesised; it is the last one or there are more.
ChunkSpoken(n) ==
    /\ turn[n].pc = "tts" /\ turn[n].clips < MaxChunks
    /\ segments' = [segments EXCEPT ![CallOf(n)] = Append(@, Side("agent", n))]
    /\ stream' = [stream EXCEPT ![n] = Append(@, "chunk")]
    /\ \E more \in BOOLEAN :
          /\ more => turn[n].clips + 1 < MaxChunks
          /\ turn' = [turn EXCEPT ![n].pc = IF more THEN "tts" ELSE "over",
                                  ![n].clips = @ + 1]
    /\ history' = history

\* An exception of the recogniser, the LLM, the TTS server or ffmpeg: an
\* event "error" or "tts_error", and the stream ends.
TurnFails(n) ==
    /\ turn[n].pc \in AtWork \ {"heard"}
    /\ Proceed(n, "over")
    /\ UNCHANGED <<history, segments, stream>>

\* The server notices that the client is gone and cancels the generator.
Cancelled(n) ==
    /\ turn[n].pc \in AtWork
    /\ Proceed(n, "over")
    /\ UNCHANGED <<history, segments, stream>>

Work(n) == Skip(n) \/ Heard(n) \/ Remember(n) \/ Answered(n) \/ ChunkSpoken(n)
           \/ TurnFails(n)

-----------------------------------------------------------------------------
ServerTypeOK ==
    /\ history \in [Calls -> Seq(SideType)]
    /\ segments \in [Calls -> Seq(SideType)]
    /\ turn \in [Turns -> TurnType]
    /\ stream \in [Turns -> Seq({"skip", "chunk"})]

\* What makes the lines K of a history a conversation: turns do not go back,
\* and a turn is a question and then its answer (the window may have cut off
\* the question of the first answer).
Paired(lines, K) ==
    /\ \A i, j \in K : i < j =>
          \/ lines[i].turn < lines[j].turn
          \/ lines[i] = Side("user", lines[j].turn) /\ lines[j].who = "agent"
    /\ \A i, j \in K : i < j /\ lines[j].who = "agent" =>
          \E u \in K : u < j /\ lines[u] = Side("user", lines[j].turn)

\* What makes the segments K of a recording one in "the order they were
\* spoken": a caller's segment opens each turn, the agent's follow it, and no
\* turn is taken up again.
InOrder(segs, K) ==
    /\ \A i, j \in K : i < j =>
          \/ segs[i].turn < segs[j].turn
          \/ segs[i].turn = segs[j].turn /\ segs[j].who = "agent"
    /\ \A j \in K : segs[j].who = "agent" =>
          \E u \in K : u < j /\ segs[u] = Side("user", segs[j].turn)
=============================================================================
