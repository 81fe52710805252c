--------------------------- MODULE LivePageProofs ---------------------------
(***************************************************************************)
(* Proofs about LivePage, for any number of utterances, clauses and        *)
(* gestures and whatever the services do: one answer at a time, a          *)
(* conversation that stays paired, and no clip left in the queue.          *)
(***************************************************************************)
EXTENDS LivePage, SequenceTheorems, TLAPS

LineType == [role : {"user", "assistant"}, turn : Turns]
TurnType == [st : {"none", "streaming", "polling", "over"},
             out : BOOLEAN, rest : BOOLEAN, clauses : 0 .. MaxClauses]

\* What appending a line to a paired history does.
LEMMA AppendPaired ==
    ASSUME history \in Seq(LineType), HistoryPaired, NEW line \in LineType,
           history' = Append(history, line),
           line.role = "assistant" =>
               history # <<>> /\ history[Len(history)] = Line("user", line.turn)
    PROVE  /\ history' \in Seq(LineType) /\ HistoryPaired'
           /\ history' # <<>> /\ history'[Len(history')] = line
  <1>1. /\ Len(history) \in Nat /\ DOMAIN history = 1 .. Len(history)
        /\ Len(history') = Len(history) + 1 /\ DOMAIN history' = 1 .. Len(history) + 1
        /\ \A i \in 1 .. Len(history) : history'[i] = history[i]
        /\ history'[Len(history) + 1] = line
    BY SMT
  <1>2. history' \in Seq(LineType)
    BY SMT
  <1>3. ASSUME NEW i \in DOMAIN history', history'[i].role = "assistant"
        PROVE  i > 1 /\ history'[i - 1] = Line("user", history'[i].turn)
    <2>1. CASE i \in DOMAIN history
      <3>1. history'[i] = history[i]
        BY <1>1, <2>1
      <3>2. i > 1 /\ history[i - 1] = Line("user", history[i].turn)
        BY <1>3, <2>1, <3>1 DEF HistoryPaired
      <3>3. history'[i - 1] = history[i - 1]
        BY <1>1, <2>1, <3>2, SMT
      <3> QED
        BY <3>1, <3>2, <3>3
    <2>2. CASE i = Len(history) + 1
      <3>1. history # <<>> /\ history[Len(history)] = Line("user", line.turn)
        BY <1>1, <1>3, <2>2
      <3>2. Len(history) # 0
        BY <3>1, EmptySeq
      <3>3. i > 1 /\ i - 1 = Len(history) /\ Len(history) \in 1 .. Len(history)
        BY <1>1, <2>2, <3>2, SMT
      <3>4. history'[i - 1] = history[Len(history)] /\ history'[i] = line
        BY <1>1, <2>2, <3>3
      <3> QED
        BY <3>1, <3>3, <3>4
    <2> QED
      BY <1>1, <2>1, <2>2, SMT
  <1> QED
    BY <1>1, <1>2, <1>3, SMT DEF HistoryPaired

-----------------------------------------------------------------------------
(* The invariant in two halves that share no variable: who is answered,    *)
(* and what is spoken; the microphone and its recogniser are the rest.     *)

TurnInv ==
    /\ busy \in BOOLEAN /\ turnNo \in 0 .. MaxTurns
    /\ turn \in [Turns -> TurnType] /\ history \in Seq(LineType)
    /\ OneAnswerAtATime /\ HistoryPaired /\ QuestionIsLast
    /\ \A n \in Turns : n > turnNo => turn[n].st = "none"

VoiceInv ==
    /\ ttsBusy \in BOOLEAN /\ timers \in Nat
    /\ ttsQueue \in Seq(Clips) /\ drains \subseteq [clip : Clips, at : {"fetch", "play"}]
    /\ NoClipForgotten /\ (ttsBusy => drains # {})

EarInv ==
    /\ mic \in {"idle", "listening", "thinking", "speaking"} /\ listening \in BOOLEAN
    /\ opening \in Nat /\ stt \in Nat /\ taps \in 0 .. MaxTaps
    /\ turnNo + stt <= MaxTurns

LEMMA Halves == LiveInv <=> TurnInv /\ VoiceInv /\ EarInv
  BY DEF LiveInv, TypeOK, TurnInv, VoiceInv, EarInv, TurnType, LineType

LEMMA TurnSame == TurnInv /\ UNCHANGED turnVars => TurnInv'
  BY DEF TurnInv, turnVars, OneAnswerAtATime, UnderWay, HistoryPaired, QuestionIsLast, Streaming

LEMMA VoiceSame == VoiceInv /\ UNCHANGED voiceVars => VoiceInv'
  BY DEF VoiceInv, voiceVars, NoClipForgotten

-----------------------------------------------------------------------------
(* The queue.                                                              *)

LEMMA Stopped ==
    ASSUME VoiceInv, ttsQueue' = <<>>, ttsBusy' = FALSE, drains' = drains, timers' \in Nat
    PROVE  VoiceInv'
  BY EmptySeq DEF VoiceInv, NoClipForgotten

LEMMA SpeakKeeps ==
    ASSUME VoiceInv, NEW clip \in Clips, Speak(clip)
    PROVE  VoiceInv'
  <1>1. CASE ttsBusy
    <2>1. Append(ttsQueue, clip) \in Seq(Clips)
      BY DEF VoiceInv
    <2> QED
      BY <1>1, <2>1 DEF Speak, VoiceInv, NoClipForgotten
  <1>2. CASE ~ttsBusy
    <2>0. ttsQueue = <<>>
      BY <1>2 DEF VoiceInv, NoClipForgotten
    <2>1. Append(ttsQueue, clip) = <<clip>>
      BY <2>0, SMT
    <2>2. Head(Append(ttsQueue, clip)) = clip /\ Tail(Append(ttsQueue, clip)) = <<>>
      BY <2>1
    <2>3. Drain(clip) \in [clip : Clips, at : {"fetch", "play"}]
      BY DEF Drain
    <2>4. ttsBusy' = TRUE /\ ttsQueue' = <<>> /\ drains' = drains \cup {Drain(clip)}
                                             /\ timers' = timers
      BY <1>2, <2>2 DEF Speak
    <2> QED
      BY <2>3, <2>4, EmptySeq DEF VoiceInv, NoClipForgotten
  <1> QED
    BY <1>1, <1>2

LEMMA DrainKeeps ==
    ASSUME VoiceInv, NEW d \in drains, DrainEnds(d)
    PROVE  VoiceInv' /\ mic' \in {mic, "idle"}
  <1>1. CASE ttsQueue # <<>>
    <2>1. Head(ttsQueue) \in Clips /\ Tail(ttsQueue) \in Seq(Clips)
      BY <1>1, HeadTailProperties DEF VoiceInv
    <2>2. Drain(Head(ttsQueue)) \in [clip : Clips, at : {"fetch", "play"}]
      BY <2>1 DEF Drain
    <2> QED
      BY <1>1, <2>1, <2>2 DEF DrainEnds, VoiceInv, NoClipForgotten
  <1>2. CASE ttsQueue = <<>>
    <2>1. /\ ttsBusy' = FALSE /\ ttsQueue' = <<>> /\ drains' = drains \ {d}
          /\ mic' = "idle" /\ timers' = timers + 1
      BY <1>2 DEF DrainEnds
    <2>2. timers' \in Nat
      BY <2>1, SMT DEF VoiceInv
    <2> QED
      BY <2>1, <2>2, EmptySeq DEF VoiceInv, NoClipForgotten
  <1> QED
    BY <1>1, <1>2

-----------------------------------------------------------------------------
(* The turns.                                                              *)

\* One turn goes on with its answer.
LEMMA GoesOn ==
    ASSUME TurnInv, NEW n \in Turns, Streaming(n),
           turn' \in [Turns -> TurnType], turn'[n].st = "streaming",
           \A m \in Turns : m # n => turn'[m] = turn[m],
           UNCHANGED <<busy, turnNo, history>>
    PROVE  TurnInv'
  <1>1. \A m \in Turns : turn'[m].st = turn[m].st
    BY DEF Streaming
  <1> QED
    BY <1>1 DEF TurnInv, OneAnswerAtATime, UnderWay, HistoryPaired, QuestionIsLast, Streaming

LEMMA Begins ==
    ASSUME TurnInv, HandleInput, busy \/ turnNo < MaxTurns
    PROVE  /\ TurnInv' /\ turnNo' \in {turnNo, turnNo + 1}
           /\ turnNo' = turnNo + 1 => turnNo < MaxTurns
           /\ mic' \in {mic, "thinking"}
  <1>1. CASE busy
    BY <1>1, TurnSame DEF HandleInput, TurnInv, turnVars
  <1>2. CASE ~busy
    <2>1. turnNo' = turnNo + 1 /\ turnNo' \in Turns /\ turnNo' \in 0 .. MaxTurns
      BY <1>2, LiveAssumption, SMT DEF HandleInput, Turns, TurnInv
    <2>2. UnderWay = {}
      BY <1>2 DEF TurnInv, OneAnswerAtATime
    <2>3. /\ turn' \in [Turns -> TurnType] /\ turn'[turnNo'].st = "streaming"
          /\ \A m \in Turns : m # turnNo' => turn'[m] = turn[m]
      <3>1. turn' = [turn EXCEPT ![turnNo'].st = "streaming"]
        BY <1>2 DEF HandleInput
      <3>2. ASSUME NEW k \in Turns, turn' = [turn EXCEPT ![k].st = "streaming"]
            PROVE  /\ turn' \in [Turns -> TurnType] /\ turn'[k].st = "streaming"
                   /\ \A m \in Turns : m # k => turn'[m] = turn[m]
        BY <3>2, SMT DEF TurnInv, TurnType
      <3> QED
        BY <2>1, <3>1, <3>2
    <2>4. Line("user", turnNo') \in LineType /\ Line("user", turnNo').role # "assistant"
      BY <2>1 DEF Line, LineType
    <2>5. /\ history' \in Seq(LineType) /\ HistoryPaired'
          /\ history' # <<>> /\ history'[Len(history')] = Line("user", turnNo')
      BY <1>2, <2>4, AppendPaired DEF HandleInput, TurnInv
    <2>6. UnderWay' = {turnNo'} /\ busy' = TRUE
      BY <1>2, <2>1, <2>2, <2>3 DEF UnderWay, HandleInput
    <2>7. QuestionIsLast'
      <3>1. \A m \in Turns : Streaming(m)' => m = turnNo'
        BY <2>6 DEF Streaming, UnderWay
      <3> QED
        BY <2>5, <3>1 DEF QuestionIsLast
    <2>8. \A m \in Turns : m > turnNo' => turn'[m].st = "none"
      <3>1. ASSUME NEW m \in Turns, m > turnNo'
            PROVE  m > turnNo /\ m # turnNo'
        BY <2>1, <3>1, SMT DEF Turns, TurnInv
      <3> QED
        BY <2>3, <3>1 DEF TurnInv
    <2> QED
      BY <1>2, <2>1, <2>3, <2>5, <2>6, <2>7, <2>8
         DEF TurnInv, OneAnswerAtATime, HandleInput
  <1> QED
    BY <1>1, <1>2

\* The turn under way is over, so none is.
LEMMA IsOver ==
    ASSUME TurnInv, NEW n \in Turns, n \in UnderWay, busy' = FALSE,
           turn' = [turn EXCEPT ![n].st = "over"], UNCHANGED <<turnNo, history>>
    PROVE  TurnInv'
  <1>1. /\ turn' \in [Turns -> TurnType] /\ turn'[n].st = "over"
        /\ \A m \in Turns : m # n => turn'[m] = turn[m]
    BY SMTT(30) DEF TurnInv, TurnType
  <1>2. UnderWay' = {}
    BY <1>1 DEF TurnInv, OneAnswerAtATime, UnderWay
  <1>3. QuestionIsLast'
    BY <1>2 DEF QuestionIsLast, Streaming, UnderWay
  <1>4. \A m \in Turns : m > turnNo => turn'[m].st = "none"
    <2>1. turn[n].st # "none"
      BY DEF UnderWay
    <2> QED
      BY <1>1, <2>1 DEF TurnInv
  <1> QED
    BY <1>1, <1>2, <1>3, <1>4 DEF TurnInv, OneAnswerAtATime, HistoryPaired

LEMMA ConcludeKeeps ==
    ASSUME TurnInv, VoiceInv, NEW n \in Turns, Streaming(n),
           NEW out, NEW quiet, Conclude(n, out, quiet), turnNo' = turnNo
    PROVE  TurnInv' /\ VoiceInv' /\ mic' \in {quiet, "idle"}
  <1>1. VoiceInv'
    <2>1. <<n, turn[n].clauses + 1>> \in Clips
      BY LiveAssumption, SMT DEF Clips, TurnInv, TurnType
    <2> QED
      BY <2>1, SpeakKeeps, VoiceSame DEF Conclude
  <1>2. n \in UnderWay
    BY DEF Streaming, UnderWay
  <1>3. CASE ~out
    BY <1>1, <1>2, <1>3, IsOver DEF Conclude
  <1>4. CASE out
    <2>1. /\ turn' = [turn EXCEPT ![n].st = "polling"] /\ busy' = busy /\ mic' = quiet
          /\ history' = Append(history, Line("assistant", n))
      BY <1>4 DEF Conclude
    <2>2. /\ turn' \in [Turns -> TurnType] /\ turn'[n].st = "polling"
          /\ \A m \in Turns : m # n => turn'[m] = turn[m]
      <3>1. turn \in [Turns -> TurnType] /\ turn' = [turn EXCEPT ![n].st = "polling"]
        BY <2>1 DEF TurnInv
      <3> HIDE <2>1
      <3> QED
        BY <3>1, SMT DEF TurnType
    <2>3. UnderWay' = UnderWay
      BY <1>2, <2>2 DEF UnderWay
    <2>4. Line("assistant", n) \in LineType /\ Line("assistant", n).turn = n
      BY DEF Line, LineType
    <2>5. history # <<>> /\ history[Len(history)] = Line("user", n)
      BY DEF TurnInv, QuestionIsLast
    <2>6. history' \in Seq(LineType) /\ HistoryPaired'
      BY <2>1, <2>4, <2>5, AppendPaired DEF TurnInv
    <2>7. QuestionIsLast'
      <3>1. \A m \in Turns : ~Streaming(m)'
        BY <1>2, <2>2 DEF TurnInv, OneAnswerAtATime, UnderWay, Streaming
      <3> QED
        BY <3>1 DEF QuestionIsLast
    <2>8. \A m \in Turns : m > turnNo => turn'[m].st = "none"
      BY <1>2, <2>2 DEF TurnInv, UnderWay
    <2> QED
      BY <1>1, <2>1, <2>2, <2>3, <2>6, <2>7, <2>8 DEF TurnInv, OneAnswerAtATime
  <1> QED
    BY <1>3, <1>4

-----------------------------------------------------------------------------
LEMMA InvInit == Init => LiveInv
  <1> SUFFICES ASSUME Init PROVE TurnInv /\ VoiceInv /\ EarInv
    BY Halves
  <1>1. turn \in [Turns -> TurnType]
    BY LiveAssumption, SMT DEF Init, Unborn, TurnType
  <1>2. \A n \in Turns : turn[n].st = "none"
    BY DEF Init, Unborn
  <1>3. UnderWay = {}
    BY <1>2 DEF UnderWay
  <1>4. history \in Seq(LineType) /\ DOMAIN history = {}
    BY EmptySeq, SMT DEF Init
  <1>5. HistoryPaired /\ QuestionIsLast
    BY <1>2, <1>4 DEF HistoryPaired, QuestionIsLast, Streaming
  <1>6. turnNo \in 0 .. MaxTurns /\ EarInv
    <2>1. MaxTurns \in Nat /\ MaxTaps \in Nat
      BY LiveAssumption
    <2>2. 0 \in 0 .. MaxTurns /\ 0 \in 0 .. MaxTaps /\ 0 + 0 <= MaxTurns /\ 0 \in Nat
      BY <2>1, SMT
    <2> QED
      BY <2>2 DEF Init, EarInv
  <1>7. VoiceInv
    BY EmptySeq DEF Init, VoiceInv, NoClipForgotten
  <1> QED
    BY <1>1, <1>2, <1>3, <1>4, <1>5, <1>6, <1>7 DEF TurnInv, OneAnswerAtATime, Init

LEMMA InvStep == LiveInv /\ [Next]_vars => LiveInv'
  <1> SUFFICES ASSUME TurnInv, VoiceInv, EarInv, [Next]_vars
               PROVE  TurnInv' /\ VoiceInv' /\ EarInv'
    <2>1. LiveInv' <=> TurnInv' /\ VoiceInv' /\ EarInv'
      BY Halves, PTL
    <2> QED
      BY <2>1, Halves
  <1> DEFINE Kept == TurnInv' /\ VoiceInv' /\ EarInv'
  <1>1. CASE UNCHANGED vars
    BY <1>1, TurnSame, VoiceSame DEF vars, earVars, turnVars, EarInv
  <1>2. ASSUME MicGranted \/ MicDenied \/ Silence PROVE Kept
    <2>1. UNCHANGED <<turnVars, voiceVars>>
      BY <1>2 DEF MicGranted, MicDenied, Silence
    <2>2. EarInv'
      <3>1. CASE MicGranted
        BY <3>1, SMT DEF MicGranted, EarInv, turnVars
      <3>2. CASE MicDenied
        BY <3>2, SMT DEF MicDenied, EarInv, turnVars
      <3>3. CASE Silence
        <4>1. stt' \in Nat /\ turnNo' + stt' <= MaxTurns
          BY <3>3, LiveAssumption, SMT
             DEF Silence, StopListen, Speakable, EarInv, turnVars, TurnInv
        <4> QED
          BY <3>3, <4>1 DEF Silence, StopListen, EarInv
      <3> QED
        BY <1>2, <3>1, <3>2, <3>3
    <2> QED
      BY <2>1, <2>2, TurnSame, VoiceSame
  <1>3. ASSUME Recognised \/ SendTyped PROVE Kept
    <2>1. UNCHANGED voiceVars /\ HandleInput /\ turnNo < MaxTurns
      BY <1>3, LiveAssumption, SMT DEF Recognised, SendTyped, Speakable, EarInv, earVars, TurnInv
    <2>2. /\ TurnInv' /\ turnNo' \in {turnNo, turnNo + 1} /\ mic' \in {mic, "thinking"}
      BY <2>1, Begins
    <2>3. EarInv'
      BY <1>3, <2>2, LiveAssumption, SMT
         DEF Recognised, SendTyped, Gesture, Speakable, EarInv, earVars, TurnInv
    <2> QED
      BY <2>1, <2>2, <2>3, VoiceSame
  <1>4. ASSUME NothingRecognised PROVE Kept
    <2>1. UNCHANGED <<turnVars, voiceVars>>
      BY <1>4 DEF NothingRecognised
    <2>2. EarInv'
      BY <1>4, LiveAssumption, SMT DEF NothingRecognised, EarInv, turnVars, TurnInv
    <2> QED
      BY <2>1, <2>2, TurnSame, VoiceSame
  <1>5. ASSUME NEW d \in drains, ClipStarts(d) \/ ClipEnds(d) \/ ClipFails(d) PROVE Kept
    <2>1. CASE ClipStarts(d)
      <3>1. [d EXCEPT !.at = "play"] \in [clip : Clips, at : {"fetch", "play"}]
        BY SMT DEF VoiceInv
      <3>2. VoiceInv'
        BY <2>1, <3>1 DEF ClipStarts, VoiceInv, NoClipForgotten
      <3> QED
        BY <2>1, <3>2, TurnSame DEF ClipStarts, EarInv, earVars, turnVars
    <2>2. CASE ClipEnds(d) \/ ClipFails(d)
      <3>1. VoiceInv' /\ mic' \in {mic, "idle"}
        BY <2>2, DrainKeeps DEF ClipEnds, ClipFails
      <3> QED
        BY <2>2, <3>1, TurnSame DEF ClipEnds, ClipFails, EarInv, earVars, turnVars
    <2> QED
      BY <1>5, <2>1, <2>2
  <1>6. ASSUME TimerFires PROVE Kept
    <2>1. timers' \in Nat /\ opening' \in Nat
      BY <1>6, SMT DEF TimerFires, VoiceInv, EarInv, earVars
    <2>2. VoiceInv'
      BY <1>6, <2>1, Stopped DEF TimerFires, VoiceInv, NoClipForgotten
    <2> QED
      BY <1>6, <2>1, <2>2, TurnSame DEF TimerFires, EarInv, earVars, turnVars
  <1>7. ASSUME TapListening PROVE Kept
    <2>1. EarInv'
      <3>1. taps' \in 0 .. MaxTaps
        BY <1>7, LiveAssumption, SMT DEF TapListening, Gesture, EarInv
      <3>2. turnNo' = turnNo
        BY <1>7 DEF TapListening, turnVars
      <3>3. CASE Speakable /\ StopListen
        <4>1. stt' \in Nat /\ turnNo' + stt' <= MaxTurns
          BY <3>2, <3>3, LiveAssumption, SMT DEF StopListen, Speakable, EarInv, TurnInv
        <4> QED
          BY <3>1, <3>3, <4>1 DEF StopListen, EarInv
      <3>4. CASE listening' = FALSE /\ mic' = "idle" /\ UNCHANGED <<opening, stt>>
        BY <3>1, <3>2, <3>4 DEF EarInv
      <3> QED
        BY <1>7, <3>3, <3>4 DEF TapListening
    <2> QED
      BY <1>7, <2>1, TurnSame, VoiceSame DEF TapListening
  <1>8. ASSUME TapSpeaking \/ TapIdle PROVE Kept
    <2>1. taps' \in 0 .. MaxTaps
      BY <1>8, LiveAssumption, SMT DEF TapSpeaking, TapIdle, Gesture, EarInv
    <2>2. VoiceInv'
      BY <1>8, Stopped, VoiceSame
         DEF TapSpeaking, TapIdle, StopSpeaking, StartListen, VoiceInv
    <2>3. opening' \in Nat
      BY <1>8, SMT DEF TapSpeaking, TapIdle, StartListen, EarInv, earVars
    <2> QED
      BY <1>8, <2>1, <2>2, <2>3, TurnSame
         DEF TapSpeaking, TapIdle, StartListen, EarInv, earVars, turnVars
  <1>9. ASSUME TapThinking PROVE Kept
    <2>1. taps' \in 0 .. MaxTaps
      BY <1>9, LiveAssumption, SMT DEF TapThinking, Gesture, EarInv
    <2>2. CASE \E n \in Turns : Streaming(n) /\ Conclude(n, turn[n].out, "idle")
      <3>1. TurnInv' /\ VoiceInv' /\ mic' = "idle"
        BY <1>9, <2>2, ConcludeKeeps DEF TapThinking
      <3> QED
        BY <1>9, <2>1, <3>1 DEF TapThinking, EarInv, earVars
    <2>3. CASE mic' = "idle" /\ UNCHANGED <<busy, turn, history, voiceVars>>
      BY <1>9, <2>1, <2>3, TurnSame, VoiceSame DEF TapThinking, EarInv, earVars, turnVars
    <2> QED
      BY <1>9, <2>2, <2>3 DEF TapThinking
  <1>10. ASSUME NEW n \in Turns, Clause(n) \/ Token(n) PROVE Kept
    <2>1. Streaming(n) /\ UNCHANGED <<mic, earVars, busy, turnNo, history, taps>>
      BY <1>10 DEF Clause, Token
    <2>2. /\ turn' \in [Turns -> TurnType] /\ turn'[n].st = "streaming"
          /\ \A m \in Turns : m # n => turn'[m] = turn[m]
      <3>1. turn \in [Turns -> TurnType] /\ turn[n].st = "streaming"
        BY <2>1 DEF TurnInv, Streaming
      <3>2. CASE Clause(n)
        <4>1. PICK rest \in BOOLEAN :
                  turn' = [turn EXCEPT ![n] = [st |-> "streaming", out |-> TRUE, rest |-> rest,
                                               clauses |-> @.clauses + 1]]
          BY <3>2 DEF Clause
        <4>2. turn[n].clauses + 1 \in 0 .. MaxClauses
          BY <3>1, <3>2, LiveAssumption, SMT DEF Clause, TurnType
        <4> QED
          BY <3>1, <4>1, <4>2, SMT DEF TurnType
      <3>3. CASE Token(n)
        BY <3>1, <3>3, SMT DEF Token, TurnType
      <3> QED
        BY <1>10, <3>2, <3>3
    <2>3. VoiceInv'
      <3>1. CASE Clause(n)
        <4>1. <<n, turn[n].clauses + 1>> \in Clips
          BY LiveAssumption, SMT DEF Clips, TurnInv, TurnType
        <4> QED
          BY <3>1, <4>1, SpeakKeeps DEF Clause
      <3>2. CASE Token(n)
        BY <3>2, VoiceSame DEF Token
      <3> QED
        BY <1>10, <3>1, <3>2
    <2> QED
      BY <2>1, <2>2, <2>3, GoesOn DEF EarInv, earVars
  <1>11. ASSUME NEW n \in Turns, StreamEnds(n) \/ StreamFails(n) PROVE Kept
    <2>1. PICK out \in {TRUE, turn[n].out} : Conclude(n, out, mic)
      BY <1>11 DEF StreamEnds, StreamFails
    <2>2. TurnInv' /\ VoiceInv' /\ mic' \in {mic, "idle"}
      BY <1>11, <2>1, ConcludeKeeps DEF StreamEnds, StreamFails
    <2> QED
      BY <1>11, <2>2 DEF StreamEnds, StreamFails, EarInv, earVars
  <1>12. ASSUME NEW n \in Turns, PollEnds(n) PROVE Kept
    <2>1. n \in UnderWay
      BY <1>12 DEF PollEnds, UnderWay
    <2>2. TurnInv'
      BY <1>12, <2>1, IsOver DEF PollEnds
    <2> QED
      BY <1>12, <2>2, VoiceSame DEF PollEnds, EarInv, earVars
  <1> QED
    BY <1>1, <1>2, <1>3, <1>4, <1>5, <1>6, <1>7, <1>8, <1>9, <1>10, <1>11, <1>12
       DEF Next, Voice, Person, Answering

\* The inductive invariant of the page holds of every behaviour.
THEOREM LivePageInvariant == Spec => []LiveInv
  BY InvInit, InvStep, PTL DEF Spec

\* busy is up exactly while one answer is under way.
THEOREM OneAnswer == Spec => []OneAnswerAtATime
  BY LivePageInvariant, PTL DEF LiveInv

\* Every answer in the history follows its own question.
THEOREM LiveHistoryPaired == Spec => []HistoryPaired
  BY LivePageInvariant, PTL DEF LiveInv

\* A clip in the queue has somebody to play it.
THEOREM ClipsPlayed == Spec => []NoClipForgotten
  BY LivePageInvariant, PTL DEF LiveInv
=============================================================================
