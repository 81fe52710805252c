-------------------------- MODULE CallSystemProofs --------------------------
(***************************************************************************)
(* Proofs about CallSystem, for any number of calls, turns and sentences,  *)
(* and any network: the inductive invariant SystemInv, which says that one *)
(* turn holds the page, and what follows from it; and then what the server *)
(* keeps of a call, its history and its recording, written by turns that   *)
(* the page may have given up: TurnInv says where the server is with a     *)
(* turn, HistoryInv and SegmentInv what it has written.                    *)
(***************************************************************************)
EXTENDS CallSystem, FiniteSetTheorems, TLAPS

\* Facts about the constants that every step uses.
LEMMA Ids ==
    /\ MaxCalls \in Nat /\ MaxPosts \in Nat
    /\ MaxChunks \in Nat /\ MAX_TURNS \in Nat \ {0}
    /\ Calls \cup {0} = 0 .. MaxCalls
    /\ Calls \subseteq Nat /\ Turns \subseteq Nat
  BY NamesAssumption, ServerAssumption, SMT DEF Calls, Turns

\* The window of the history is a part of the history.
LEMMA TrimmedType ==
    ASSUME NEW S, NEW s \in Seq(S)
    PROVE  Trimmed(s) \in Seq(S)
  BY Ids, SMT DEF Trimmed

LEMMA InitInv == SystemInit => SystemInv
  <1> SUFFICES ASSUME SystemInit PROVE SystemInv
    OBVIOUS
  <1> USE DEF SystemInit, ServerInit, CallPageInit
  <1>1. ServerTypeOK
    BY Ids, SMT DEF ServerTypeOK, TurnType, TurnPC, AtWork, SideType
  <1>2. CallPageTypeOK
    <2>1. 0 \in Calls \cup {0} /\ 0 \in Nat
      BY SMT
    <2>2. flight \in [Turns -> FlightType]
      BY <2>1, Zenon DEF FlightType
    <2>3. orphans \in Nat /\ opened \in 0 .. MaxCalls /\ posted \in 0 .. MaxPosts
      BY Ids, SMT
    <2> QED
      BY <2>1, <2>2, <2>3, Zenon DEF CallPageTypeOK, RecorderType, Starting
  <1>3. PageInv
    BY SMT DEF PageInv, Held, InFlight
  <1>4. StreamInv
    BY SMT DEF StreamInv
  <1> QED
    BY <1>1, <1>2, <1>3, <1>4 DEF SystemInv, SystemTypeOK

-----------------------------------------------------------------------------
(* Types.                                                                  *)

\* Turning the detector on again keeps the types of the microphone's side.
LEMMA ResumeTypes ==
    ASSUME CallPageTypeOK, Resume
    PROVE  /\ live' \in BOOLEAN /\ busy' \in BOOLEAN /\ speaking' \in BOOLEAN
           /\ rec' \in RecorderType /\ orphans' \in Nat
  <1>1. live \in BOOLEAN /\ rec \in RecorderType /\ orphans \in Nat
    BY Zenon DEF CallPageTypeOK
  <1>2. live' \in BOOLEAN /\ busy' \in BOOLEAN /\ speaking' \in BOOLEAN
    BY <1>1, Zenon DEF Resume
  <1>3. rec' \in RecorderType /\ orphans' \in Nat
    BY <1>1, SMT DEF Resume, ArmRecorder, RecorderType
  <1> QED
    BY <1>2, <1>3

\* Every step of the page keeps its types.
LEMMA PageTypes ==
    ASSUME SystemInv,
           \/ User \/ Setup \/ RecorderStops
           \/ \E n \in Turns :
                 \/ FetchFails(n) \/ Responded(n) \/ ReadSkip(n)
                 \/ ReadChunk(n) \/ ReadEnd(n) \/ ReadBreaks(n) \/ Play(n)
    PROVE  CallPageTypeOK'
  <1> USE Ids DEF SystemInv, SystemTypeOK, CallPageTypeOK, RecorderType, Starting
  <1>1. CASE User
    <2>1. CASE StartCall
      <3>1. opened' \in 0 .. MaxCalls
        BY <2>1, SMT DEF StartCall
      <3> QED
        BY <2>1, <3>1, Zenon DEF StartCall, micVars, turnVars
    <2>2. CASE EndCall
      <3>1. rec' \in RecorderType /\ orphans' \in Nat
        BY <2>2, SMT DEF EndCall
      <3> QED
        BY <2>2, <3>1, Zenon DEF EndCall, turnVars
    <2>3. CASE LoopHears
      BY <2>3, Zenon DEF LoopHears, callVars, turnVars
    <2>4. CASE LoopPauses
      BY <2>4, Zenon DEF LoopPauses, callVars, turnVars
    <2> QED
      BY <1>1, <2>1, <2>2, <2>3, <2>4 DEF User
  <1>2. CASE Setup
    <2>1. CASE MicGranted \/ StartFails
      BY <2>1, Zenon DEF MicGranted, StartFails, micVars, turnVars
    <2>2. CASE (CallOpened /\ UNCHANGED micVars) \/ (CallOpened /\ GoLive) \/ ContextResumed
      <3>1. call' \in Calls \cup {0} /\ ctx' \in Calls \cup {0}
        BY <2>2, Zenon DEF CallOpened, ContextResumed
      <3>2. rec' \in RecorderType /\ orphans' \in Nat
        BY <2>2, SMT DEF ContextResumed, GoLive, ArmRecorder, micVars
      <3>3. live' \in BOOLEAN /\ busy' \in BOOLEAN /\ speaking' \in BOOLEAN
        BY <2>2, Zenon DEF ContextResumed, GoLive, micVars
      <3> QED
        BY <2>2, <3>1, <3>2, <3>3, Zenon DEF CallOpened, ContextResumed, turnVars
    <2> QED
      BY <1>2, <2>1, <2>2, Zenon DEF Setup, CallOpened
  <1>3. CASE RecorderStops
    <2>1. CASE live /\ SendTurn /\ rec' = "off"
      <3>1. posted + 1 \in Turns
        BY <2>1, SMT DEF SendTurn, Turns
      <3>2. flight' \in [Turns -> FlightType]
        BY <2>1, <3>1, SMT DEF SendTurn, FlightType
      <3> QED
        BY <1>3, <2>1, <3>2, SMT DEF SendTurn, RecorderStops, callVars
    <2>2. CASE live /\ Resume /\ UNCHANGED turnVars
      BY <1>3, <2>2, ResumeTypes, SMT DEF RecorderStops, callVars, turnVars
    <2>3. CASE /\ ~live /\ rec' = "off"
               /\ UNCHANGED <<live, busy, speaking, orphans, turnVars>>
      BY <1>3, <2>3, SMT DEF RecorderStops, callVars, turnVars
    <2> QED
      BY <1>3, <2>1, <2>2, <2>3 DEF RecorderStops
  <1>4. ASSUME NEW n \in Turns, FetchFails(n) \/ ReadSkip(n) \/ AllPlayed(n)
        PROVE  CallPageTypeOK'
    <2>1. flight' \in [Turns -> FlightType]
      BY <1>4, SMT DEF FetchFails, ReadSkip, AllPlayed, Leave, FlightType
    <2> QED
      BY <1>4, <2>1, ResumeTypes, SMT DEF FetchFails, ReadSkip, AllPlayed, callVars
  <1>5. ASSUME NEW n \in Turns, Responded(n) \/ ReadEnd(n) \/ ReadBreaks(n)
        PROVE  CallPageTypeOK'
    <2>1. flight' \in [Turns -> FlightType]
      BY <1>5, SMT DEF Responded, ReadEnd, ReadBreaks, Leave, FlightType
    <2> QED
      BY <1>5, <2>1, SMT DEF Responded, ReadEnd, ReadBreaks, micVars, callVars
  <1>6. ASSUME NEW n \in Turns, ReadChunk(n) \/ ClipRejected(n) \/ ClipEnds(n)
        PROVE  CallPageTypeOK'
    <2>1. flight' \in [Turns -> FlightType]
      BY <1>6, SMT DEF ReadChunk, ClipRejected, ClipEnds, FlightType, StreamInv
    <2> QED
      BY <1>6, <2>1, SMT DEF ReadChunk, ClipRejected, ClipEnds, micVars, callVars
  <1>7. ASSUME NEW n \in Turns, ClipStarts(n)
        PROVE  CallPageTypeOK'
    <2>1. flight' \in [Turns -> FlightType] /\ flight[n].call \in Calls \cup {0}
      BY <1>7, ZenonT(30) DEF ClipStarts, FlightType
    <2>2. heardIn' \subseteq [of : Calls \cup {0}, in : Calls]
      BY <1>7, <2>1, SMT DEF ClipStarts
    <2> QED
      BY <1>7, <2>1, <2>2, SMT DEF ClipStarts, micVars, callVars
  <1> QED
    BY <1>1, <1>2, <1>3, <1>4, <1>5, <1>6, <1>7 DEF Play

\* A turn of the server moves on within its type.
LEMMA TurnTypes ==
    ASSUME turn \in [Turns -> TurnType], NEW n \in Turns, NEW pc \in TurnPC,
           Proceed(n, pc)
    PROVE  turn' \in [Turns -> TurnType]
  BY SMT DEF Proceed, TurnType

\* A turn gets its call, and its clips are counted, within its type.
LEMMA PostTypes ==
    ASSUME turn \in [Turns -> TurnType], NEW n \in Turns,
           "asr" \in TurnPC, NEW c \in Calls \cup {0}, Post(n, c)
    PROVE  turn' \in [Turns -> TurnType]
  BY Ids, SMT DEF Post, TurnType

LEMMA ClipTypes ==
    ASSUME turn \in [Turns -> TurnType], NEW n \in Turns,
           NEW pc \in TurnPC, NEW k \in 0 .. MaxChunks,
           turn' = [turn EXCEPT ![n].pc = pc, ![n].clips = k]
    PROVE  turn' \in [Turns -> TurnType]
  BY Zenon DEF TurnType

\* Every step of the server keeps its types.
LEMMA ServerTypes ==
    ASSUME ServerTypeOK, NEW n \in Turns,
           \/ Work(n) \/ Cancelled(n)
           \/ \E c \in Calls \cup {0} : Post(n, c)
    PROVE  ServerTypeOK'
  <1> USE DEF ServerTypeOK
  <1>a. {"asr", "heard", "llm", "tts", "over"} \subseteq TurnPC
    BY DEF TurnPC, AtWork
  <1>c. "asr" \in TurnPC /\ "tts" \in TurnPC /\ "over" \in TurnPC
    BY <1>a
  <1>b. Side("user", n) \in SideType /\ Side("agent", n) \in SideType
    BY SMT DEF Side, SideType
  <1>1. ASSUME NEW c \in Calls \cup {0}, Post(n, c)
        PROVE  ServerTypeOK'
    <2>1. turn' \in [Turns -> TurnType]
      BY <1>1, <1>c, PostTypes, Zenon
    <2> QED
      BY <1>1, <2>1, Zenon DEF Post
  <1>2. CASE Skip(n)
    <2>1. turn' \in [Turns -> TurnType]
      BY <1>2, <1>a, TurnTypes, SMT DEF Skip
    <2>2. stream' \in [Turns -> Seq({"skip", "chunk"})]
      BY <1>2, SMT DEF Skip
    <2> QED
      BY <1>2, <2>1, <2>2, SMT DEF Skip
  <1>3. CASE Heard(n) \/ TurnFails(n) \/ Cancelled(n)
    <2>1. turn' \in [Turns -> TurnType]
      BY <1>3, <1>a, TurnTypes, SMT DEF Heard, TurnFails, Cancelled
    <2> QED
      BY <1>3, <2>1, SMT DEF Heard, TurnFails, Cancelled
  <1>4. CASE Remember(n)
    <2>1. turn' \in [Turns -> TurnType]
      BY <1>4, <1>a, TurnTypes, SMT DEF Remember
    <2>2. ASSUME NEW c \in Calls
          PROVE  Trimmed(Append(history[c], Side("user", n))) \in Seq(SideType)
      <3>1. Append(history[c], Side("user", n)) \in Seq(SideType)
        BY <1>b, SMT
      <3> QED
        BY <3>1, TrimmedType, Zenon
    <2>3. history' \in [Calls -> Seq(SideType)]
      BY <1>4, <2>2, Zenon DEF Remember
    <2>4. \A c \in Calls : Append(segments[c], Side("user", n)) \in Seq(SideType)
      BY <1>b, SMT
    <2>5. segments' \in [Calls -> Seq(SideType)]
      BY <1>4, <2>4, Zenon DEF Remember
    <2> QED
      BY <1>4, <2>1, <2>3, <2>5, Zenon DEF Remember
  <1>5. CASE Answered(n)
    <2>1. turn' \in [Turns -> TurnType]
      BY <1>5, <1>a, TurnTypes, SMT DEF Answered
    <2>2. \A c \in Calls : Append(history[c], Side("agent", n)) \in Seq(SideType)
      BY <1>b, SMT
    <2>3. history' \in [Calls -> Seq(SideType)]
      BY <1>5, <2>2, Zenon DEF Answered
    <2> QED
      BY <1>5, <2>1, <2>3 DEF Answered
  <1>6. CASE ChunkSpoken(n)
    <2>1. turn' \in [Turns -> TurnType]
      <3>1. turn[n].clips + 1 \in 0 .. MaxChunks
        BY <1>6, Ids, SMT DEF ChunkSpoken, TurnType
      <3>2. PICK pc \in TurnPC :
                turn' = [turn EXCEPT ![n].pc = pc, ![n].clips = turn[n].clips + 1]
        BY <1>6, <1>c, Zenon DEF ChunkSpoken
      <3> QED
        BY <3>1, <3>2, ClipTypes, Zenon
    <2>4. \A c \in Calls : Append(segments[c], Side("agent", n)) \in Seq(SideType)
      BY <1>b, SMT
    <2>2. segments' \in [Calls -> Seq(SideType)]
      BY <1>6, <2>4, Zenon DEF ChunkSpoken
    <2>3. stream' \in [Turns -> Seq({"skip", "chunk"})]
      BY <1>6, SMT DEF ChunkSpoken
    <2> QED
      BY <1>6, <2>1, <2>2, <2>3, Zenon DEF ChunkSpoken
  <1> QED
    BY <1>1, <1>2, <1>3, <1>4, <1>5, <1>6 DEF Work

-----------------------------------------------------------------------------
(* Who holds the detector.                                                 *)

\* When the one turn that is held is left, or none is, the detector may come on
\* again.
LEMMA ResumeKeeps ==
    ASSUME SystemInv, Resume, UNCHANGED callVars,
           \A m \in Turns : ~Held(m)',
           live => starting = "no"
    PROVE  PageInv'
  BY SMT DEF SystemInv, PageInv, Resume, ArmRecorder, callVars

LEMMA LeaveHolds ==
    ASSUME CallPageTypeOK, NEW n \in Turns, NEW pc \in {"over", "failed", "broken", "waiting", "reading"},
           Leave(n, pc)
    PROVE  /\ \A m \in Turns \ {n} : Held(m)' <=> Held(m)
           /\ Held(n)' <=> pc \notin {"over", "failed"}
  BY SMT DEF CallPageTypeOK, FlightType, Leave, Held, InFlight

LEMMA PageKeeps ==
    ASSUME SystemInv,
           \/ User \/ Setup \/ RecorderStops
           \/ \E n \in Turns :
                 \/ FetchFails(n) \/ Responded(n) \/ ReadSkip(n)
                 \/ ReadChunk(n) \/ ReadEnd(n) \/ ReadBreaks(n) \/ Play(n)
    PROVE  PageInv'
  <1> USE DEF SystemInv, SystemTypeOK
  <1>a. ASSUME flight' = flight
        PROVE  \A n \in Turns : Held(n)' <=> Held(n)
    BY <1>a DEF Held, InFlight
  <1>b. live => starting = "no"
    BY DEF PageInv
  <1>1. CASE User
    <2>1. flight' = flight
      BY <1>1 DEF User, StartCall, EndCall, LoopHears, LoopPauses, turnVars
    <2> QED
      BY <1>1, <1>a, <2>1, SMT
         DEF User, StartCall, EndCall, LoopHears, LoopPauses, micVars, callVars, PageInv
  <1>2. CASE Setup
    <2>1. flight' = flight
      BY <1>2 DEF Setup, MicGranted, StartFails, CallOpened, ContextResumed, turnVars
    <2> QED
      BY <1>2, <1>a, <2>1, SMT
         DEF Setup, MicGranted, StartFails, CallOpened, ContextResumed, GoLive,
             ArmRecorder, micVars, callVars, PageInv
  <1>3. CASE RecorderStops
    <2>1. CASE live /\ SendTurn /\ rec' = "off"
      <3>1. \A m \in Turns : ~Held(m)
        BY <1>3, <2>1, SMT DEF RecorderStops, PageInv
      <3>2. \A m \in Turns : Held(m)' => m = posted + 1
        BY <2>1, <3>1, SMT DEF SendTurn, Held, InFlight, CallPageTypeOK, FlightType
      <3> QED
        BY <1>3, <1>b, <2>1, <3>2, SMT DEF RecorderStops, SendTurn, callVars, PageInv
    <2>2. CASE live /\ Resume /\ UNCHANGED turnVars
      <3>1. \A m \in Turns : ~Held(m)'
        BY <1>3, <1>a, <2>2, SMT DEF RecorderStops, turnVars, PageInv
      <3> QED
        BY <1>3, <1>b, <2>2, <3>1, ResumeKeeps DEF RecorderStops
    <2>3. CASE /\ ~live /\ rec' = "off"
               /\ UNCHANGED <<live, busy, speaking, orphans, turnVars>>
      <3>1. flight' = flight
        BY <2>3 DEF turnVars
      <3> QED
        BY <1>3, <1>a, <2>3, <3>1, SMT DEF RecorderStops, callVars, PageInv
    <2> QED
      BY <1>3, <2>1, <2>2, <2>3 DEF RecorderStops
  <1>4. ASSUME NEW n \in Turns, FetchFails(n) \/ ReadSkip(n) \/ AllPlayed(n)
        PROVE  PageInv'
    <2>1. PICK pc \in {"over", "failed"} : Leave(n, pc)
      BY <1>4 DEF FetchFails, ReadSkip, AllPlayed
    <2>a. Resume /\ UNCHANGED callVars /\ Held(n)
      BY <1>4 DEF FetchFails, ReadSkip, AllPlayed, Held, InFlight
    <2>2. \A m \in Turns : ~Held(m)'
      BY <2>1, <2>a, LeaveHolds, SMT DEF PageInv
    <2> QED
      BY <1>b, <2>a, <2>2, ResumeKeeps
  <1>5. ASSUME NEW n \in Turns, Responded(n) \/ ReadEnd(n) \/ ReadBreaks(n)
        PROVE  PageInv'
    <2>1. PICK pc \in {"broken", "waiting", "reading"} : Leave(n, pc)
      BY <1>5 DEF Responded, ReadEnd, ReadBreaks
    <2>2. Held(n) /\ UNCHANGED <<micVars, callVars>>
      BY <1>5 DEF Responded, ReadEnd, ReadBreaks, Held, InFlight
    <2>3. \A m \in Turns : Held(m)' => Held(m)
      BY <2>1, <2>2, LeaveHolds, SMT
    <2> QED
      BY <2>2, <2>3, SMT DEF PageInv, micVars, callVars
  <1>6. ASSUME NEW n \in Turns,
               ReadChunk(n) \/ ClipStarts(n) \/ ClipEnds(n) \/ ClipRejected(n)
        PROVE  PageInv'
    <2>1. \A m \in Turns : Held(m)' => Held(m)
      BY <1>6, SMT DEF ReadChunk, ClipStarts, ClipEnds, ClipRejected, Held, InFlight,
                       CallPageTypeOK, FlightType
    <2>2. UNCHANGED <<micVars, callVars>>
      BY <1>6 DEF ReadChunk, ClipStarts, ClipEnds, ClipRejected
    <2> QED
      BY <2>1, <2>2, SMT DEF PageInv, micVars, callVars
  <1> QED
    BY <1>1, <1>2, <1>3, <1>4, <1>5, <1>6 DEF Play

-----------------------------------------------------------------------------
(* What the streams hold.                                                  *)

\* The part of StreamInv that is about one turn.
StreamInvOf(n) ==
    /\ flight[n].sounding => flight[n].queue > 0
    /\ flight[n].queue > 0 =>
          /\ flight[n].pc \in {"reading", "waiting", "broken"}
          /\ turn[n].clips > 0
    /\ \A i \in DOMAIN stream[n] :
          IF stream[n][i] = "skip" THEN turn[n].clips = 0 /\ turn[n].pc = "over"
                                   ELSE turn[n].clips > 0
    /\ turn[n].pc \in {"none", "asr", "heard", "llm"} => turn[n].clips = 0

LEMMA PlayStreams ==
    ASSUME SystemInv, UNCHANGED serverVars, NEW n \in Turns,
           \/ FetchFails(n) \/ Responded(n) \/ ReadEnd(n) \/ ReadBreaks(n) \/ Play(n)
    PROVE  StreamInv'
  <1> USE DEF SystemInv, SystemTypeOK, CallPageTypeOK, FlightType, StreamInv, serverVars
  <1>1. CASE FetchFails(n) \/ Responded(n) \/ ReadEnd(n) \/ ReadBreaks(n) \/ AllPlayed(n)
    BY <1>1, SMT DEF FetchFails, Responded, ReadEnd, ReadBreaks, AllPlayed, Leave
  <1>2. CASE ClipStarts(n) \/ ClipRejected(n) \/ ClipEnds(n)
    BY <1>2, SMT DEF ClipStarts, ClipRejected, ClipEnds
  <1> QED
    BY <1>1, <1>2 DEF Play

LEMMA ReadStreams ==
    ASSUME SystemInv, NEW n \in Turns, Read(n)
    PROVE  StreamInv'
  <1> USE DEF SystemInv, SystemTypeOK, CallPageTypeOK, ServerTypeOK, FlightType
  <1>1. CASE /\ stream[n] # <<>> /\ turn' = turn
             /\ stream' = [stream EXCEPT ![n] = Tail(@)]
             /\ \/ Head(stream[n]) = "chunk" /\ ReadChunk(n)
                \/ Head(stream[n]) = "skip" /\ ReadSkip(n)
    <2>1. /\ stream[n] \in Seq({"skip", "chunk"})
          /\ stream'[n] = Tail(stream[n])
          /\ \A m \in Turns \ {n} : stream'[m] = stream[m]
      BY <1>1, SMT
    <2>2. \A i \in DOMAIN stream'[n] :
             i + 1 \in DOMAIN stream[n] /\ stream'[n][i] = stream[n][i + 1]
      BY <1>1, <2>1, SMT
    <2>3. 1 \in DOMAIN stream[n] /\ Head(stream[n]) = stream[n][1]
      BY <1>1, <2>1, SMT
    <2>4. \A m \in Turns \ {n} : StreamInvOf(m)'
      BY <1>1, <2>1, SMTT(30) DEF ReadChunk, ReadSkip, Leave, StreamInv, StreamInvOf
    <2>5. StreamInvOf(n)'
      <3>1. StreamInvOf(n)
        BY DEF StreamInv, StreamInvOf
      <3>2. CASE Head(stream[n]) = "chunk" /\ ReadChunk(n)
        <4>1. turn[n].clips > 0
          BY <2>3, <3>1, <3>2, SMT DEF StreamInvOf
        <4>2. /\ flight'[n].queue = flight[n].queue + 1
              /\ flight'[n].pc = "reading" /\ flight'[n].sounding = flight[n].sounding
          BY <3>2, SMT DEF ReadChunk
        <4> QED
          BY <1>1, <2>2, <3>1, <4>1, <4>2, SMT DEF StreamInvOf
      <3>3. CASE Head(stream[n]) = "skip" /\ ReadSkip(n)
        <4>1. turn[n].clips = 0
          BY <2>3, <3>1, <3>3, SMT DEF StreamInvOf
        <4>2. flight'[n].queue = flight[n].queue /\ flight'[n].sounding = flight[n].sounding
          BY <3>3, SMT DEF ReadSkip, Leave
        <4> QED
          BY <1>1, <2>2, <3>1, <4>1, <4>2, SMT DEF StreamInvOf
      <3> QED
        BY <1>1, <3>2, <3>3
    <2> QED
      BY <2>4, <2>5 DEF StreamInv, StreamInvOf
  <1>2. CASE PageStep(ReadEnd(n))
    BY <1>2, PlayStreams DEF PageStep
  <1> QED
    BY <1>1, <1>2 DEF Read

LEMMA ServerStreams ==
    ASSUME SystemInv, UNCHANGED callPageVars, NEW n \in Turns,
           \/ Work(n) \/ Cancelled(n) \/ \E c \in Calls \cup {0} : Post(n, c)
    PROVE  StreamInv'
  <1> USE DEF SystemInv, SystemTypeOK, CallPageTypeOK, ServerTypeOK, TurnType,
              callPageVars, turnVars
  <1>1. CASE Skip(n)
    <2>1. /\ \A m \in Turns \ {n} : stream'[m] = stream[m] /\ turn'[m] = turn[m]
          /\ stream'[n] = Append(stream[n], "skip")
          /\ turn'[n].clips = turn[n].clips /\ turn'[n].pc = "over"
      BY <1>1, SMT DEF Skip, Proceed
    <2>2. turn[n].clips = 0
      BY <1>1, SMT DEF Skip, StreamInv
    <2>3. \A i \in DOMAIN stream'[n] :
             \/ i \in DOMAIN stream[n] /\ stream'[n][i] = stream[n][i]
             \/ stream'[n][i] = "skip"
      BY <2>1, SMT
    <2>4. \A m \in Turns \ {n} : StreamInvOf(m)'
      BY <2>1, SMT DEF StreamInv, StreamInvOf
    <2>5. StreamInvOf(n)'
      BY <2>1, <2>2, <2>3, SMT DEF StreamInv, StreamInvOf
    <2> QED
      BY <2>4, <2>5 DEF StreamInv, StreamInvOf
  <1>2. CASE ChunkSpoken(n)
    <2>1. /\ \A m \in Turns \ {n} : stream'[m] = stream[m] /\ turn'[m] = turn[m]
          /\ stream'[n] = Append(stream[n], "chunk")
          /\ turn'[n].clips = turn[n].clips + 1 /\ turn'[n].pc \in {"tts", "over"}
      BY <1>2, SMT DEF ChunkSpoken
    <2>2. turn[n].clips \in Nat /\ turn[n].pc = "tts"
      BY <1>2, Ids, SMT DEF ChunkSpoken
    <2>3. \A i \in DOMAIN stream'[n] : stream'[n][i] # "skip"
      BY <2>1, <2>2, SMT DEF StreamInv
    <2>4. \A m \in Turns \ {n} : StreamInvOf(m)'
      BY <2>1, SMT DEF StreamInv, StreamInvOf
    <2>5. StreamInvOf(n)'
      <3>1. turn'[n].clips > 0 /\ flight'[n] = flight[n] /\ StreamInvOf(n)
        BY <2>1, <2>2, SMT DEF StreamInv, StreamInvOf
      <3>2. turn'[n].pc \notin {"none", "asr", "heard", "llm"}
        BY <2>1
      <3> QED
        BY <2>3, <3>1, <3>2, Zenon DEF StreamInvOf
    <2> QED
      BY <2>4, <2>5 DEF StreamInv, StreamInvOf
  <1>3. ASSUME NEW c \in Calls \cup {0}, Post(n, c)
        PROVE  StreamInv'
    <2>1. stream' = stream /\ flight' = flight /\ turn[n].pc = "none"
      BY <1>3 DEF Post
    <2>2. turn[n].clips = 0
      BY <2>1, Zenon DEF StreamInv
    <2>3. \A m \in Turns : /\ turn'[m].clips = turn[m].clips
                           /\ turn'[m].pc = "over" <=> turn[m].pc = "over"
                           /\ m # n => turn'[m] = turn[m]
      BY <1>3, <2>1, <2>2, SMT DEF Post
    <2> QED
      BY <2>1, <2>3, <2>2, ZenonT(30) DEF StreamInv
  <1>4. CASE Heard(n) \/ Remember(n) \/ Answered(n) \/ TurnFails(n) \/ Cancelled(n)
    <2>1. PICK pc \in {"heard", "llm", "tts", "over"} : Proceed(n, pc)
      BY <1>4 DEF Heard, Remember, Answered, TurnFails, Cancelled
    <2>2. stream' = stream /\ turn[n].pc \in {"asr", "heard", "llm", "tts"}
      BY <1>4, SMT DEF Heard, Remember, Answered, TurnFails, Cancelled, AtWork
    <2>3. turn[n].pc \in {"asr", "heard", "llm"} \/ pc = "over"
      BY <1>4, <2>1, SMT DEF Heard, Remember, Answered, TurnFails, Cancelled, Proceed
    <2> QED
      BY <2>1, <2>2, <2>3, SMT DEF Proceed, StreamInv
  <1> QED
    BY <1>1, <1>2, <1>3, <1>4 DEF Work

LEMMA RecorderStreams ==
    ASSUME SystemInv, RecorderStops, UNCHANGED serverVars
    PROVE  StreamInv'
  <1> USE DEF SystemInv, SystemTypeOK, CallPageTypeOK, FlightType, serverVars
  <1>1. CASE flight' = flight
    BY <1>1, SMT DEF StreamInv
  <1>2. CASE live /\ SendTurn
    <2>1. posted + 1 \in Turns
      BY <1>2, Ids, SMT DEF SendTurn, Turns
    <2>2. flight[posted + 1].queue = 0
      BY <1>2, <2>1, SMT DEF RecorderStops, PageInv, StreamInv, Held, InFlight
    <2> QED
      BY <1>2, <2>1, <2>2, SMT DEF SendTurn, StreamInv
  <1> QED
    BY <1>1, <1>2 DEF RecorderStops, turnVars

-----------------------------------------------------------------------------
(* The invariant.                                                          *)

LEMMA NextInv == SystemInv /\ [SystemNext]_systemVars => SystemInv'
  <1> SUFFICES ASSUME SystemInv, [SystemNext]_systemVars PROVE SystemInv'
    OBVIOUS
  <1>a. ASSUME UNCHANGED systemVars
        PROVE  SystemInv'
    BY <1>a, Zenon DEF systemVars, serverVars, callPageVars, micVars, callVars, turnVars,
       SystemInv, SystemTypeOK, ServerTypeOK, CallPageTypeOK, PageInv, StreamInv,
       Held, InFlight
  <1>b. ASSUME UNCHANGED serverVars
        PROVE  ServerTypeOK'
    BY <1>b DEF serverVars, ServerTypeOK, SystemInv, SystemTypeOK
  <1>c. ASSUME UNCHANGED callPageVars
        PROVE  CallPageTypeOK' /\ PageInv'
    BY <1>c, Zenon DEF callPageVars, micVars, callVars, turnVars, CallPageTypeOK, PageInv,
       Held, InFlight, SystemInv, SystemTypeOK
  <1>1. CASE PageStep(User) \/ PageStep(Setup)
    <2>1. flight' = flight /\ UNCHANGED serverVars
      BY <1>1 DEF PageStep, User, Setup, StartCall, EndCall, LoopHears, LoopPauses,
         MicGranted, StartFails, CallOpened, ContextResumed, turnVars
    <2>2. StreamInv'
      BY <2>1, Zenon DEF StreamInv, serverVars, SystemInv
    <2> QED
      BY <1>1, <1>b, <2>2, PageTypes, PageKeeps DEF PageStep, SystemInv, SystemTypeOK
  <1>2. CASE PageStep(RecorderStops)
    BY <1>2, <1>b, PageTypes, PageKeeps, RecorderStreams
       DEF PageStep, SystemInv, SystemTypeOK
  <1>3. ASSUME NEW n \in Turns,
               \/ Unreachable(n) \/ ResponseLost(n) \/ Response(n)
               \/ StreamBreaks(n) \/ PageStep(Play(n))
        PROVE  SystemInv'
    <2>1. /\ UNCHANGED serverVars
          /\ FetchFails(n) \/ Responded(n) \/ ReadBreaks(n) \/ Play(n)
      BY <1>3 DEF Unreachable, ResponseLost, Response, StreamBreaks, PageStep
    <2> QED
      BY <2>1, <1>b, PageTypes, PageKeeps, PlayStreams DEF SystemInv, SystemTypeOK
  <1>4. ASSUME NEW n \in Turns, Read(n)
        PROVE  SystemInv'
    <2>1. ReadChunk(n) \/ ReadSkip(n) \/ ReadEnd(n)
      BY <1>4 DEF Read, PageStep
    <2>2. \A m \in Turns : Tail(stream[m]) \in Seq({"skip", "chunk"}) \/ stream[m] = <<>>
      BY SMT DEF SystemInv, SystemTypeOK, ServerTypeOK
    <2>3. stream' \in [Turns -> Seq({"skip", "chunk"})]
      BY <1>4, <2>2, Zenon
         DEF Read, PageStep, serverVars, SystemInv, SystemTypeOK, ServerTypeOK
    <2>4. ServerTypeOK'
      BY <1>4, <2>3, Zenon
         DEF Read, PageStep, serverVars, ServerTypeOK, SystemInv, SystemTypeOK
    <2> QED
      BY <1>4, <2>1, <2>4, PageTypes, PageKeeps, ReadStreams DEF SystemInv, SystemTypeOK
  <1>5. ASSUME NEW n \in Turns, Serve(n) \/ Noticed(n) \/ Request(n)
        PROVE  SystemInv'
    <2>1. UNCHANGED callPageVars
      BY <1>5 DEF Serve, Noticed, Request
    <2>2. flight[n].call \in Calls \cup {0}
      BY Zenon DEF SystemInv, SystemTypeOK, CallPageTypeOK, FlightType
    <2>3. Work(n) \/ Cancelled(n) \/ \E c \in Calls \cup {0} : Post(n, c)
      BY <1>5, <2>2 DEF Serve, Noticed, Request
    <2> QED
      BY <1>c, <2>1, <2>3, ServerTypes, ServerStreams DEF SystemInv, SystemTypeOK
  <1> QED
    BY <1>a, <1>1, <1>2, <1>3, <1>4, <1>5 DEF SystemNext, AtRest

\* SystemInv holds throughout every call, on any network: the page's detector
\* and recorder, the one turn that holds them, and the stream it reads.
THEOREM SystemInvariant == SystemSpec => []SystemInv
  <1>1. SystemInit => SystemInv
    BY InitInv
  <1>2. SystemInv /\ [SystemNext]_systemVars => SystemInv'
    BY NextInv
  <1> QED
    BY <1>1, <1>2, PTL DEF SystemSpec

\* The page has one turn under way at most, also when a turn outlives its call.
THEOREM OneTurn == SystemSpec => []OneTurnAtATime
  <1>1. SystemInv => OneTurnAtATime
    BY Zenon DEF SystemInv, PageInv, OneTurnAtATime, Held
  <1> QED
    BY <1>1, SystemInvariant, PTL

\* The agent's voice is never taken for the caller's.
THEOREM NoSelfHearing == SystemSpec => []NoEcho
  <1>1. SystemInv => NoEcho
    BY Zenon DEF SystemInv, PageInv, StreamInv, NoEcho, Held, InFlight
  <1> QED
    BY <1>1, SystemInvariant, PTL

\* Whenever the detector is on, a recorder runs.
THEOREM ListeningRecords == SystemSpec => []ListeningIsRecording
  <1>1. SystemInv => ListeningIsRecording
    BY Zenon DEF SystemInv, PageInv, ListeningIsRecording
  <1> QED
    BY <1>1, SystemInvariant, PTL

-----------------------------------------------------------------------------
(* What the server keeps of a call.                                        *)

\* The server's turn and the page's agree on the call, and a turn whose stream
\* the page has read to its end is over at the server.
StreamIsWhole ==
    \A n \in Turns :
        /\ turn[n].pc # "none" => turn[n].call = flight[n].call
        /\ flight[n].pc = "waiting" => turn[n].pc = "over" /\ stream[n] = <<>>

\* The turn that holds the page is the latest.  A turn belongs to a call that
\* was opened, at the page and at the server; the server has received what the
\* page reads, and is done with what the page has read.
TurnInv ==
    /\ \A n \in Turns : n <= posted <=> flight[n].pc # "none"
    /\ \A n \in Turns : Held(n) => n = posted
    /\ \A n \in Turns : flight[n].pc # "none" => flight[n].call \in 1 .. call
    /\ \A n \in Turns : flight[n].pc = "none" => turn[n].pc = "none" /\ flight[n].call = 0
    /\ \A n \in Turns : flight[n].pc = "over" => turn[n].pc = "over"
    /\ \A n \in Turns : flight[n].pc \in {"reading", "waiting", "broken"} => turn[n].pc # "none"
    /\ StreamIsWhole

\* Where the recorder and the setting up of a call are.  Of a turn that holds
\* the page while a recorder runs, the call is over.
RecorderInv ==
    /\ call <= opened
    /\ starting \in {"mic", "fetch"} => call < opened
    /\ live \/ starting = "resume" => call >= 1
    /\ rec = "on" => live
    /\ rec = "on" \/ starting = "resume" =>
          \A n \in Turns : Held(n) => flight[n].call < call

\* An answer is in the history only once the LLM has given it, and the question
\* of a turn that waits for the LLM is there if anything is that was kept.
HistoryInv ==
    /\ \A c \in Calls : \A i \in DOMAIN history[c] :
          /\ history[c][i].turn <= posted
          /\ turn[history[c][i].turn].pc \in {"llm", "tts", "over"}
          /\ history[c][i].who = "agent" => turn[history[c][i].turn].pc # "llm"
    /\ \A n \in Turns :
          turn[n].pc = "llm" /\ flight[n].pc # "failed" /\ Kept(history[CallOf(n)]) # {} =>
             \E i \in DOMAIN history[CallOf(n)] : history[CallOf(n)][i] = Side("user", n)
    /\ CallHistoryPaired

\* What a turn says is in the recording after what it was asked.
SegmentInv ==
    /\ \A c \in Calls : \A i \in DOMAIN segments[c] :
          /\ segments[c][i].turn <= posted
          /\ turn[segments[c][i].turn].pc \in {"llm", "tts", "over"}
    /\ \A n \in Turns :
          turn[n].pc \in {"llm", "tts"} =>
             \E i \in DOMAIN segments[CallOf(n)] : segments[CallOf(n)][i] = Side("user", n)
    /\ SpokenOrder

\* Turns whose answer is still to be added to the history: but for failed ones
\* there is one at most.
Asking(c) == {n \in Turns : turn[n].pc = "llm" /\ turn[n].call = c}

LengthInv ==
    \A c \in Calls :
        Len(history[c]) + Cardinality(Asking(c)) <= MAX_TURNS + 1 + Cardinality(Failed(c))

-----------------------------------------------------------------------------
LEMMA InitRecords == SystemInit => TurnInv /\ RecorderInv /\ HistoryInv /\ SegmentInv
  <1> SUFFICES ASSUME SystemInit
               PROVE  TurnInv /\ RecorderInv /\ HistoryInv /\ SegmentInv
    OBVIOUS
  <1>1. /\ \A n \in Turns : /\ flight[n].pc = "none" /\ flight[n].call = 0
                            /\ turn[n].pc = "none"
        /\ \A c \in Calls : history[c] = <<>> /\ segments[c] = <<>>
        /\ posted = 0 /\ call = 0 /\ opened = 0 /\ starting = "no" /\ ~live /\ rec = "off"
        /\ orphans = 0
    BY SMT DEF SystemInit, ServerInit, CallPageInit
  <1>2. TurnInv
    BY <1>1, Ids, SMT DEF TurnInv, StreamIsWhole, Held, InFlight, Turns
  <1>3. RecorderInv
    BY <1>1, SMT DEF RecorderInv
  <1>4. HistoryInv
    BY <1>1, SMT DEF HistoryInv, CallHistoryPaired, Paired, Kept
  <1>5. SegmentInv
    BY <1>1, SMT DEF SegmentInv, SpokenOrder, InOrder, Kept
  <1> QED
    BY <1>2, <1>3, <1>4, <1>5

-----------------------------------------------------------------------------
(* The turns at the page and at the server.                                *)

\* What every step of sendTurn after its first does to the turns.
LEMMA MovesOn ==
    ASSUME SystemInv, NEW n \in Turns,
           \/ FetchFails(n) \/ Responded(n) \/ ReadSkip(n)
           \/ ReadChunk(n) \/ ReadEnd(n) \/ ReadBreaks(n) \/ Play(n)
    PROVE  /\ posted' = posted /\ UNCHANGED callVars
           /\ Held(n) /\ flight'[n].pc # "none"
           /\ \A m \in Turns : flight'[m].call = flight[m].call
           /\ \A m \in Turns : m # n => flight'[m].pc = flight[m].pc
           /\ \/ UNCHANGED micVars
              \/ Resume /\ flight'[n].pc \in {"failed", "over"}
  <1> USE DEF SystemInv, SystemTypeOK, CallPageTypeOK, FlightType
  <1>1. ASSUME NEW pc, Leave(n, pc)
        PROVE  /\ \A m \in Turns : flight'[m].call = flight[m].call
               /\ \A m \in Turns : m # n => flight'[m].pc = flight[m].pc
               /\ flight'[n].pc = pc
    BY <1>1, SMT DEF Leave
  <1>2. CASE Responded(n) \/ ReadEnd(n) \/ ReadBreaks(n)
    BY <1>1, <1>2, SMT DEF Responded, ReadEnd, ReadBreaks, Held, InFlight
  <1>3. CASE FetchFails(n) \/ ReadSkip(n) \/ AllPlayed(n)
    BY <1>1, <1>3, SMT DEF FetchFails, ReadSkip, AllPlayed, Held, InFlight
  <1>4. CASE ReadChunk(n) \/ ClipStarts(n) \/ ClipEnds(n) \/ ClipRejected(n)
    <2>1. Held(n)
      BY <1>4, SMT DEF ReadChunk, ClipStarts, ClipEnds, ClipRejected, StreamInv, Held, InFlight
    <2>2. /\ \A m \in Turns : flight'[m].call = flight[m].call /\ flight'[m].pc = flight[m].pc
          /\ posted' = posted /\ UNCHANGED callVars /\ UNCHANGED micVars
      BY <1>4, SMT DEF ReadChunk, ClipStarts, ClipEnds, ClipRejected
    <2>3. flight'[n].pc # "none"
      BY <2>1, <2>2, SMT DEF Held, InFlight
    <2> QED
      BY <2>1, <2>2, <2>3
  <1> QED
    BY <1>2, <1>3, <1>4 DEF Play

\* What every step of a turn at the server does to the turns.
LEMMA WorksOn ==
    ASSUME ServerTypeOK, NEW n \in Turns, Work(n) \/ Cancelled(n)
    PROVE  /\ turn[n].pc \in AtWork /\ turn'[n].pc \in AtWork \cup {"over"}
           /\ \A m \in Turns : turn'[m].call = turn[m].call
           /\ \A m \in Turns : m # n => turn'[m] = turn[m] /\ stream'[m] = stream[m]
  <1> USE DEF ServerTypeOK, TurnType
  <1>1. ASSUME NEW pc \in AtWork \cup {"over"}, Proceed(n, pc)
        PROVE  /\ turn'[n].pc \in AtWork \cup {"over"}
               /\ \A m \in Turns : turn'[m].call = turn[m].call
               /\ \A m \in Turns : m # n => turn'[m] = turn[m]
    BY <1>1, SMT DEF Proceed
  <1>2. {"asr", "heard", "llm", "tts"} = AtWork
    BY DEF AtWork
  <1>3. CASE Skip(n)
    BY <1>1, <1>2, <1>3, SMT DEF Skip
  <1>4. CASE Heard(n) \/ Remember(n) \/ Answered(n) \/ TurnFails(n) \/ Cancelled(n)
    <2>1. turn[n].pc \in AtWork /\ stream' = stream
      BY <1>2, <1>4, SMT DEF Heard, Remember, Answered, TurnFails, Cancelled
    <2>2. PICK pc \in AtWork \cup {"over"} : Proceed(n, pc)
      BY <1>2, <1>4, Zenon DEF Heard, Remember, Answered, TurnFails, Cancelled
    <2> QED
      BY <1>1, <2>1, <2>2
  <1>5. CASE ChunkSpoken(n)
    BY <1>2, <1>5, SMT DEF ChunkSpoken
  <1> QED
    BY <1>3, <1>4, <1>5 DEF Work

\* A turn at work that the page has not given up is the latest.
LEMMA WorkIsLatest ==
    ASSUME SystemInv, TurnInv, NEW n \in Turns, turn[n].pc \in AtWork,
           flight[n].pc # "failed"
    PROVE  Held(n) /\ n = posted
  <1>1. flight[n].pc \in {"none", "fetch", "reading", "waiting", "failed", "broken", "over"}
    BY Zenon DEF SystemInv, SystemTypeOK, CallPageTypeOK, FlightType
  <1>2. flight[n].pc # "none" /\ flight[n].pc # "over"
    BY SMT DEF TurnInv, AtWork
  <1> QED
    BY <1>1, <1>2, SMT DEF TurnInv, Held, InFlight

\* Numbers.
LEMMA TurnNumbers ==
    ASSUME SystemInv, TurnInv
    PROVE  /\ posted \in 0 .. MaxPosts /\ call \in Nat /\ opened \in Nat
           /\ \A n \in Turns : n \in Nat /\ flight[n].call \in Nat
           /\ \A n \in Turns : turn[n].pc # "none" => CallOf(n) \in Calls
  <1>1. /\ posted \in 0 .. MaxPosts /\ call \in 0 .. MaxCalls /\ opened \in 0 .. MaxCalls
        /\ \A n \in Turns : n \in Nat
    BY Ids, SMT DEF SystemInv, SystemTypeOK, CallPageTypeOK, Calls
  <1>2. \A n \in Turns : flight[n].call \in Calls \cup {0}
    BY Zenon DEF SystemInv, SystemTypeOK, CallPageTypeOK, FlightType
  <1>3. \A n \in Turns : turn[n].pc # "none" => CallOf(n) \in Calls
    BY <1>1, Ids, SMT DEF TurnInv, StreamIsWhole, CallOf, Calls
  <1>4. call \in Nat /\ opened \in Nat
    BY <1>1, Ids, SMT
  <1>5. \A n \in Turns : flight[n].call \in Nat
    <2>1. \A c \in Calls \cup {0} : c \in Nat
      BY Ids, SMT
    <2> QED
      BY <1>2, <2>1, Zenon
  <1> QED
    BY <1>1, <1>3, <1>4, <1>5

LEMMA PageTurns ==
    ASSUME SystemInv, TurnInv, RecorderInv, UNCHANGED serverVars,
           User \/ Setup \/ RecorderStops
    PROVE  TurnInv'
  <1>1. call \in Nat /\ opened \in Nat
    BY TurnNumbers, Ids, SMT
  <1>2. call <= call'
    BY <1>1, SMT
    DEF User, StartCall, EndCall, LoopHears, LoopPauses, Setup, MicGranted, StartFails,
        CallOpened, ContextResumed, RecorderStops, RecorderInv, callVars
  <1>3. call' \in Nat
    BY <1>1, SMT
    DEF User, StartCall, EndCall, LoopHears, LoopPauses, Setup, MicGranted, StartFails,
        CallOpened, ContextResumed, RecorderStops, RecorderInv, callVars
  <1>4. CASE UNCHANGED <<flight, posted>>
    BY <1>1, <1>2, <1>3, <1>4, SMT
    DEF TurnInv, StreamIsWhole, Held, InFlight, serverVars
  <1>5. CASE RecorderStops /\ live /\ SendTurn
    <2>1. \A m \in Turns : ~Held(m)
      BY <1>5, SMT DEF RecorderStops, SystemInv, PageInv
    <2>2. posted + 1 \in Turns /\ posted \in Nat /\ call' = call /\ call >= 1
      BY <1>5, TurnNumbers, Ids, SMT DEF SendTurn, Turns, RecorderStops, callVars, RecorderInv
    <2>3. /\ posted' = posted + 1
          /\ flight'[posted + 1].pc = "fetch" /\ flight'[posted + 1].call = call
          /\ \A m \in Turns : m # posted + 1 => flight'[m] = flight[m]
      BY <1>5, <2>2, SMT DEF SendTurn, SystemInv, SystemTypeOK, CallPageTypeOK, FlightType
    <2>4. flight[posted + 1].pc = "none" /\ turn[posted + 1].pc = "none"
      BY <2>2, Ids, SMT DEF TurnInv
    <2>5. \A m \in Turns : Held(m)' => m = posted'
      BY <2>1, <2>3, SMT DEF Held, InFlight
    <2>6. \A m \in Turns : m <= posted' <=> flight'[m].pc # "none"
      BY <2>2, <2>3, Ids, SMT DEF TurnInv
    <2> QED
      BY <1>1, <2>2, <2>3, <2>4, <2>5, <2>6, SMT DEF TurnInv, StreamIsWhole, serverVars
  <1> QED
    BY <1>4, <1>5
    DEF User, StartCall, EndCall, LoopHears, LoopPauses, Setup, MicGranted, StartFails,
        CallOpened, ContextResumed, RecorderStops, turnVars

\* The page goes on with a turn.
LEMMA FlightTurns ==
    ASSUME SystemInv, TurnInv, turn' = turn, NEW n \in Turns,
           \A m \in Turns : m # n => stream'[m] = stream[m],
           \/ FetchFails(n) \/ Responded(n) \/ ReadSkip(n)
           \/ ReadChunk(n) \/ ReadEnd(n) \/ ReadBreaks(n) \/ Play(n),
           flight'[n].pc \in {"reading", "waiting", "broken"} => turn[n].pc # "none",
           flight'[n].pc = "waiting" => turn[n].pc = "over" /\ stream'[n] = <<>>,
           flight'[n].pc = "over" => turn[n].pc = "over"
    PROVE  TurnInv'
  <1>1. /\ posted' = posted /\ call' = call
        /\ \A m \in Turns : flight'[m].call = flight[m].call
        /\ \A m \in Turns : m # n => flight'[m].pc = flight[m].pc
    BY MovesOn DEF callVars
  <1>2. Held(n) /\ n = posted /\ flight[n].pc # "none" /\ flight'[n].pc # "none"
    BY MovesOn, SMT DEF TurnInv, Held, InFlight
  <1>3. \A m \in Turns : Held(m)' => m = posted'
    BY <1>1, <1>2, SMT DEF TurnInv, Held, InFlight
  <1>4. StreamIsWhole'
    BY <1>1, SMT DEF TurnInv, StreamIsWhole
  <1> QED
    BY <1>1, <1>2, <1>3, <1>4, SMT DEF TurnInv

\* The server receives a turn, or goes on with one.
LEMMA ServerTurns ==
    ASSUME SystemInv, TurnInv, UNCHANGED callPageVars, NEW n \in Turns,
           \/ Work(n) \/ Cancelled(n)
           \/ flight[n].pc = "fetch" /\ Post(n, flight[n].call)
    PROVE  TurnInv'
  <1>1. UNCHANGED <<flight, posted, call>>
    BY DEF callPageVars, callVars, turnVars
  <1>2. CASE Work(n) \/ Cancelled(n)
    <2>1. /\ turn[n].pc \in AtWork /\ turn'[n].pc \in AtWork \cup {"over"}
          /\ \A m \in Turns : turn'[m].call = turn[m].call
          /\ \A m \in Turns : m # n => turn'[m] = turn[m] /\ stream'[m] = stream[m]
      BY <1>2, WorksOn DEF SystemInv, SystemTypeOK
    <2>2. "none" \notin AtWork /\ "over" \notin AtWork
      BY SMT DEF AtWork
    <2>3. turn[n].pc # "none" /\ turn'[n].pc # "none" /\ turn[n].pc # "over"
      BY <2>1, <2>2, SMT
    <2> QED
      BY <1>1, <2>1, <2>3, SMT DEF TurnInv, StreamIsWhole, Held, InFlight
  <1>3. CASE flight[n].pc = "fetch" /\ Post(n, flight[n].call)
    <2>1. /\ turn[n].pc = "none" /\ stream' = stream
          /\ turn'[n].pc = "asr" /\ turn'[n].call = flight[n].call
          /\ \A m \in Turns : m # n => turn'[m] = turn[m]
      BY <1>3, SMT DEF Post, SystemInv, SystemTypeOK, ServerTypeOK, TurnType
    <2> QED
      BY <1>1, <1>3, <2>1, SMT DEF TurnInv, StreamIsWhole, Held, InFlight
  <1> QED
    BY <1>2, <1>3

LEMMA ReadTurns ==
    ASSUME SystemInv, TurnInv, NEW n \in Turns, Read(n)
    PROVE  TurnInv'
  <1>1. turn' = turn
    BY DEF Read, PageStep, serverVars
  <1>2. \A m \in Turns : m # n => stream'[m] = stream[m]
    BY SMT DEF Read, PageStep, serverVars, SystemInv, SystemTypeOK, ServerTypeOK
  <1> USE DEF SystemInv, SystemTypeOK, CallPageTypeOK, FlightType
  <1>3. CASE ReadChunk(n)
    <2>1. flight[n].pc = "reading" /\ flight'[n].pc = "reading"
      BY <1>3, SMT DEF ReadChunk
    <2>2. turn[n].pc # "none"
      BY <2>1, SMT DEF TurnInv
    <2>3. flight'[n].pc # "waiting" /\ flight'[n].pc # "over"
      BY <2>1
    <2> QED
      BY <1>1, <1>2, <1>3, <2>2, <2>3, FlightTurns, ZenonT(30)
  <1>4. CASE stream[n] # <<>> /\ Head(stream[n]) = "skip" /\ ReadSkip(n)
    <2>1. flight'[n].pc = "over"
      BY <1>4, SMT DEF ReadSkip, Leave
    <2>2. stream[n] \in Seq({"skip", "chunk"})
      BY DEF ServerTypeOK
    <2>3. 1 \in DOMAIN stream[n] /\ stream[n][1] = "skip"
      BY <1>4, <2>2, SMT
    <2>4. turn[n].pc = "over"
      BY <2>3, Zenon DEF StreamInv
    <2> QED
      BY <1>1, <1>2, <1>4, <2>1, <2>4, FlightTurns, SMT
  <1>5. CASE stream[n] = <<>> /\ turn[n].pc = "over" /\ PageStep(ReadEnd(n))
    <2>1. flight'[n].pc = "waiting" /\ stream' = stream
      BY <1>5, SMT DEF ReadEnd, Leave, PageStep, serverVars
    <2> QED
      BY <1>1, <1>2, <1>5, <2>1, FlightTurns, SMT DEF PageStep
  <1> QED
    BY <1>3, <1>4, <1>5 DEF Read

\* Every step of the system keeps the turns.
LEMMA NextTurns ==
    ASSUME SystemInv, TurnInv, RecorderInv, [SystemNext]_systemVars
    PROVE  TurnInv'
  <1>1. CASE UNCHANGED systemVars
    BY <1>1, Zenon DEF systemVars, serverVars, callPageVars, callVars, turnVars, TurnInv,
       StreamIsWhole, Held, InFlight
  <1>2. CASE PageStep(User) \/ PageStep(Setup) \/ PageStep(RecorderStops)
    BY <1>2, PageTurns DEF PageStep
  <1>3. ASSUME NEW n \in Turns,
               \/ Unreachable(n) \/ ResponseLost(n) \/ Response(n)
               \/ StreamBreaks(n) \/ PageStep(Play(n))
        PROVE  TurnInv'
    <2>1. /\ turn' = turn /\ stream' = stream
          /\ FetchFails(n) \/ Responded(n) \/ ReadBreaks(n) \/ Play(n)
      BY <1>3 DEF Unreachable, ResponseLost, Response, StreamBreaks, PageStep, serverVars
    <2>2. CASE FetchFails(n)
      <3>1. flight'[n].pc = "failed"
        BY <2>2, SMT DEF FetchFails, Leave, SystemInv, SystemTypeOK, CallPageTypeOK, FlightType
      <3> QED
        BY <2>1, <2>2, <3>1, FlightTurns, SMT
    <2>3. CASE Responded(n) /\ turn[n].pc # "none"
      <3>1. flight'[n].pc = "reading"
        BY <2>3, SMT DEF Responded, Leave, SystemInv, SystemTypeOK, CallPageTypeOK, FlightType
      <3> QED
        BY <2>1, <2>3, <3>1, FlightTurns, SMT
    <2>4. CASE ReadBreaks(n)
      <3>1. flight[n].pc = "reading" /\ flight'[n].pc = "broken"
        BY <2>4, SMT DEF ReadBreaks, Leave, SystemInv, SystemTypeOK, CallPageTypeOK, FlightType
      <3> QED
        BY <2>1, <2>4, <3>1, FlightTurns, SMT DEF TurnInv
    <2>5. CASE Play(n)
      <3>1. \/ flight'[n].pc = flight[n].pc /\ Held(n)
            \/ flight'[n].pc = "over" /\ flight[n].pc = "waiting"
        BY <2>5, SMT DEF Play, ClipStarts, ClipEnds, ClipRejected, AllPlayed, Leave,
           SystemInv, SystemTypeOK, CallPageTypeOK, FlightType, StreamInv, Held, InFlight
      <3>2. flight'[n].pc \in {"reading", "waiting", "broken"} => turn[n].pc # "none"
        BY <3>1, SMT DEF TurnInv
      <3>3. /\ flight'[n].pc = "waiting" => turn[n].pc = "over" /\ stream'[n] = <<>>
            /\ flight'[n].pc = "over" => turn[n].pc = "over"
        BY <2>1, <3>1, SMT DEF TurnInv, StreamIsWhole
      <3> QED
        BY <2>1, <2>5, <3>2, <3>3, FlightTurns, SMT
    <2> QED
      BY <1>3, <2>2, <2>3, <2>4, <2>5
      DEF Unreachable, ResponseLost, Response, StreamBreaks, PageStep
  <1>4. ASSUME NEW n \in Turns, Serve(n) \/ Noticed(n) \/ Request(n)
        PROVE  TurnInv'
    BY <1>4, ServerTurns DEF Serve, Noticed, Request
  <1> QED
    BY <1>1, <1>2, <1>3, <1>4, ReadTurns DEF SystemNext, AtRest

-----------------------------------------------------------------------------
(* The recorder.                                                           *)

LEMMA PageRecorder ==
    ASSUME SystemInv, TurnInv, RecorderInv, User \/ Setup \/ RecorderStops
    PROVE  RecorderInv'
  <1>1. /\ call \in Nat /\ opened \in Nat
        /\ \A n \in Turns : flight[n].call \in Nat /\ flight[n].call <= call
        /\ starting # "no" => ~live
    <2>1. call \in Nat /\ opened \in Nat /\ \A n \in Turns : flight[n].call \in Nat
      BY TurnNumbers, Ids, SMT
    <2> QED
      BY <2>1, SMT DEF TurnInv, SystemInv, PageInv
  <1>2. CASE UNCHANGED flight
    <2>1. \A n \in Turns : (Held(n)' <=> Held(n)) /\ flight'[n] = flight[n]
      BY <1>2 DEF Held, InFlight
    <2>2. CASE User
      <3>1. call' = call /\ (rec' = "on" => rec = "on")
        BY <2>2, SMT DEF User, StartCall, EndCall, LoopHears, LoopPauses, micVars, callVars
      <3> QED
        BY <1>1, <2>1, <2>2, <3>1, SMT
        DEF User, StartCall, EndCall, LoopHears, LoopPauses, micVars, callVars, RecorderInv
    <2>3. CASE Setup
      <3>1. CASE MicGranted \/ StartFails
        BY <1>1, <2>1, <3>1, SMT DEF MicGranted, StartFails, micVars, RecorderInv
      <3>2. CASE CallOpened
        BY <1>1, <2>1, <3>2, SMT DEF CallOpened, GoLive, ArmRecorder, micVars, RecorderInv
      <3>3. CASE ContextResumed
        BY <1>1, <2>1, <3>3, SMT DEF ContextResumed, GoLive, ArmRecorder, RecorderInv
      <3> QED
        BY <2>3, <3>1, <3>2, <3>3 DEF Setup
    <2>4. CASE RecorderStops
      <3>1. /\ UNCHANGED callVars /\ live' = live
            /\ rec' = "on" => live /\ \A n \in Turns : ~Held(n)
        BY <2>4, SMT DEF RecorderStops, SendTurn, Resume, ArmRecorder, SystemInv, PageInv
      <3> QED
        BY <1>1, <2>1, <3>1, SMT DEF RecorderInv, callVars
    <2> QED
      BY <2>2, <2>3, <2>4
  <1>3. CASE RecorderStops /\ live /\ SendTurn /\ rec' = "off"
    BY <1>1, <1>3, SMT DEF RecorderStops, SendTurn, callVars, RecorderInv
  <1> QED
    BY <1>2, <1>3
    DEF User, StartCall, EndCall, LoopHears, LoopPauses, Setup, MicGranted, StartFails,
        CallOpened, ContextResumed, RecorderStops, turnVars

\* The turn that holds the page goes on, or lets go of it.
LEMMA FlightRecorder ==
    ASSUME SystemInv, TurnInv, RecorderInv, NEW n \in Turns,
           \/ FetchFails(n) \/ Responded(n) \/ ReadSkip(n)
           \/ ReadChunk(n) \/ ReadEnd(n) \/ ReadBreaks(n) \/ Play(n)
    PROVE  RecorderInv'
  <1>1. /\ UNCHANGED callVars /\ Held(n) /\ n = posted
        /\ \A m \in Turns : flight'[m].call = flight[m].call
        /\ \A m \in Turns : Held(m)' => Held(m)
    BY MovesOn, SMT DEF TurnInv, Held, InFlight
  <1>2. call \in Nat /\ \A m \in Turns : flight[m].call \in Nat
    BY TurnNumbers
  <1>3. CASE UNCHANGED micVars
    BY <1>1, <1>2, <1>3, SMT DEF RecorderInv, callVars, micVars
  <1>4. CASE Resume /\ flight'[n].pc \in {"failed", "over"}
    <2>1. \A m \in Turns : ~Held(m)'
      BY <1>1, <1>4, SMT DEF TurnInv, Held, InFlight
    <2>2. (rec' = "on" => live') /\ live' = live
      BY <1>4, SMT DEF Resume, RecorderInv
    <2> QED
      BY <1>1, <1>2, <2>1, <2>2, SMT DEF RecorderInv, callVars
  <1> QED
    BY <1>3, <1>4, MovesOn

LEMMA NextRecorder ==
    ASSUME SystemInv, TurnInv, RecorderInv, [SystemNext]_systemVars
    PROVE  RecorderInv'
  <1>1. CASE UNCHANGED callPageVars
    BY <1>1, Zenon DEF callPageVars, micVars, callVars, turnVars, RecorderInv, Held, InFlight
  <1>2. CASE PageStep(User) \/ PageStep(Setup) \/ PageStep(RecorderStops)
    BY <1>2, PageRecorder DEF PageStep
  <1>3. ASSUME NEW n \in Turns,
               \/ Unreachable(n) \/ ResponseLost(n) \/ Response(n)
               \/ StreamBreaks(n) \/ PageStep(Play(n)) \/ Read(n)
        PROVE  RecorderInv'
    BY <1>3, FlightRecorder
    DEF Unreachable, ResponseLost, Response, StreamBreaks, PageStep, Read
  <1>4. ASSUME NEW n \in Turns, Serve(n) \/ Noticed(n) \/ Request(n)
        PROVE  UNCHANGED callPageVars
    BY <1>4 DEF Serve, Noticed, Request
  <1> QED
    BY <1>1, <1>2, <1>3, <1>4 DEF SystemNext, AtRest, systemVars

\* A recorder is replaced while it runs only by a turn of an earlier call that
\* lets go of the page: of such a turn a running recorder says that its call is
\* over, and while a call is set up none runs.
LEMMA StrayStep ==
    ASSUME SystemInv, TurnInv, RecorderInv, [SystemNext]_systemVars,
           orphans' > orphans
    PROVE  \E n \in Turns : /\ InFlight(n) /\ flight[n].call < call
                            /\ flight'[n].pc \in {"failed", "over"}
  <1>1. orphans \in Nat /\ orphans' # orphans
    BY SMT DEF SystemInv, SystemTypeOK, CallPageTypeOK
  <1>2. CASE UNCHANGED micVars
    BY <1>1, <1>2 DEF micVars
  <1>3. CASE User
    BY <1>1, <1>3, SMT
    DEF User, StartCall, EndCall, LoopHears, LoopPauses, micVars
  <1>4. CASE Setup
    <2>1. starting # "no" => rec # "on"
      BY DEF RecorderInv, SystemInv, PageInv
    <2> QED
      BY <1>1, <1>4, <2>1, SMT
      DEF Setup, MicGranted, StartFails, CallOpened, ContextResumed, GoLive, ArmRecorder,
          micVars
  <1>5. CASE RecorderStops
    BY <1>1, <1>5, SMT DEF RecorderStops, SendTurn, Resume, ArmRecorder
  <1>6. ASSUME NEW n \in Turns,
               \/ FetchFails(n) \/ Responded(n) \/ ReadSkip(n)
               \/ ReadChunk(n) \/ ReadEnd(n) \/ ReadBreaks(n) \/ Play(n)
        PROVE  \E m \in Turns : /\ InFlight(m) /\ flight[m].call < call
                                /\ flight'[m].pc \in {"failed", "over"}
    <2>1. Resume /\ flight'[n].pc \in {"failed", "over"} /\ Held(n)
      BY <1>1, <1>6, MovesOn DEF micVars
    <2>2. rec = "on"
      BY <1>1, <2>1, SMT DEF Resume, ArmRecorder
    <2>3. flight[n].call < call
      BY <2>1, <2>2 DEF RecorderInv
    <2>4. flight[n].pc # "broken"
      BY <1>6, <2>1, SMT
      DEF FetchFails, Responded, ReadSkip, ReadChunk, ReadEnd, ReadBreaks, Play,
          ClipStarts, ClipEnds, ClipRejected, AllPlayed, SystemInv, SystemTypeOK,
          CallPageTypeOK, FlightType
    <2> QED
      BY <2>1, <2>3, <2>4 DEF Held
  <1>7. ASSUME NEW n \in Turns, Serve(n) \/ Noticed(n) \/ Request(n)
        PROVE  UNCHANGED micVars
    BY <1>7 DEF Serve, Noticed, Request, callPageVars
  <1> QED
    BY <1>2, <1>3, <1>4, <1>5, <1>6, <1>7
    DEF SystemNext, AtRest, systemVars, callPageVars, PageStep, Unreachable, ResponseLost,
        Response, StreamBreaks, Read

-----------------------------------------------------------------------------
(* Sequences of lines.                                                     *)

\* The window of a history is what remains of it after its first d lines.
LEMMA TrimmedSuffix ==
    ASSUME NEW s \in Seq(SideType)
    PROVE  \E d \in Nat :
              /\ Len(Trimmed(s)) = Len(s) - d /\ Len(Trimmed(s)) <= MAX_TURNS
              /\ Len(s) >= 1 => d < Len(s)
              /\ \A i \in 1 .. Len(s) - d : Trimmed(s)[i] = s[i + d]
  <1>1. CASE Len(s) <= MAX_TURNS
    <2>1. Trimmed(s) = s
      BY <1>1 DEF Trimmed
    <2>2. /\ 0 \in Nat /\ Len(s) = Len(s) - 0 /\ (Len(s) >= 1 => 0 < Len(s))
          /\ \A i \in 1 .. Len(s) - 0 : i + 0 = i
      BY SMT
    <2> QED
      BY <1>1, <2>1, <2>2, Zenon
  <1>2. CASE Len(s) > MAX_TURNS
    <2> DEFINE d == Len(s) - MAX_TURNS
    <2>1. Trimmed(s) = SubSeq(s, d + 1, Len(s)) /\ d \in Nat
      BY <1>2, Ids, SMT DEF Trimmed
    <2>2. /\ Len(Trimmed(s)) = Len(s) - d
          /\ \A i \in 1 .. Len(s) - d : Trimmed(s)[i] = s[i + d]
      BY <1>2, <2>1, Ids, SMT
    <2>3. Len(Trimmed(s)) <= MAX_TURNS /\ d < Len(s)
      <3>1. Len(s) - d = MAX_TURNS /\ d < Len(s) /\ MAX_TURNS <= MAX_TURNS
        BY <1>2, Ids, SMT
      <3> QED
        BY <2>2, <3>1, Zenon
    <2> HIDE DEF d
    <2> QED
      BY <2>1, <2>2, <2>3, Zenon
  <1> QED
    BY <1>1, <1>2, Ids, SMT

\* What is added to a sequence comes last.
LEMMA AppendLast ==
    ASSUME NEW s \in Seq(SideType), NEW x \in SideType
    PROVE  /\ Append(s, x) \in Seq(SideType) /\ Len(Append(s, x)) = Len(s) + 1
           /\ Append(s, x)[Len(s) + 1] = x
           /\ \A i \in 1 .. Len(s) : Append(s, x)[i] = s[i]
  OBVIOUS

\* A conversation stays one when all lines of some turns are dropped.
LEMMA PairedPart ==
    ASSUME NEW s, NEW K, NEW L \in SUBSET K, Paired(s, K),
           \A i \in K, j \in L : s[i].turn = s[j].turn => i \in L
    PROVE  Paired(s, L)
  <1>1. \A i, j \in L : i < j /\ s[j].who = "agent" =>
           \E u \in K : u < j /\ s[u] = Side("user", s[j].turn)
    BY Zenon DEF Paired
  <1>2. \A u \in K, j \in L : s[u] = Side("user", s[j].turn) => u \in L
    BY SMT DEF Side
  <1> QED
    BY <1>1, <1>2, Zenon DEF Paired

\* The same of the segments of a recording.
LEMMA InOrderPart ==
    ASSUME NEW s, NEW K, NEW L \in SUBSET K, InOrder(s, K),
           \A i \in K, j \in L : s[i].turn = s[j].turn => i \in L
    PROVE  InOrder(s, L)
  <1>1. \A u \in K, j \in L : s[u] = Side("user", s[j].turn) => u \in L
    BY SMT DEF Side
  <1> QED
    BY <1>1, Zenon DEF InOrder

\* A conversation of which the first d lines are cut off is one.  The question
\* of an answer stands next to it, so that a line before the answer is cut off
\* before the question is.
LEMMA PairedSuffix ==
    ASSUME NEW s, NEW K \in SUBSET Nat, Paired(s, K),
           \A i \in K : s[i].turn \in Nat,
           NEW d \in Nat, NEW t, NEW L \in SUBSET (Nat \ {0}),
           \A i \in L : i + d \in K /\ t[i] = s[i + d],
           \A i \in K : i > d => i - d \in L
    PROVE  Paired(t, L)
  <1>1. \A i, j \in L : i < j =>
           \/ t[i].turn < t[j].turn
           \/ t[i] = Side("user", t[j].turn) /\ t[j].who = "agent"
    BY SMT DEF Paired
  <1>2. ASSUME NEW i \in L, NEW j \in L, i < j, t[j].who = "agent"
        PROVE  \E u \in L : u < j /\ t[u] = Side("user", t[j].turn)
    <2>1. i + d \in K /\ j + d \in K /\ i + d < j + d /\ s[j + d].who = "agent"
      BY <1>2, SMT
    <2>2. PICK u \in K : u < j + d /\ s[u] = Side("user", s[j + d].turn)
      BY <2>1, Zenon DEF Paired
    <2>3. ~(u < i + d)
      <3> SUFFICES ASSUME u < i + d PROVE FALSE
        OBVIOUS
      <3>1. /\ \/ s[u].turn < s[i + d].turn
               \/ s[u] = Side("user", s[i + d].turn) /\ s[i + d].who = "agent"
            /\ \/ s[i + d].turn < s[j + d].turn
               \/ s[i + d] = Side("user", s[j + d].turn)
        BY <2>1, <2>2, Zenon DEF Paired
      <3>2. s[u].turn = s[j + d].turn
        BY <2>2, SMT DEF Side
      <3> QED
        BY <2>1, <2>2, <3>1, <3>2, SMT DEF Side
    <2>4. i \in Nat \ {0} /\ j \in Nat /\ u \in Nat
      BY SMT
    <2>5. u > d /\ u - d < j
      BY <2>2, <2>3, <2>4, SMT
    <2>6. u - d \in L /\ t[u - d] = s[u]
      BY <2>4, <2>5, SMT
    <2>7. s[j + d].turn = t[j].turn
      BY Zenon
    <2> QED
      BY <2>2, <2>5, <2>6, <2>7, Zenon
  <1> QED
    BY <1>1, <1>2, Zenon DEF Paired

\* A line is added to a history: one of a turn that failed, a question, or the
\* answer to a question that is still there if any line is.
LEMMA PairedAppend ==
    ASSUME NEW s \in Seq(SideType), NEW K \in SUBSET (1 .. Len(s)), Paired(s, K),
           NEW n \in Turns, NEW who \in {"user", "agent"}
    PROVE  /\ Paired(Append(s, Side(who, n)), K)
           /\ who = "user" /\ (\A i \in K : s[i].turn < n) =>
                 Paired(Append(s, Side(who, n)), K \cup {Len(s) + 1})
           /\ /\ \A i \in K : s[i].turn < n \/ s[i] = Side("user", n)
              /\ K # {} => \E u \in K : s[u] = Side("user", n)
              => Paired(Append(s, Side("agent", n)), K \cup {Len(s) + 1})
  <1> DEFINE new == Len(s) + 1
             U == Append(s, Side(who, n))
             A == Append(s, Side("agent", n))
  <1>1. /\ \A i \in K : U[i] = s[i] /\ A[i] = s[i]
        /\ U[new] = Side(who, n) /\ A[new] = Side("agent", n)
        /\ new \in Nat /\ \A i \in K : i \in Nat /\ i < new
    <2>1. Side(who, n) \in SideType /\ Side("agent", n) \in SideType
      BY SMT DEF Side, SideType
    <2>2. /\ \A i \in 1 .. Len(s) : U[i] = s[i] /\ A[i] = s[i]
          /\ U[new] = Side(who, n) /\ A[new] = Side("agent", n)
      BY <2>1, AppendLast, Zenon
    <2>3. new \in Nat /\ \A i \in K : i \in 1 .. Len(s) /\ i \in Nat /\ i < new
      BY SMT
    <2> QED
      BY <2>2, <2>3
  <1> HIDE DEF new, U, A
  <1>2. Paired(U, K)
    <2>1. \A i, j \in K : i < j => \/ U[i].turn < U[j].turn
                                   \/ U[i] = Side("user", U[j].turn) /\ U[j].who = "agent"
      <3> SUFFICES ASSUME NEW i \in K, NEW j \in K, i < j
                   PROVE  \/ U[i].turn < U[j].turn
                          \/ U[i] = Side("user", U[j].turn) /\ U[j].who = "agent"
        OBVIOUS
      <3>1. U[i] = s[i] /\ U[j] = s[j]
        BY <1>1
      <3> QED
        BY <3>1, Zenon DEF Paired
    <2>2. \A i, j \in K : i < j /\ U[j].who = "agent" =>
             \E u \in K : u < j /\ U[u] = Side("user", U[j].turn)
      <3> SUFFICES ASSUME NEW i \in K, NEW j \in K, i < j, U[j].who = "agent"
                   PROVE  \E u \in K : u < j /\ U[u] = Side("user", U[j].turn)
        OBVIOUS
      <3>1. U[j] = s[j]
        BY <1>1
      <3>2. PICK u \in K : u < j /\ s[u] = Side("user", s[j].turn)
        BY <3>1, Zenon DEF Paired
      <3>3. U[u] = s[u]
        BY <1>1
      <3> QED
        BY <3>1, <3>2, <3>3, Zenon
    <2> QED
      BY <2>1, <2>2, Zenon DEF Paired
  <1>3. ASSUME who = "user", \A i \in K : s[i].turn < n
        PROVE  Paired(U, K \cup {new})
    <2>1. U[new].turn = n /\ U[new].who # "agent"
      BY <1>1, <1>3, SMT DEF Side
    <2> QED
      BY <1>1, <1>2, <1>3, <2>1, SMT DEF Paired
  <1>4. ASSUME \A i \in K : s[i].turn < n \/ s[i] = Side("user", n),
               K # {} => \E u \in K : s[u] = Side("user", n)
        PROVE  Paired(A, K \cup {new})
    <2>1. Paired(A, K)
      BY <1>1, SMT DEF Paired
    <2>2. A[new].turn = n /\ A[new].who = "agent"
      BY <1>1, SMT DEF Side
    <2> QED
      BY <1>1, <1>4, <2>1, <2>2, SMT DEF Paired
  <1> QED
    BY <1>2, <1>3, <1>4 DEF new, U, A

\* The same of the segments of a recording.
LEMMA InOrderAppend ==
    ASSUME NEW s \in Seq(SideType), NEW K \in SUBSET (1 .. Len(s)), InOrder(s, K),
           NEW n \in Turns, NEW who \in {"user", "agent"}
    PROVE  /\ InOrder(Append(s, Side(who, n)), K)
           /\ who = "user" /\ (\A i \in K : s[i].turn < n) =>
                 InOrder(Append(s, Side(who, n)), K \cup {Len(s) + 1})
           /\ /\ who = "agent" /\ \A i \in K : s[i].turn <= n
              /\ \E u \in K : s[u] = Side("user", n)
              => InOrder(Append(s, Side(who, n)), K \cup {Len(s) + 1})
  <1> DEFINE new == Len(s) + 1
             U == Append(s, Side(who, n))
  <1>1. /\ \A i \in K : U[i] = s[i]
        /\ U[new] = Side(who, n)
        /\ new \in Nat /\ \A i \in K : i \in Nat /\ i < new
    BY AppendLast, SMT DEF Side, SideType
  <1>2. n \in Nat /\ \A i \in K : s[i].turn \in Nat
    <2>1. \A i \in K : s[i] \in SideType
      BY SMT
    <2>2. \A x \in SideType : x.turn \in Turns
      BY DEF SideType
    <2>3. \A m \in Turns : m \in Nat
      BY Ids, Zenon
    <2> QED
      BY <2>1, <2>2, <2>3, Zenon
  <1>3. U[new].turn = n /\ U[new].who = who
    BY <1>1, SMT DEF Side
  <1> HIDE DEF new, U
  <1>4. InOrder(U, K)
    BY <1>1, SMT DEF InOrder
  <1>5. ASSUME who = "user", \A i \in K : s[i].turn < n
        PROVE  InOrder(U, K \cup {new})
    BY <1>1, <1>3, <1>4, <1>5, <1>2, SMT DEF InOrder
  <1>6. ASSUME who = "agent", \A i \in K : s[i].turn <= n,
               \E u \in K : s[u] = Side("user", n)
        PROVE  InOrder(U, K \cup {new})
    BY <1>1, <1>3, <1>4, <1>6, <1>2, SMT DEF InOrder
  <1> QED
    BY <1>4, <1>5, <1>6 DEF new, U

-----------------------------------------------------------------------------
(* The history and the recording.                                          *)

\* Turns of which the server has written a line.
Told == {"llm", "tts", "over"}

\* What every step but Remember does to the turns.
Onward ==
    /\ posted' \in Nat /\ posted <= posted'
    /\ \A m \in Turns :
          /\ turn[m].pc \in Told => turn'[m].pc \in Told
          /\ turn'[m].pc \in {"llm", "tts"} =>
                turn[m].pc \in {"llm", "tts"} /\ turn'[m].call = turn[m].call
          /\ turn'[m].pc = "llm" => turn[m].pc = "llm"
          /\ flight[m].pc = "failed" =>
                flight'[m].pc = "failed" /\ flight'[m].call = flight[m].call

\* The lines of a history and the segments of a recording are of turns.
LEMMA LineTurns ==
    ASSUME SystemInv
    PROVE  /\ \A c \in Calls : \A i \in DOMAIN history[c] :
                 history[c][i] \in SideType /\ history[c][i].turn \in Turns
           /\ \A c \in Calls : \A i \in DOMAIN segments[c] :
                 segments[c][i] \in SideType /\ segments[c][i].turn \in Turns
  <1>1. /\ \A c \in Calls : history[c] \in Seq(SideType)
        /\ \A c \in Calls : segments[c] \in Seq(SideType)
    BY SMT DEF SystemInv, SystemTypeOK, ServerTypeOK
  <1>2. ASSUME NEW s \in Seq(SideType), NEW i \in DOMAIN s
        PROVE  s[i] \in SideType
    BY <1>2, SMT
  <1>3. \A x \in SideType : x.turn \in Turns
    BY DEF SideType
  <1> QED
    BY <1>1, <1>2, <1>3, Zenon

\* Turns that fail drop out of what is kept with all their lines.
LEMMA KeptShrinks ==
    ASSUME SystemInv, Onward, NEW s, \A i \in DOMAIN s : s[i].turn \in Turns
    PROVE  /\ Kept(s)' \in SUBSET Kept(s)
           /\ \A i \in Kept(s), j \in Kept(s)' : s[i].turn = s[j].turn => i \in Kept(s)'
  BY SMT DEF Onward, Kept

\* A step that adds nothing to the histories keeps what is known of them.
LEMMA HistoryKept ==
    ASSUME SystemInv, TurnInv, HistoryInv, Onward, history' = history
    PROVE  HistoryInv'
  <1>1. /\ \A c \in Calls : \A i \in DOMAIN history[c] : history[c][i].turn \in Turns
        /\ posted \in Nat /\ posted' \in Nat /\ posted <= posted'
        /\ \A n \in Turns : n \in Nat
    BY LineTurns, TurnNumbers, SMT DEF Onward
  <1>2. ASSUME NEW c \in Calls, NEW i \in DOMAIN history[c]
        PROVE  /\ history[c][i].turn <= posted'
               /\ turn'[history[c][i].turn].pc \in Told
               /\ history[c][i].who = "agent" => turn'[history[c][i].turn].pc # "llm"
    <2>1. history[c][i].turn \in Turns /\ history[c][i].turn \in Nat
      BY <1>1, Zenon
    <2> QED
      BY <1>1, <2>1, SMT DEF HistoryInv, Onward, Told
  <1>3. ASSUME NEW n \in Turns, turn'[n].pc = "llm", flight'[n].pc # "failed",
               NEW c, c = turn'[n].call,
               NEW j \in DOMAIN history[c], flight'[history[c][j].turn].pc # "failed"
        PROVE  \E i \in DOMAIN history[c] : history[c][i] = Side("user", n)
    <2>1. /\ turn[n].pc = "llm" /\ c = CallOf(n) /\ c \in Calls
          /\ flight[n].pc # "failed"
      BY <1>3, TurnNumbers, SMT DEF Onward, CallOf
    <2>2. flight[history[c][j].turn].pc # "failed"
      BY <1>1, <1>3, <2>1, SMT DEF Onward
    <2>3. j \in Kept(history[c])
      BY <1>3, <2>2, Zenon DEF Kept
    <2> QED
      BY <2>1, <2>3, Zenon DEF HistoryInv
  <1>4. CallHistoryPaired'
    <2> SUFFICES ASSUME NEW c \in Calls PROVE Paired(history[c], Kept(history[c])')
      BY DEF CallHistoryPaired, Kept, Paired
    <2>1. Paired(history[c], Kept(history[c]))
      BY DEF HistoryInv, CallHistoryPaired
    <2>2. /\ Kept(history[c])' \in SUBSET Kept(history[c])
          /\ \A i \in Kept(history[c]), j \in Kept(history[c])' :
                history[c][i].turn = history[c][j].turn => i \in Kept(history[c])'
      BY <1>1, KeptShrinks, SMT DEF Kept
    <2> QED
      BY <2>1, <2>2, PairedPart
  <1>5. \A n \in Turns :
           (turn[n].pc = "llm" /\ flight[n].pc # "failed" /\ Kept(history[CallOf(n)]) # {} =>
              \E i \in DOMAIN history[CallOf(n)] : history[CallOf(n)][i] = Side("user", n))'
    <2> SUFFICES ASSUME NEW n \in Turns, turn'[n].pc = "llm", flight'[n].pc # "failed",
                        NEW j \in DOMAIN history[turn'[n].call],
                        flight'[history[turn'[n].call][j].turn].pc # "failed"
                 PROVE  \E i \in DOMAIN history[turn'[n].call] :
                           history[turn'[n].call][i] = Side("user", n)
      BY SMT DEF Kept, CallOf, Side
    <2> QED
      BY <1>3, Zenon
  <1> QED
    BY <1>2, <1>4, <1>5, Zenon DEF HistoryInv, Told

\* What a step of a turn at the server leaves alone.
LEMMA ServerFrame ==
    ASSUME SystemInv, TurnInv, UNCHANGED callPageVars, NEW n \in Turns,
           turn[n].pc \in AtWork
    PROVE  /\ flight' = flight /\ posted' = posted /\ posted \in Nat /\ n \in Nat
           /\ CallOf(n) \in Calls
           /\ history[CallOf(n)] \in Seq(SideType) /\ segments[CallOf(n)] \in Seq(SideType)
           /\ \A s : Kept(s)' = Kept(s)
  <1>1. flight' = flight /\ posted' = posted
    BY DEF callPageVars, turnVars
  <1>2. CallOf(n) \in Calls
    BY TurnNumbers, SMT DEF AtWork
  <1>3. history[CallOf(n)] \in Seq(SideType) /\ segments[CallOf(n)] \in Seq(SideType)
    BY <1>2, SMT DEF SystemInv, SystemTypeOK, ServerTypeOK
  <1>4. posted \in Nat /\ n \in Nat
    BY TurnNumbers, SMT
  <1>5. \A s : Kept(s)' = Kept(s)
    BY <1>1 DEF Kept
  <1> QED
    BY <1>1, <1>2, <1>3, <1>4, <1>5

\* The question of a turn is added to the history and the window is cut.  A
\* turn that failed may cut off lines of the turn that has followed it, but
\* not its question alone.
LEMMA RememberHistory ==
    ASSUME SystemInv, TurnInv, HistoryInv, UNCHANGED callPageVars,
           NEW n \in Turns, Remember(n)
    PROVE  HistoryInv'
  <1> DEFINE c == CallOf(n)
             s == history[c]
             a == Append(s, Side("user", n))
             t == Trimmed(a)
  <1>1. turn[n].pc = "heard" /\ turn[n].pc \in AtWork
    BY SMT DEF Remember, AtWork
  <1>2. /\ flight' = flight /\ posted' = posted /\ posted \in Nat /\ n \in Nat
        /\ c \in Calls /\ s \in Seq(SideType)
        /\ \A q : Kept(q)' = Kept(q)
    BY <1>1, ServerFrame
  <1>3. /\ history'[c] = t
        /\ \A b \in Calls : b # c => history'[b] = history[b]
        /\ turn'[n].pc = "llm" /\ turn'[n].call = c
        /\ \A m \in Turns : m # n => turn'[m] = turn[m]
    BY <1>2, SMT DEF Remember, Proceed, CallOf, SystemInv, SystemTypeOK, ServerTypeOK, TurnType
  <1>4. /\ a \in Seq(SideType) /\ Len(a) = Len(s) + 1
        /\ a[Len(s) + 1] = Side("user", n)
        /\ \A i \in 1 .. Len(s) : a[i] = s[i]
    BY <1>2, AppendLast, SMT DEF Side, SideType
  <1> HIDE DEF a
  <1>5. PICK d \in Nat :
           /\ Len(t) = Len(a) - d /\ d < Len(a)
           /\ \A i \in 1 .. Len(a) - d : t[i] = a[i + d]
    <2>1. Len(a) >= 1
      BY <1>2, <1>4, SMT
    <2> QED
      BY <1>4, <2>1, TrimmedSuffix
  <1>6. t \in Seq(SideType) /\ DOMAIN t = 1 .. Len(t)
    <2>1. t \in Seq(SideType)
      BY <1>4, TrimmedType
    <2> HIDE DEF t
    <2> QED
      BY <2>1, SMT
  \* the lines that were there are of turns that have been told
  <1>7. ASSUME NEW b \in Calls, NEW i \in DOMAIN history[b]
        PROVE  /\ history[b][i].turn \in Turns /\ history[b][i].turn # n
               /\ history[b][i].turn <= posted
               /\ turn'[history[b][i].turn].pc \in Told
               /\ history[b][i].who = "agent" => turn'[history[b][i].turn].pc # "llm"
    <2>1. /\ history[b][i].turn \in Turns /\ history[b][i].turn <= posted
          /\ turn[history[b][i].turn].pc \in {"llm", "tts", "over"}
          /\ history[b][i].who = "agent" => turn[history[b][i].turn].pc # "llm"
      BY LineTurns, Zenon DEF HistoryInv
    <2> QED
      BY <1>1, <1>3, <2>1, SMT DEF Told
  \* what remains of them follows, and the new line
  <1>8. ASSUME NEW i \in DOMAIN t
        PROVE  \/ i + d \in DOMAIN s /\ t[i] = s[i + d]
               \/ i + d = Len(s) + 1 /\ t[i] = Side("user", n)
    <2>1. i \in 1 .. Len(a) - d /\ t[i] = a[i + d] /\ i \in Nat
      BY <1>4, <1>5, <1>6, <1>8, SMT
    <2>2. i + d \in 1 .. Len(s) \/ i + d = Len(s) + 1
      BY <1>2, <1>4, <2>1, SMTT(30)
    <2> QED
      BY <1>2, <1>4, <2>1, <2>2, SMT
  <1>9. ASSUME NEW j \in 1 .. Len(s) + 1, j > d
        PROVE  j - d \in DOMAIN t /\ t[j - d] = a[j]
    BY <1>2, <1>4, <1>5, <1>6, <1>9, SMT
  <1> HIDE DEF t
  <1>10. ASSUME NEW b \in Calls, NEW i \in DOMAIN history'[b]
         PROVE  /\ history'[b][i].turn <= posted'
                /\ turn'[history'[b][i].turn].pc \in Told
                /\ history'[b][i].who = "agent" => turn'[history'[b][i].turn].pc # "llm"
    <2>1. CASE b # c
      BY <1>2, <1>3, <1>7, <1>10, <2>1, SMT
    <2>2. CASE b = c
      <3>1. n <= posted
        BY <1>1, SMT DEF TurnInv, StreamIsWhole, AtWork
      <3>2. CASE i + d \in DOMAIN s /\ t[i] = s[i + d]
        BY <1>2, <1>3, <1>7, <2>2, <3>2, SMT
      <3>3. CASE t[i] = Side("user", n)
        BY <1>2, <1>3, <2>2, <3>1, <3>3, SMT DEF Side, Told
      <3> QED
        BY <1>3, <1>8, <1>10, <2>2, <3>2, <3>3
    <2> QED
      BY <2>1, <2>2
  <1>11. ASSUME NEW m \in Turns, turn'[m].pc = "llm", flight[m].pc # "failed",
                NEW j \in DOMAIN history'[turn'[m].call],
                flight[history'[turn'[m].call][j].turn].pc # "failed"
         PROVE  \E i \in DOMAIN history'[turn'[m].call] :
                   history'[turn'[m].call][i] = Side("user", m)
    <2>1. CASE m = n
      <3>1. Len(s) + 1 - d \in DOMAIN t /\ t[Len(s) + 1 - d] = Side("user", n)
        <4>1. Len(s) + 1 \in 1 .. Len(s) + 1 /\ Len(s) + 1 > d
          BY <1>2, <1>4, <1>5, SMT
        <4> QED
          BY <1>4, <1>9, <4>1, SMT
      <3> QED
        BY <1>3, <2>1, <3>1, SMT
    <2>2. CASE m # n
      <3>1. turn[m].pc = "llm" /\ turn'[m].call = CallOf(m) /\ CallOf(m) \in Calls
        BY <1>3, <1>11, <2>2, TurnNumbers, SMT DEF CallOf
      <3>2. m = posted
        BY <1>11, <3>1, WorkIsLatest, SMT DEF AtWork
      <3>3. flight[n].pc = "failed"
        BY <1>1, <2>2, <3>2, WorkIsLatest
      <3>4. CASE CallOf(m) # c
        <4>1. j \in Kept(history[CallOf(m)])
          BY <1>3, <1>11, <3>1, <3>4 DEF Kept
        <4> QED
          BY <1>3, <1>11, <3>1, <3>4, <4>1, SMT DEF HistoryInv
      <3>5. CASE CallOf(m) = c
        <4>1. j \in DOMAIN t /\ flight[t[j].turn].pc # "failed"
          BY <1>3, <1>11, <3>1, <3>5
        <4>2. j + d \in DOMAIN s /\ t[j] = s[j + d]
          BY <1>8, <3>3, <4>1, SMT DEF Side
        <4>3. j + d \in Kept(s)
          BY <4>1, <4>2 DEF Kept
        <4>4. PICK u \in DOMAIN s : s[u] = Side("user", m)
          BY <1>11, <3>1, <3>5, <4>3, Zenon DEF HistoryInv
        <4>5. u \in Kept(s)
          BY <1>11, <4>4, SMT DEF Kept, Side
        <4>6. u > d
          <5> SUFFICES ASSUME ~(u > d) PROVE FALSE
            OBVIOUS
          <5>1. u < j + d
            BY <1>2, <1>6, <4>1, <4>4, SMT
          <5>2. \/ s[u].turn < s[j + d].turn
                \/ s[u] = Side("user", s[j + d].turn) /\ s[j + d].who = "agent"
            <6>1. Paired(s, Kept(s))
              BY <1>2 DEF HistoryInv, CallHistoryPaired
            <6> QED
              BY <4>3, <4>5, <5>1, <6>1, Zenon DEF Paired
          <5>3. /\ s[j + d].turn \in Nat /\ m \in Nat /\ s[j + d].turn <= m
                /\ s[j + d].who = "agent" => turn'[s[j + d].turn].pc # "llm"
            BY <1>2, <1>7, <3>2, <4>2, Ids, Zenon
          <5>4. s[u].turn = m
            BY <4>4, SMT DEF Side
          <5>5. CASE m < s[j + d].turn
            BY <5>3, <5>5, SMT
          <5>6. CASE s[u] = Side("user", s[j + d].turn) /\ s[j + d].who = "agent"
            BY <1>11, <5>3, <5>4, <5>6, SMT DEF Side
          <5> QED
            BY <5>2, <5>4, <5>5, <5>6
        <4>7. u - d \in DOMAIN t /\ t[u - d] = s[u]
          <5>1. u \in 1 .. Len(s) /\ u \in 1 .. Len(s) + 1
            BY <1>2, <4>4, SMT
          <5> QED
            BY <1>4, <1>9, <4>6, <5>1
        <4> QED
          BY <1>3, <3>1, <3>5, <4>4, <4>7
      <3> QED
        BY <3>4, <3>5
    <2> QED
      BY <2>1, <2>2
  <1>12. ASSUME NEW b \in Calls
         PROVE  Paired(history'[b], Kept(history'[b]))
    <2>1. Paired(history[b], Kept(history[b]))
      BY DEF HistoryInv, CallHistoryPaired
    <2>2. CASE b # c
      BY <1>3, <2>1, <2>2
    <2>3. CASE b = c
      <3>1. Kept(s) \in SUBSET (1 .. Len(s)) /\ \A i \in Kept(s) : s[i].turn \in Turns
        BY <1>2, <1>7, SMT DEF Kept
      <3>2. Kept(a) = IF flight[n].pc = "failed" THEN Kept(s) ELSE Kept(s) \cup {Len(s) + 1}
        <4>1. DOMAIN a = 1 .. Len(s) + 1 /\ DOMAIN s = 1 .. Len(s)
          BY <1>2, <1>4, SMT
        <4>2. a[Len(s) + 1].turn = n
          BY <1>4, SMT DEF Side
        <4> HIDE DEF s
        <4>3. Len(s) \in Nat
          BY <1>2, SMT
        <4>4. \A i : i \in 1 .. Len(s) + 1 <=> i \in 1 .. Len(s) \/ i = Len(s) + 1
          BY <4>3, SMT
        <4> QED
          BY <1>4, <4>1, <4>2, <4>4, SMT DEF Kept
      <3>3. flight[n].pc # "failed" => \A i \in Kept(s) : s[i].turn < n
        <4> SUFFICES ASSUME flight[n].pc # "failed", NEW i \in Kept(s)
                     PROVE  s[i].turn < n
          OBVIOUS
        <4>1. n = posted
          BY <1>1, WorkIsLatest
        <4>2. i \in DOMAIN s
          BY DEF Kept
        <4>3. s[i].turn \in Nat /\ s[i].turn # n /\ s[i].turn <= posted
          BY <1>2, <1>7, <4>2, Ids, Zenon
        <4> QED
          BY <1>2, <4>1, <4>3, SMT
      <3>4. Paired(a, Kept(a))
        BY <1>2, <2>1, <2>3, <3>1, <3>2, <3>3, PairedAppend DEF a
      <3>5. Kept(a) \in SUBSET Nat /\ \A i \in Kept(a) : a[i].turn \in Nat
        <4>1. Kept(a) \in SUBSET (1 .. Len(s) + 1)
          BY <1>2, <1>4, SMT DEF Kept
        <4>2. \A k \in Turns : k \in Nat
          BY Ids, Zenon
        <4>3. \A i \in Kept(s) : a[i].turn \in Turns
          BY <1>2, <1>4, <3>1, SMT
        <4>4. a[Len(s) + 1].turn = n
          BY <1>4, SMT DEF Side
        <4> HIDE DEF s
        <4> QED
          BY <3>2, <4>1, <4>2, <4>3, <4>4, SMT
      <3>6. Kept(t) \in SUBSET (Nat \ {0})
        BY <1>6, SMT DEF Kept
      <3>7. \A i \in Kept(t) : i + d \in Kept(a) /\ t[i] = a[i + d]
        <4>1. \A i \in DOMAIN t : i + d \in DOMAIN a /\ t[i] = a[i + d]
          BY <1>4, <1>5, <1>6, SMT
        <4> QED
          BY <4>1, SMT DEF Kept
      <3>8. \A i \in Kept(a) : i > d => i - d \in Kept(t)
        BY <1>2, <1>4, <1>9, SMT DEF Kept
      <3>9. Paired(t, Kept(t))
        BY <3>4, <3>5, <3>6, <3>7, <3>8, PairedSuffix
      <3> QED
        BY <1>3, <2>3, <3>9
    <2> QED
      BY <2>2, <2>3
  <1>13. CallHistoryPaired'
    <2> SUFFICES ASSUME NEW b \in Calls PROVE Paired(history'[b], Kept(history[b])')
      BY DEF CallHistoryPaired, Kept, Paired
    <2>1. Kept(history[b])' = Kept(history'[b])
      BY <1>2, SMT DEF Kept
    <2> QED
      BY <1>12, <2>1
  <1>14. \A m \in Turns :
            (turn[m].pc = "llm" /\ flight[m].pc # "failed" /\ Kept(history[CallOf(m)]) # {} =>
               \E i \in DOMAIN history[CallOf(m)] : history[CallOf(m)][i] = Side("user", m))'
    <2> SUFFICES ASSUME NEW m \in Turns, turn'[m].pc = "llm", flight'[m].pc # "failed",
                        NEW j \in DOMAIN history'[turn'[m].call],
                        flight'[history'[turn'[m].call][j].turn].pc # "failed"
                 PROVE  \E i \in DOMAIN history'[turn'[m].call] :
                           history'[turn'[m].call][i] = Side("user", m)
      BY SMT DEF Kept, CallOf, Side
    <2> QED
      BY <1>2, <1>11
  <1> QED
    BY <1>10, <1>13, <1>14, Zenon DEF HistoryInv, Told

\* The answer is added to the history: of a turn that was kept it is the
\* latest line, and nothing of the turn but its question comes before it.
LEMMA AnsweredHistory ==
    ASSUME SystemInv, TurnInv, HistoryInv, UNCHANGED callPageVars,
           NEW n \in Turns, Answered(n)
    PROVE  HistoryInv'
  <1> DEFINE c == CallOf(n)
             s == history[c]
             a == Append(s, Side("agent", n))
  <1>1. turn[n].pc = "llm" /\ turn[n].pc \in AtWork
    BY SMT DEF Answered, AtWork
  <1>2. /\ flight' = flight /\ posted' = posted /\ posted \in Nat /\ n \in Nat
        /\ c \in Calls /\ s \in Seq(SideType)
        /\ \A q : Kept(q)' = Kept(q)
    BY <1>1, ServerFrame
  <1>3. /\ history'[c] = a
        /\ \A b \in Calls : b # c => history'[b] = history[b]
        /\ turn'[n].pc \in {"tts", "over"}
        /\ \A m \in Turns : m # n => turn'[m] = turn[m]
    BY <1>2, SMT DEF Answered, Proceed, CallOf, SystemInv, SystemTypeOK, ServerTypeOK, TurnType
  <1>4. /\ a \in Seq(SideType) /\ Len(a) = Len(s) + 1
        /\ a[Len(s) + 1] = Side("agent", n)
        /\ \A i \in 1 .. Len(s) : a[i] = s[i]
    BY <1>2, AppendLast, SMT DEF Side, SideType
  <1> HIDE DEF a
  <1>5. /\ DOMAIN a = 1 .. Len(s) + 1 /\ DOMAIN s = 1 .. Len(s)
        /\ \A i : i \in 1 .. Len(s) + 1 <=> i \in 1 .. Len(s) \/ i = Len(s) + 1
    <2>1. DOMAIN a = 1 .. Len(s) + 1 /\ DOMAIN s = 1 .. Len(s) /\ Len(s) \in Nat
      BY <1>2, <1>4, SMT
    <2> HIDE DEF s
    <2> QED
      BY <2>1, SMT
  <1>6. ASSUME NEW b \in Calls, NEW i \in DOMAIN history[b]
        PROVE  /\ history[b][i] \in SideType /\ history[b][i].turn \in Turns
               /\ history[b][i].turn <= posted
               /\ turn'[history[b][i].turn].pc \in Told
               /\ history[b][i].who = "agent" =>
                     /\ turn[history[b][i].turn].pc # "llm"
                     /\ turn'[history[b][i].turn].pc # "llm"
    <2>1. /\ history[b][i] \in SideType
          /\ history[b][i].turn \in Turns /\ history[b][i].turn <= posted
          /\ turn[history[b][i].turn].pc \in {"llm", "tts", "over"}
          /\ history[b][i].who = "agent" => turn[history[b][i].turn].pc # "llm"
      BY LineTurns, Zenon DEF HistoryInv
    <2> QED
      BY <1>1, <1>3, <2>1, SMT DEF Told
  <1>7. ASSUME NEW b \in Calls, NEW i \in DOMAIN history'[b]
        PROVE  /\ history'[b][i].turn <= posted'
               /\ turn'[history'[b][i].turn].pc \in Told
               /\ history'[b][i].who = "agent" => turn'[history'[b][i].turn].pc # "llm"
    <2>1. CASE b # c
      BY <1>2, <1>3, <1>6, <1>7, <2>1, SMT
    <2>2. CASE b = c /\ i \in 1 .. Len(s)
      BY <1>2, <1>3, <1>4, <1>5, <1>6, <2>2, SMT
    <2>3. CASE b = c /\ i = Len(s) + 1
      <3>1. n <= posted
        BY <1>1, SMT DEF TurnInv, StreamIsWhole, AtWork
      <3> QED
        BY <1>2, <1>3, <1>4, <2>3, <3>1, SMT DEF Side, Told
    <2> QED
      BY <1>3, <1>5, <1>7, <2>1, <2>2, <2>3
  <1>8. ASSUME NEW m \in Turns, turn'[m].pc = "llm", flight[m].pc # "failed",
               NEW j \in DOMAIN history'[turn'[m].call],
               flight[history'[turn'[m].call][j].turn].pc # "failed"
        PROVE  \E i \in DOMAIN history'[turn'[m].call] :
                  history'[turn'[m].call][i] = Side("user", m)
    <2>1. m # n
      BY <1>3, <1>8
    <2>2. turn[m].pc = "llm" /\ turn'[m].call = CallOf(m) /\ CallOf(m) \in Calls
      BY <1>3, <1>8, <2>1, TurnNumbers, SMT DEF CallOf
    <2>3. flight[n].pc = "failed"
      BY <1>1, <1>8, <2>1, <2>2, WorkIsLatest, SMT DEF AtWork
    <2>4. CASE CallOf(m) # c
      <3>1. j \in Kept(history[CallOf(m)])
        BY <1>3, <1>8, <2>2, <2>4 DEF Kept
      <3> QED
        BY <1>3, <1>8, <2>2, <2>4, <3>1, SMT DEF HistoryInv
    <2>5. CASE CallOf(m) = c
      <3>1. j \in DOMAIN a /\ flight[a[j].turn].pc # "failed"
        BY <1>3, <1>8, <2>2, <2>5
      <3>2. j \in DOMAIN s /\ a[j] = s[j]
        BY <1>4, <1>5, <2>3, <3>1, SMT DEF Side
      <3>3. j \in Kept(s)
        BY <3>1, <3>2 DEF Kept
      <3>4. PICK u \in DOMAIN s : s[u] = Side("user", m)
        BY <1>8, <2>2, <2>5, <3>3, Zenon DEF HistoryInv
      <3>5. u \in DOMAIN a /\ a[u] = s[u]
        BY <1>4, <1>5, <3>4, Zenon
      <3> QED
        BY <1>3, <2>2, <2>5, <3>4, <3>5
    <2> QED
      BY <2>4, <2>5
  <1>9. ASSUME NEW b \in Calls
        PROVE  Paired(history'[b], Kept(history'[b]))
    <2>1. Paired(history[b], Kept(history[b]))
      BY DEF HistoryInv, CallHistoryPaired
    <2>2. CASE b # c
      BY <1>3, <2>1, <2>2
    <2>3. CASE b = c
      <3>1. Kept(s) \in SUBSET (1 .. Len(s))
        BY <1>5 DEF Kept
      <3>2. Kept(a) = IF flight[n].pc = "failed" THEN Kept(s) ELSE Kept(s) \cup {Len(s) + 1}
        <4>1. a[Len(s) + 1].turn = n
          BY <1>4, SMT DEF Side
        <4> HIDE DEF s
        <4> QED
          BY <1>4, <1>5, <4>1, SMT DEF Kept
      <3>3. ASSUME flight[n].pc # "failed"
            PROVE  /\ \A i \in Kept(s) : s[i].turn < n \/ s[i] = Side("user", n)
                   /\ Kept(s) # {} => \E u \in Kept(s) : s[u] = Side("user", n)
        <4>1. ASSUME NEW i \in Kept(s)
              PROVE  s[i].turn < n \/ s[i] = Side("user", n)
          <5>1. n = posted
            BY <1>1, <3>3, WorkIsLatest
          <5>2. i \in DOMAIN s
            BY DEF Kept
          <5>3. /\ s[i].turn \in Nat /\ s[i].turn <= n
                /\ s[i].who = "agent" => turn[s[i].turn].pc # "llm"
                /\ s[i] \in SideType
            BY <1>2, <1>6, <5>1, <5>2, Ids, Zenon
          <5>4. CASE s[i].turn = n
            BY <1>1, <5>3, <5>4, SMT DEF SideType, Side
          <5> QED
            BY <1>2, <5>3, <5>4, SMT
        <4>2. ASSUME Kept(s) # {} PROVE \E u \in Kept(s) : s[u] = Side("user", n)
          <5>1. PICK u \in DOMAIN s : s[u] = Side("user", n)
            BY <1>1, <3>3, <4>2, Zenon DEF HistoryInv
          <5> QED
            BY <3>3, <5>1, SMT DEF Kept, Side
        <4> QED
          BY <4>1, <4>2
      <3>4. Paired(a, Kept(a))
        <4>1. Paired(s, Kept(s))
          BY <2>1, <2>3
        <4>2. "agent" \in {"user", "agent"}
          OBVIOUS
        <4> QED
          BY <1>2, <3>1, <3>2, <3>3, <4>1, <4>2, PairedAppend DEF a
      <3> QED
        BY <1>3, <2>3, <3>4
    <2> QED
      BY <2>2, <2>3
  <1>10. CallHistoryPaired'
    <2> SUFFICES ASSUME NEW b \in Calls PROVE Paired(history'[b], Kept(history[b])')
      BY DEF CallHistoryPaired, Kept, Paired
    <2>1. Kept(history[b])' = Kept(history'[b])
      BY <1>2, SMT DEF Kept
    <2> QED
      BY <1>9, <2>1
  <1>11. \A m \in Turns :
            (turn[m].pc = "llm" /\ flight[m].pc # "failed" /\ Kept(history[CallOf(m)]) # {} =>
               \E i \in DOMAIN history[CallOf(m)] : history[CallOf(m)][i] = Side("user", m))'
    <2> SUFFICES ASSUME NEW m \in Turns, turn'[m].pc = "llm", flight'[m].pc # "failed",
                        NEW j \in DOMAIN history'[turn'[m].call],
                        flight'[history'[turn'[m].call][j].turn].pc # "failed"
                 PROVE  \E i \in DOMAIN history'[turn'[m].call] :
                           history'[turn'[m].call][i] = Side("user", m)
      BY SMTT(30) DEF Kept, CallOf, Side
    <2> QED
      BY <1>2, <1>8
  <1> QED
    BY <1>7, <1>10, <1>11, Zenon DEF HistoryInv, Told

\* A step that adds nothing to the recordings keeps what is known of them.
LEMMA SegmentsKept ==
    ASSUME SystemInv, TurnInv, SegmentInv, Onward, segments' = segments
    PROVE  SegmentInv'
  <1>1. /\ \A c \in Calls : \A i \in DOMAIN segments[c] : segments[c][i].turn \in Turns
        /\ posted \in Nat /\ posted' \in Nat /\ posted <= posted'
        /\ \A n \in Turns : n \in Nat
    BY LineTurns, TurnNumbers, SMT DEF Onward
  <1>2. ASSUME NEW c \in Calls, NEW i \in DOMAIN segments[c]
        PROVE  /\ segments[c][i].turn <= posted'
               /\ turn'[segments[c][i].turn].pc \in Told
    <2>1. segments[c][i].turn \in Turns /\ segments[c][i].turn \in Nat
      BY <1>1, Zenon
    <2> QED
      BY <1>1, <2>1, SMT DEF SegmentInv, Onward, Told
  <1>3. \A n \in Turns :
           (turn[n].pc \in {"llm", "tts"} =>
              \E i \in DOMAIN segments[CallOf(n)] : segments[CallOf(n)][i] = Side("user", n))'
    <2> SUFFICES ASSUME NEW n \in Turns, turn'[n].pc \in {"llm", "tts"}
                 PROVE  \E i \in DOMAIN segments[turn'[n].call] :
                           segments[turn'[n].call][i] = Side("user", n)
      BY DEF CallOf, Side
    <2>1. turn[n].pc \in {"llm", "tts"} /\ turn'[n].call = CallOf(n)
      BY SMT DEF Onward, CallOf
    <2> QED
      BY <2>1, Zenon DEF SegmentInv
  <1>4. SpokenOrder'
    <2> SUFFICES ASSUME NEW c \in Calls PROVE InOrder(segments[c], Kept(segments[c])')
      BY DEF SpokenOrder, Kept, InOrder
    <2>1. InOrder(segments[c], Kept(segments[c]))
      BY DEF SegmentInv, SpokenOrder
    <2>2. /\ Kept(segments[c])' \in SUBSET Kept(segments[c])
          /\ \A i \in Kept(segments[c]), j \in Kept(segments[c])' :
                segments[c][i].turn = segments[c][j].turn => i \in Kept(segments[c])'
      BY <1>1, KeptShrinks, SMT DEF Kept
    <2> QED
      BY <2>1, <2>2, InOrderPart
  <1> QED
    BY <1>2, <1>3, <1>4, Zenon DEF SegmentInv, Told

\* What is said is added to the recording: of a turn that was kept it is the
\* latest segment, and the answer comes after the question.
LEMMA SegmentAdded ==
    ASSUME SystemInv, TurnInv, SegmentInv, UNCHANGED callPageVars,
           NEW n \in Turns, Remember(n) \/ ChunkSpoken(n)
    PROVE  SegmentInv'
  <1> DEFINE c == CallOf(n)
             s == segments[c]
             who == IF turn[n].pc = "heard" THEN "user" ELSE "agent"
             a == Append(s, Side(who, n))
  <1>1. /\ turn[n].pc \in {"heard", "tts"} /\ turn[n].pc \in AtWork
        /\ turn[n].pc # "heard" => turn[n].pc = "tts"
    BY SMT DEF Remember, ChunkSpoken, AtWork
  <1>2. /\ flight' = flight /\ posted' = posted /\ posted \in Nat /\ n \in Nat
        /\ c \in Calls /\ s \in Seq(SideType)
        /\ \A q : Kept(q)' = Kept(q)
    BY <1>1, ServerFrame
  <1>3. /\ segments'[c] = a
        /\ \A b \in Calls : b # c => segments'[b] = segments[b]
        /\ turn'[n].pc \in Told /\ turn'[n].call = c
        /\ \A m \in Turns : m # n => turn'[m] = turn[m]
    <2>1. CASE Remember(n)
      BY <1>2, <2>1, SMT
      DEF Remember, Proceed, CallOf, Told, SystemInv, SystemTypeOK, ServerTypeOK, TurnType
    <2>2. CASE ChunkSpoken(n)
      <3>1. PICK more \in BOOLEAN :
               turn' = [turn EXCEPT ![n].pc = IF more THEN "tts" ELSE "over",
                                    ![n].clips = @ + 1]
        BY <2>2 DEF ChunkSpoken
      <3>2. /\ turn'[n].pc \in Told /\ turn'[n].call = c
            /\ \A m \in Turns : m # n => turn'[m] = turn[m]
        BY <3>1, SMT DEF CallOf, Told, SystemInv, SystemTypeOK, ServerTypeOK, TurnType
      <3>3. who = "agent"
        BY <2>2, SMT DEF ChunkSpoken
      <3>4. /\ segments'[c] = a
            /\ \A b \in Calls : b # c => segments'[b] = segments[b]
        <4>1. /\ segments' = [segments EXCEPT ![c] = Append(@, Side("agent", n))]
              /\ segments \in [Calls -> Seq(SideType)]
          BY <2>2 DEF ChunkSpoken, SystemInv, SystemTypeOK, ServerTypeOK
        <4>2. a = Append(s, Side("agent", n))
          BY <3>3
        <4> HIDE DEF a, who
        <4> QED
          BY <1>2, <4>1, <4>2, SMT
      <3> QED
        BY <3>2, <3>4
    <2> QED
      BY <2>1, <2>2
  <1>4. who \in {"user", "agent"} /\ Side(who, n) \in SideType
    BY SMT DEF Side, SideType
  <1> HIDE DEF who
  <1>5. /\ a \in Seq(SideType) /\ Len(a) = Len(s) + 1
        /\ a[Len(s) + 1] = Side(who, n)
        /\ \A i \in 1 .. Len(s) : a[i] = s[i]
    BY <1>2, <1>4, AppendLast, SMT
  <1> HIDE DEF a
  <1>6. /\ DOMAIN a = 1 .. Len(s) + 1 /\ DOMAIN s = 1 .. Len(s)
        /\ \A i : i \in 1 .. Len(s) + 1 <=> i \in 1 .. Len(s) \/ i = Len(s) + 1
    <2>1. DOMAIN a = 1 .. Len(s) + 1 /\ DOMAIN s = 1 .. Len(s) /\ Len(s) \in Nat
      BY <1>2, <1>5, SMT
    <2> HIDE DEF s
    <2> QED
      BY <2>1, SMT
  <1>7. ASSUME NEW b \in Calls, NEW i \in DOMAIN segments[b]
        PROVE  /\ segments[b][i].turn \in Turns
               /\ segments[b][i].turn <= posted
               /\ turn[segments[b][i].turn].pc \in Told
               /\ turn'[segments[b][i].turn].pc \in Told
    <2>1. /\ segments[b][i].turn \in Turns /\ segments[b][i].turn <= posted
          /\ turn[segments[b][i].turn].pc \in {"llm", "tts", "over"}
      BY LineTurns, Zenon DEF SegmentInv
    <2> QED
      BY <1>3, <2>1, SMT DEF Told
  <1>8. ASSUME NEW b \in Calls, NEW i \in DOMAIN segments'[b]
        PROVE  /\ segments'[b][i].turn <= posted'
               /\ turn'[segments'[b][i].turn].pc \in Told
    <2>1. CASE b # c
      BY <1>2, <1>3, <1>7, <1>8, <2>1, SMT
    <2>2. CASE b = c /\ i \in 1 .. Len(s)
      BY <1>2, <1>3, <1>5, <1>6, <1>7, <2>2, SMT
    <2>3. CASE b = c /\ i = Len(s) + 1
      <3>1. n <= posted
        BY <1>1, SMT DEF TurnInv, StreamIsWhole, AtWork
      <3> QED
        BY <1>2, <1>3, <1>5, <2>3, <3>1, SMT DEF Side
    <2> QED
      BY <1>3, <1>6, <1>8, <2>1, <2>2, <2>3
  <1>9. ASSUME NEW m \in Turns, turn'[m].pc \in {"llm", "tts"}
        PROVE  \E i \in DOMAIN segments'[turn'[m].call] :
                  segments'[turn'[m].call][i] = Side("user", m)
    <2>1. CASE m = n /\ turn[n].pc = "heard"
      <3>1. Len(s) + 1 \in DOMAIN a /\ a[Len(s) + 1] = Side("user", n)
        BY <1>5, <1>6, <2>1 DEF who
      <3> QED
        BY <1>3, <2>1, <3>1
    <2>2. CASE m # n \/ turn[n].pc # "heard"
      <3>1. /\ turn[m].pc \in {"llm", "tts"} /\ turn'[m].call = CallOf(m)
            /\ CallOf(m) \in Calls
        BY <1>1, <1>3, <1>9, <2>2, TurnNumbers, SMT DEF CallOf
      <3>2. PICK u \in DOMAIN segments[CallOf(m)] : segments[CallOf(m)][u] = Side("user", m)
        BY <3>1, Zenon DEF SegmentInv
      <3>3. u \in DOMAIN segments'[CallOf(m)] /\ segments'[CallOf(m)][u] = Side("user", m)
        <4>1. CASE CallOf(m) # c
          BY <1>3, <3>1, <3>2, <4>1
        <4>2. CASE CallOf(m) = c
          BY <1>3, <1>5, <1>6, <3>2, <4>2, Zenon
        <4> QED
          BY <4>1, <4>2
      <3> QED
        BY <3>1, <3>3
    <2> QED
      BY <2>1, <2>2
  <1>10. ASSUME NEW b \in Calls
         PROVE  InOrder(segments'[b], Kept(segments'[b]))
    <2>1. InOrder(segments[b], Kept(segments[b]))
      BY DEF SegmentInv, SpokenOrder
    <2>2. CASE b # c
      BY <1>3, <2>1, <2>2
    <2>3. CASE b = c
      <3>1. Kept(s) \in SUBSET (1 .. Len(s))
        BY <1>6 DEF Kept
      <3>2. Kept(a) = IF flight[n].pc = "failed" THEN Kept(s) ELSE Kept(s) \cup {Len(s) + 1}
        <4>1. a[Len(s) + 1].turn = n
          BY <1>5, SMT DEF Side
        <4> HIDE DEF s
        <4> QED
          BY <1>5, <1>6, <4>1, SMT DEF Kept
      <3>3. ASSUME flight[n].pc # "failed"
            PROVE  /\ \A i \in Kept(s) :
                         s[i].turn <= n /\ (turn[n].pc = "heard" => s[i].turn < n)
                   /\ turn[n].pc # "heard" => \E u \in Kept(s) : s[u] = Side("user", n)
        <4>1. ASSUME NEW i \in Kept(s)
              PROVE  s[i].turn <= n /\ (turn[n].pc = "heard" => s[i].turn < n)
          <5>1. n = posted
            BY <1>1, <3>3, WorkIsLatest
          <5>2. i \in DOMAIN s
            BY DEF Kept
          <5>3. s[i].turn \in Nat /\ s[i].turn <= n /\ turn[s[i].turn].pc \in Told
            BY <1>2, <1>7, <5>1, <5>2, Ids, Zenon
          <5> QED
            BY <1>2, <5>3, SMT DEF Told
        <4>2. ASSUME turn[n].pc # "heard" PROVE \E u \in Kept(s) : s[u] = Side("user", n)
          <5>1. PICK u \in DOMAIN s : s[u] = Side("user", n)
            BY <1>1, <4>2, Zenon DEF SegmentInv
          <5> QED
            BY <3>3, <5>1, SMT DEF Kept, Side
        <4> QED
          BY <4>1, <4>2
      <3>4. InOrder(a, Kept(a))
        <4>1. InOrder(s, Kept(s))
          BY <2>1, <2>3
        <4>2. CASE flight[n].pc = "failed"
          BY <1>2, <1>4, <3>1, <3>2, <4>1, <4>2, InOrderAppend DEF a
        <4>3. CASE flight[n].pc # "failed" /\ turn[n].pc = "heard"
          <5>1. who = "user"
            BY <4>3 DEF who
          <5> QED
            BY <1>2, <1>4, <3>1, <3>2, <3>3, <4>1, <4>3, <5>1, InOrderAppend DEF a
        <4>4. CASE flight[n].pc # "failed" /\ turn[n].pc # "heard"
          <5>1. who = "agent"
            BY <4>4 DEF who
          <5> QED
            BY <1>2, <1>4, <3>1, <3>2, <3>3, <4>1, <4>4, <5>1, InOrderAppend DEF a
        <4> QED
          BY <4>2, <4>3, <4>4
      <3> QED
        BY <1>3, <2>3, <3>4
    <2> QED
      BY <2>2, <2>3
  <1>11. SpokenOrder'
    <2> SUFFICES ASSUME NEW b \in Calls PROVE InOrder(segments'[b], Kept(segments[b])')
      BY DEF SpokenOrder, Kept, InOrder
    <2>1. Kept(segments[b])' = Kept(segments'[b])
      BY <1>2, SMT DEF Kept
    <2> QED
      BY <1>10, <2>1
  <1>12. \A m \in Turns :
            (turn[m].pc \in {"llm", "tts"} =>
               \E i \in DOMAIN segments[CallOf(m)] : segments[CallOf(m)][i] = Side("user", m))'
    BY <1>9 DEF CallOf, Side
  <1> QED
    BY <1>8, <1>11, <1>12, Zenon DEF SegmentInv, Told

\* What the page does takes no turn back and fails none that had failed.
LEMMA PageOnward ==
    ASSUME SystemInv, TurnInv, turn' = turn,
           \/ User \/ Setup \/ RecorderStops
           \/ \E n \in Turns :
                 \/ FetchFails(n) \/ Responded(n) \/ ReadSkip(n)
                 \/ ReadChunk(n) \/ ReadEnd(n) \/ ReadBreaks(n) \/ Play(n)
    PROVE  Onward
  <1>1. posted \in Nat
    BY TurnNumbers, SMT
  <1>2. CASE UNCHANGED <<flight, posted>>
    BY <1>1, <1>2, SMT DEF Onward
  <1>3. CASE RecorderStops /\ SendTurn
    <2>1. posted' = posted + 1 /\ posted + 1 \in Turns
      BY <1>1, <1>3, Ids, SMT DEF SendTurn, Turns
    <2>3. \A m \in Turns : m # posted + 1 => flight'[m] = flight[m]
      BY <1>3, <2>1, SMT DEF SendTurn, SystemInv, SystemTypeOK, CallPageTypeOK
    <2>2. flight[posted + 1].pc = "none"
      BY <1>1, <2>1, SMT DEF TurnInv
    <2> QED
      BY <1>1, <2>1, <2>2, <2>3, SMT DEF Onward
  <1>4. ASSUME NEW n \in Turns,
               \/ FetchFails(n) \/ Responded(n) \/ ReadSkip(n)
               \/ ReadChunk(n) \/ ReadEnd(n) \/ ReadBreaks(n) \/ Play(n)
        PROVE  Onward
    <2>1. /\ posted' = posted /\ flight[n].pc # "failed"
          /\ \A m \in Turns : flight'[m].call = flight[m].call
          /\ \A m \in Turns : m # n => flight'[m].pc = flight[m].pc
      BY <1>4, MovesOn, SMT DEF Held, InFlight
    <2> QED
      BY <1>1, <2>1, SMT DEF Onward
  <1> QED
    BY <1>2, <1>3, <1>4
    DEF User, StartCall, EndCall, LoopHears, LoopPauses, Setup, MicGranted, StartFails,
        CallOpened, ContextResumed, RecorderStops, turnVars

\* The server takes no turn back.
LEMMA ServerOnward ==
    ASSUME SystemInv, TurnInv, UNCHANGED callPageVars, NEW n \in Turns,
           \/ Skip(n) \/ Heard(n) \/ Answered(n) \/ ChunkSpoken(n) \/ TurnFails(n)
           \/ Cancelled(n) \/ (flight[n].pc = "fetch" /\ Post(n, flight[n].call))
    PROVE  Onward
  <1>1. posted \in Nat /\ posted' = posted /\ flight' = flight
    BY TurnNumbers, SMT DEF callPageVars, turnVars
  <1>2. /\ \A m \in Turns : m # n => turn'[m] = turn[m]
        /\ turn[n].pc \in Told => turn'[n].pc \in Told
        /\ turn'[n].pc \in {"llm", "tts"} =>
              turn[n].pc \in {"llm", "tts"} /\ turn'[n].call = turn[n].call
        /\ turn'[n].pc = "llm" => turn[n].pc = "llm"
    <2> USE DEF SystemInv, SystemTypeOK, ServerTypeOK, TurnType
    <2>1. CASE Skip(n) \/ TurnFails(n) \/ Cancelled(n)
      BY <2>1, SMT DEF Skip, TurnFails, Cancelled, Proceed, Told, AtWork
    <2>2. CASE Heard(n)
      BY <2>2, SMT DEF Heard, Proceed, Told
    <2>3. CASE Answered(n)
      BY <2>3, SMT DEF Answered, Proceed, Told
    <2>4. CASE ChunkSpoken(n)
      <3>1. PICK more \in BOOLEAN :
               turn' = [turn EXCEPT ![n].pc = IF more THEN "tts" ELSE "over",
                                    ![n].clips = @ + 1]
        BY <2>4 DEF ChunkSpoken
      <3>2. turn[n].pc = "tts"
        BY <2>4 DEF ChunkSpoken
      <3> QED
        BY <3>1, <3>2, SMT DEF Told
    <2>5. CASE Post(n, flight[n].call)
      BY <2>5, SMT DEF Post, Told
    <2> QED
      BY <2>1, <2>2, <2>3, <2>4, <2>5
  <1> QED
    BY <1>1, <1>2, SMT DEF Onward

\* What every step of the system does to the turns and to the records.
LEMMA NextOnward ==
    ASSUME SystemInv, TurnInv, [SystemNext]_systemVars
    PROVE  \/ \E n \in Turns : Remember(n) /\ UNCHANGED callPageVars
           \/ /\ Onward
              /\ history' = history \/ \E n \in Turns : Answered(n) /\ UNCHANGED callPageVars
              /\ \/ segments' = segments
                 \/ \E n \in Turns : ChunkSpoken(n) /\ UNCHANGED callPageVars
  <1>1. CASE UNCHANGED systemVars
    <2>1. posted \in Nat
      BY TurnNumbers, SMT
    <2> QED
      BY <1>1, <2>1, SMT DEF systemVars, serverVars, callPageVars, turnVars, Onward
  <1>2. CASE PageStep(User) \/ PageStep(Setup) \/ PageStep(RecorderStops)
    BY <1>2, PageOnward DEF PageStep, serverVars
  <1>3. ASSUME NEW n \in Turns,
               \/ Unreachable(n) \/ ResponseLost(n) \/ Response(n)
               \/ StreamBreaks(n) \/ PageStep(Play(n)) \/ Read(n)
        PROVE  Onward /\ history' = history /\ segments' = segments
    BY <1>3, PageOnward
    DEF Unreachable, ResponseLost, Response, StreamBreaks, PageStep, Read, serverVars
  <1>4. ASSUME NEW n \in Turns, Serve(n) \/ Noticed(n) \/ Request(n), ~Remember(n)
        PROVE  /\ Onward
               /\ history' = history \/ (Answered(n) /\ UNCHANGED callPageVars)
               /\ segments' = segments \/ (ChunkSpoken(n) /\ UNCHANGED callPageVars)
    <2>1. Onward
      <3>1. UNCHANGED callPageVars
        BY <1>4 DEF Serve, Noticed, Request
      <3>2. \/ Skip(n) \/ Heard(n) \/ Answered(n) \/ ChunkSpoken(n) \/ TurnFails(n)
            \/ Cancelled(n) \/ (flight[n].pc = "fetch" /\ Post(n, flight[n].call))
        BY <1>4 DEF Serve, Noticed, Request, Work
      <3> QED
        BY <3>1, <3>2, ServerOnward
    <2>2. /\ history' = history \/ (Answered(n) /\ UNCHANGED callPageVars)
          /\ segments' = segments \/ (ChunkSpoken(n) /\ UNCHANGED callPageVars)
      BY <1>4 DEF Serve, Noticed, Request, Work, Skip, Heard, Answered, ChunkSpoken,
         TurnFails, Cancelled, Post
    <2> QED
      BY <2>1, <2>2
  <1> QED
    BY <1>1, <1>2, <1>3, <1>4 DEF SystemNext, AtRest, Serve, Work, Noticed, Request

LEMMA NextRecords ==
    ASSUME SystemInv, TurnInv, HistoryInv, SegmentInv, [SystemNext]_systemVars
    PROVE  HistoryInv' /\ SegmentInv'
  <1>1. CASE \E n \in Turns : Remember(n) /\ UNCHANGED callPageVars
    BY <1>1, RememberHistory, SegmentAdded
  <1>2. ASSUME Onward,
               \/ history' = history
               \/ \E n \in Turns : Answered(n) /\ UNCHANGED callPageVars
        PROVE  HistoryInv'
    BY <1>2, HistoryKept, AnsweredHistory
  <1>3. ASSUME Onward,
               \/ segments' = segments
               \/ \E n \in Turns : ChunkSpoken(n) /\ UNCHANGED callPageVars
        PROVE  SegmentInv'
    BY <1>3, SegmentsKept, SegmentAdded
  <1> QED
    BY <1>1, <1>2, <1>3, NextOnward

-----------------------------------------------------------------------------
(* The length of the history.                                              *)

\* Turns can be counted.
LEMMA TurnsCount ==
    /\ \A S \in SUBSET Turns : IsFiniteSet(S) /\ Cardinality(S) \in Nat
    /\ \A S, T \in SUBSET Turns : S \subseteq T => Cardinality(S) <= Cardinality(T)
    /\ \A S \in SUBSET Turns : \A n \in S : Cardinality(S \ {n}) = Cardinality(S) - 1
    /\ \A S \in SUBSET Turns : \A n \in Turns : Cardinality(S \cup {n}) <= Cardinality(S) + 1
  <1>1. IsFiniteSet(Turns)
    BY Ids, FS_Interval DEF Turns
  <1>2. \A S \in SUBSET Turns : IsFiniteSet(S) /\ Cardinality(S) \in Nat
    BY <1>1, FS_Subset, FS_CardinalityType
  <1>3. \A S, T \in SUBSET Turns : S \subseteq T => Cardinality(S) <= Cardinality(T)
    BY <1>2, FS_Subset
  <1>4. \A S \in SUBSET Turns : \A n \in S : Cardinality(S \ {n}) = Cardinality(S) - 1
    BY <1>2, FS_RemoveElement
  <1>5. \A S \in SUBSET Turns : \A n \in Turns : Cardinality(S \cup {n}) <= Cardinality(S) + 1
    <2> SUFFICES ASSUME NEW S \in SUBSET Turns, NEW n \in Turns
                 PROVE  Cardinality(S \cup {n}) <= Cardinality(S) + 1
      OBVIOUS
    <2>1. IsFiniteSet(S) /\ Cardinality(S) \in Nat
      BY <1>2
    <2>2. Cardinality(S \cup {n}) = IF n \in S THEN Cardinality(S) ELSE Cardinality(S) + 1
      BY <2>1, FS_AddElement
    <2> QED
      BY <2>1, <2>2, SMT
  <1> QED
    BY <1>2, <1>3, <1>4, <1>5

LEMMA InitLength == SystemInit => LengthInv
  <1> SUFFICES ASSUME SystemInit, NEW c \in Calls
               PROVE  Len(history[c]) + Cardinality(Asking(c))
                         <= MAX_TURNS + 1 + Cardinality(Failed(c))
    BY DEF LengthInv
  <1>1. Len(history[c]) = 0
    BY SMT DEF SystemInit, ServerInit
  <1>2. Asking(c) = {}
    BY SMT DEF SystemInit, ServerInit, Asking
  <1>3. Cardinality({}) = 0
    BY FS_EmptySet
  <1>4. Cardinality(Failed(c)) \in Nat
    BY TurnsCount DEF Failed
  <1> QED
    BY <1>1, <1>2, <1>3, <1>4, Ids, SMT

\* A turn at work is the latest, or one of its call that failed.
LEMMA AskingTurns ==
    ASSUME SystemInv, TurnInv, NEW n \in Turns, turn[n].pc \in AtWork
    PROVE  n = posted \/ n \in Failed(CallOf(n))
  <1>1. turn[n].call = flight[n].call
    BY SMT DEF TurnInv, StreamIsWhole, AtWork
  <1> QED
    BY <1>1, WorkIsLatest DEF Failed, CallOf

\* Turns that ask only become fewer and failed ones more, but for Remember.
LEMMA OnwardCounts ==
    ASSUME SystemInv, Onward, NEW c \in Calls
    PROVE  /\ Asking(c)' \in SUBSET Asking(c) /\ Asking(c) \in SUBSET Turns
           /\ Failed(c) \in SUBSET Failed(c)' /\ Failed(c)' \in SUBSET Turns
           /\ Cardinality(Asking(c)') <= Cardinality(Asking(c))
           /\ Cardinality(Failed(c)) <= Cardinality(Failed(c)')
           /\ Cardinality(Asking(c)) \in Nat /\ Cardinality(Asking(c)') \in Nat
           /\ Cardinality(Failed(c)) \in Nat /\ Cardinality(Failed(c)') \in Nat
  <1>1. /\ Asking(c)' \in SUBSET Asking(c) /\ Asking(c) \in SUBSET Turns
        /\ Failed(c) \in SUBSET Failed(c)' /\ Failed(c)' \in SUBSET Turns
    BY SMT DEF Onward, Asking, Failed
  <1> QED
    BY <1>1, TurnsCount

\* A question cuts the history down to the window, and of the answers that are
\* still to come only one is not of a turn that failed.
LEMMA RememberLength ==
    ASSUME SystemInv, TurnInv, LengthInv, UNCHANGED callPageVars,
           NEW n \in Turns, Remember(n)
    PROVE  LengthInv'
  <1> DEFINE b == CallOf(n)
             a == Append(history[b], Side("user", n))
  <1>1. turn[n].pc = "heard" /\ turn[n].pc \in AtWork
    BY SMT DEF Remember, AtWork
  <1>2. /\ flight' = flight /\ b \in Calls /\ history[b] \in Seq(SideType)
        /\ history \in [Calls -> Seq(SideType)]
    BY <1>1, ServerFrame DEF SystemInv, SystemTypeOK, ServerTypeOK
  <1>3. a \in Seq(SideType)
    BY <1>2, AppendLast, SMT DEF Side, SideType
  <1>4. Len(Trimmed(a)) <= MAX_TURNS /\ Len(Trimmed(a)) \in Nat
    <2>1. Len(Trimmed(a)) <= MAX_TURNS /\ Trimmed(a) \in Seq(SideType)
      BY <1>3, TrimmedSuffix, TrimmedType
    <2> QED
      BY <2>1
  <1> HIDE DEF a
  <1>5. /\ history' = [history EXCEPT ![b] = Trimmed(a)]
        /\ turn'[n].pc = "llm" /\ turn'[n].call = b
        /\ \A m \in Turns : m # n => turn'[m] = turn[m]
    BY SMT DEF Remember, Proceed, CallOf, SystemInv, SystemTypeOK, ServerTypeOK, TurnType, a
  <1>6. \A c : Failed(c)' = Failed(c) /\ Failed(c) \in SUBSET Turns
    BY <1>2 DEF Failed
  <1> SUFFICES ASSUME NEW c \in Calls
               PROVE  Len(history'[c]) + Cardinality(Asking(c)')
                         <= MAX_TURNS + 1 + Cardinality(Failed(c))
    BY <1>6 DEF LengthInv
  <1>7. CASE c # b
    <2>1. Asking(c)' = Asking(c)
      BY <1>1, <1>5, <1>7, SMT DEF Asking, CallOf
    <2>2. history'[c] = history[c]
      BY <1>2, <1>5, <1>7
    <2> QED
      BY <2>1, <2>2 DEF LengthInv
  <1>8. CASE c = b
    <2>1. history'[c] = Trimmed(a)
      BY <1>2, <1>5, <1>8
    <2>2. \A m \in Asking(c)' : m = posted \/ m \in Failed(c)
      <3> SUFFICES ASSUME NEW m \in Turns, turn'[m].pc = "llm", turn'[m].call = c
                   PROVE  m = posted \/ m \in Failed(c)
        BY DEF Asking
      <3>1. turn[m].pc \in AtWork /\ CallOf(m) = c
        BY <1>1, <1>5, <1>8, SMT DEF AtWork, CallOf
      <3> QED
        BY <3>1, AskingTurns
    <2>3. posted \in Turns
      BY <1>1, TurnNumbers, SMT DEF TurnInv, StreamIsWhole, AtWork, Turns
    <2>4. /\ Asking(c)' \in SUBSET Turns /\ Failed(c) \cup {posted} \in SUBSET Turns
          /\ Asking(c)' \subseteq Failed(c) \cup {posted}
      BY <1>6, <2>2, <2>3 DEF Asking
    <2>5. /\ Cardinality(Asking(c)') <= Cardinality(Failed(c) \cup {posted})
          /\ Cardinality(Failed(c) \cup {posted}) <= Cardinality(Failed(c)) + 1
          /\ Cardinality(Asking(c)') \in Nat /\ Cardinality(Failed(c)) \in Nat
          /\ Cardinality(Failed(c) \cup {posted}) \in Nat
      BY <1>6, <2>3, <2>4, TurnsCount
    <2> QED
      BY <1>4, <2>1, <2>5, Ids, SMT
  <1> QED
    BY <1>7, <1>8

\* An answer makes the history longer and the turns that ask fewer.
LEMMA AnsweredLength ==
    ASSUME SystemInv, TurnInv, LengthInv, Onward, UNCHANGED callPageVars,
           NEW n \in Turns, Answered(n)
    PROVE  LengthInv'
  <1> DEFINE b == CallOf(n)
             a == Append(history[b], Side("agent", n))
  <1>1. turn[n].pc = "llm" /\ turn[n].pc \in AtWork
    BY SMT DEF Answered, AtWork
  <1>2. /\ flight' = flight /\ b \in Calls /\ history[b] \in Seq(SideType)
        /\ history \in [Calls -> Seq(SideType)]
    BY <1>1, ServerFrame DEF SystemInv, SystemTypeOK, ServerTypeOK
  <1>3. Len(a) = Len(history[b]) + 1 /\ Len(history[b]) \in Nat
    BY <1>2, AppendLast, SMT DEF Side, SideType
  <1> HIDE DEF a
  <1>4. history' = [history EXCEPT ![b] = a] /\ turn'[n].pc # "llm"
    BY SMT DEF Answered, Proceed, CallOf, SystemInv, SystemTypeOK, ServerTypeOK, TurnType, a
  <1> SUFFICES ASSUME NEW c \in Calls
               PROVE  Len(history'[c]) + Cardinality(Asking(c)')
                         <= MAX_TURNS + 1 + Cardinality(Failed(c)')
    BY DEF LengthInv
  <1>5. Len(history[c]) \in Nat
    BY <1>2, SMT
  <1>6. Len(history[c]) + Cardinality(Asking(c)) <= MAX_TURNS + 1 + Cardinality(Failed(c))
    BY DEF LengthInv
  <1>7. CASE c # b
    <2>1. history'[c] = history[c]
      BY <1>2, <1>4, <1>7
    <2> QED
      BY <1>5, <1>6, <2>1, OnwardCounts, Ids, SMT
  <1>8. CASE c = b
    <2>1. Len(history'[c]) = Len(history[c]) + 1
      BY <1>2, <1>3, <1>4, <1>8
    <2>2. n \in Asking(c) /\ n \notin Asking(c)'
      BY <1>1, <1>4, <1>8 DEF Asking, CallOf
    <2>3. /\ Asking(c)' \subseteq Asking(c) \ {n} /\ Asking(c) \ {n} \in SUBSET Turns
          /\ Asking(c)' \in SUBSET Turns /\ Asking(c) \in SUBSET Turns
      BY <2>2, OnwardCounts
    <2>4. /\ Cardinality(Asking(c)') <= Cardinality(Asking(c) \ {n})
          /\ Cardinality(Asking(c) \ {n}) = Cardinality(Asking(c)) - 1
      BY <2>2, <2>3, TurnsCount
    <2> QED
      BY <1>5, <1>6, <2>1, <2>4, OnwardCounts, Ids, SMTT(30)
  <1> QED
    BY <1>7, <1>8

LEMMA NextLength ==
    ASSUME SystemInv, TurnInv, LengthInv, [SystemNext]_systemVars
    PROVE  LengthInv'
  <1>1. CASE \E n \in Turns : Remember(n) /\ UNCHANGED callPageVars
    BY <1>1, RememberLength
  <1>2. CASE Onward /\ \E n \in Turns : Answered(n) /\ UNCHANGED callPageVars
    BY <1>2, AnsweredLength
  <1>3. CASE Onward /\ history' = history
    <2> SUFFICES ASSUME NEW c \in Calls
                 PROVE  Len(history[c]) + Cardinality(Asking(c)')
                           <= MAX_TURNS + 1 + Cardinality(Failed(c)')
      BY <1>3 DEF LengthInv
    <2>1. Len(history[c]) \in Nat
      BY SMT DEF SystemInv, SystemTypeOK, ServerTypeOK
    <2>2. Len(history[c]) + Cardinality(Asking(c)) <= MAX_TURNS + 1 + Cardinality(Failed(c))
      BY DEF LengthInv
    <2> QED
      BY <1>3, <2>1, <2>2, OnwardCounts, Ids, SMT
  <1> QED
    BY <1>1, <1>2, <1>3, NextOnward

-----------------------------------------------------------------------------
(* What is heard is recorded.                                              *)

\* Where y is in a sequence.
Places(s, y) == {i \in DOMAIN s : s[i] = y}

\* The segments of a turn are counted one by one.
LEMMA SegmentsCount ==
    ASSUME NEW s \in Seq(SideType), NEW x \in SideType, NEW y
    PROVE  /\ Cardinality(Places(s, y)) \in Nat
           /\ Cardinality(Places(Append(s, x), y)) \in Nat
           /\ x # y => Cardinality(Places(Append(s, x), y)) = Cardinality(Places(s, y))
           /\ x = y => Cardinality(Places(Append(s, x), y)) = Cardinality(Places(s, y)) + 1
  <1> DEFINE old == Places(s, y)
             a == Append(s, x)
             new == Places(a, y)
             k == Len(s) + 1
  <1>1. /\ DOMAIN s = 1 .. Len(s) /\ DOMAIN a = 1 .. k /\ Len(s) \in Nat
        /\ k \notin DOMAIN s /\ DOMAIN a = DOMAIN s \cup {k}
    BY AppendLast, SMT
  <1>2. a[k] = x /\ \A i \in DOMAIN s : a[i] = s[i]
    BY <1>1, AppendLast
  <1>3. IsFiniteSet(old) /\ Cardinality(old) \in Nat
    <2>1. IsFiniteSet(1 .. Len(s))
      BY <1>1, FS_Interval, SMT
    <2>2. old \subseteq 1 .. Len(s)
      BY <1>1 DEF Places
    <2> QED
      BY <2>1, <2>2, FS_Subset, FS_CardinalityType
  <1> HIDE DEF a, k
  <1>4. CASE x # y
    <2>1. new = old
      BY <1>1, <1>2, <1>4 DEF Places
    <2> QED
      BY <1>3, <1>4, <2>1 DEF a
  <1>5. CASE x = y
    <2>1. new = old \cup {k} /\ k \notin old
      BY <1>1, <1>2, <1>5 DEF Places
    <2>2. Cardinality(new) = Cardinality(old) + 1
      BY <1>3, <2>1, FS_AddElement
    <2> HIDE DEF old, new
    <2>3. Cardinality(new) \in Nat
      BY <1>3, <2>2, SMT
    <2> QED
      BY <1>3, <1>5, <2>2, <2>3 DEF a, old, new
  <1> QED
    BY <1>4, <1>5

LEMMA InitAudible == SystemInit => AudibleIsOnRecord
  BY SMT DEF SystemInit, ServerInit, AudibleIsOnRecord

\* The types of the two sides of AudibleIsOnRecord.
LEMMA RecordedTypes ==
    ASSUME SystemInv, TurnInv, NEW n \in Turns, turn[n].pc # "none"
    PROVE  /\ flight[n].call \in Calls /\ flight[n].call = CallOf(n)
           /\ flight[n].pc # "none" /\ Cardinality(Recorded(n)) \in Nat
  <1>1. flight[n].call \in Calls /\ flight[n].call = CallOf(n) /\ flight[n].pc # "none"
    <2>1. CallOf(n) \in Calls /\ turn[n].call = flight[n].call /\ flight[n].pc # "none"
      BY TurnNumbers DEF TurnInv, StreamIsWhole
    <2> QED
      BY <2>1 DEF CallOf
  <1>2. segments[flight[n].call] \in Seq(SideType)
    BY <1>1 DEF SystemInv, SystemTypeOK, ServerTypeOK
  <1>3. /\ DOMAIN segments[flight[n].call] = 1 .. Len(segments[flight[n].call])
        /\ Len(segments[flight[n].call]) \in Nat
    BY <1>2, SMT
  <1>4. IsFiniteSet(DOMAIN segments[flight[n].call])
    BY <1>3, FS_Interval, SMT
  <1>5. Recorded(n) \subseteq DOMAIN segments[flight[n].call]
    BY DEF Recorded
  <1> QED
    BY <1>1, <1>4, <1>5, FS_Subset, FS_CardinalityType

LEMMA HeardTypes ==
    SystemInv =>
       \A n \in Turns :
          /\ ToBeHeard(n) \in Nat /\ flight[n].queue \in Nat
          /\ stream[n] \in Seq({"skip", "chunk"}) /\ Len(stream[n]) \in Nat
          /\ turn[n].clips \in Nat
          /\ turn[n].pc = "none" => turn[n].clips = 0
  <1> SUFFICES ASSUME SystemInv, NEW n \in Turns
               PROVE  /\ ToBeHeard(n) \in Nat /\ flight[n].queue \in Nat
                      /\ stream[n] \in Seq({"skip", "chunk"}) /\ Len(stream[n]) \in Nat
                      /\ turn[n].clips \in Nat
                      /\ turn[n].pc = "none" => turn[n].clips = 0
    OBVIOUS
  <1>1. flight[n].queue \in Nat
    BY Zenon DEF SystemInv, SystemTypeOK, CallPageTypeOK, FlightType
  <1>2. stream[n] \in Seq({"skip", "chunk"}) /\ Len(stream[n]) \in Nat
    BY SMT DEF SystemInv, SystemTypeOK, ServerTypeOK
  <1>3. turn[n].clips \in 0 .. MaxChunks
    BY Zenon DEF SystemInv, SystemTypeOK, ServerTypeOK, TurnType
  <1>4. turn[n].pc = "none" => turn[n].clips = 0
    BY DEF SystemInv, StreamInv
  <1> QED
    BY <1>1, <1>2, <1>3, <1>4, Ids, SMT DEF ToBeHeard

\* A step that writes no segment and makes no clip, but may take some away.
LEMMA AudibleKept ==
    ASSUME SystemInv, SystemInv', TurnInv, AudibleIsOnRecord, segments' = segments,
           \A n \in Turns : turn'[n].clips > 0 => turn[n].clips > 0,
           \A n \in Turns :
              turn[n].clips > 0 /\ turn'[n].clips > 0 =>
                 /\ flight'[n].call = flight[n].call
                 /\ flight'[n].queue + Len(stream'[n]) <= flight[n].queue + Len(stream[n])
    PROVE  AudibleIsOnRecord'
  <1> SUFFICES ASSUME NEW n \in Turns, turn'[n].clips > 0
               PROVE  ToBeHeard(n)' <= Cardinality(Recorded(n)')
    BY DEF AudibleIsOnRecord
  <1>1. turn[n].clips > 0 /\ turn[n].pc # "none"
    BY HeardTypes, SMT
  <1>2. Recorded(n)' = Recorded(n)
    BY <1>1 DEF Recorded
  <1>3. ToBeHeard(n) <= Cardinality(Recorded(n)) /\ Cardinality(Recorded(n)) \in Nat
    BY <1>1, RecordedTypes DEF AudibleIsOnRecord
  <1>4. ToBeHeard(n) \in Nat /\ ToBeHeard(n)' \in Nat
    <2>1. flight'[n].queue \in Nat
      BY Zenon DEF SystemInv, SystemTypeOK, CallPageTypeOK, FlightType
    <2>2. Len(stream'[n]) \in Nat
      BY SMT DEF SystemInv, SystemTypeOK, ServerTypeOK
    <2>3. ToBeHeard(n)' \in Nat
      BY <2>1, <2>2, SMT DEF ToBeHeard
    <2> QED
      BY <2>3, HeardTypes
  <1>5. ToBeHeard(n)' <= ToBeHeard(n)
    BY <1>1 DEF ToBeHeard
  <1> QED
    BY <1>2, <1>3, <1>4, <1>5, SMT

\* The page plays what is queued, and lets go of it.
LEMMA AudiblePage ==
    ASSUME SystemInv, SystemInv', TurnInv, AudibleIsOnRecord, UNCHANGED serverVars,
           \/ User \/ Setup \/ RecorderStops
           \/ \E n \in Turns :
                 \/ FetchFails(n) \/ Responded(n) \/ ReadBreaks(n) \/ ReadEnd(n) \/ Play(n)
    PROVE  AudibleIsOnRecord'
  <1>a. UNCHANGED <<segments, turn, stream>>
    BY DEF serverVars
  <1> SUFFICES ASSUME NEW m \in Turns, turn[m].clips > 0
               PROVE  flight'[m].call = flight[m].call /\ flight'[m].queue <= flight[m].queue
    <2>1. \A n \in Turns : Len(stream[n]) \in Nat /\ flight[n].queue \in Nat
      BY HeardTypes
    <2>2. \A n \in Turns : flight'[n].queue \in Nat
      BY Zenon DEF SystemInv, SystemTypeOK, CallPageTypeOK, FlightType
    <2>3. \A n \in Turns :
             turn[n].clips > 0 => 
                /\ flight'[n].call = flight[n].call
                /\ flight'[n].queue + Len(stream'[n]) <= flight[n].queue + Len(stream[n])
      BY <1>a, <2>1, <2>2, SMT
    <2> QED
      BY <1>a, <2>3, AudibleKept
  <1>1. flight[m].pc # "none" /\ flight[m].queue \in Nat
    BY HeardTypes, SMT DEF TurnInv
  <1> USE DEF SystemInv, SystemTypeOK, CallPageTypeOK, FlightType
  <1>2. CASE UNCHANGED flight
    BY <1>1, <1>2, SMT
  <1>3. CASE RecorderStops /\ SendTurn
    <2>1. posted + 1 \in Turns /\ flight[posted + 1].pc = "none"
      BY <1>3, TurnNumbers, Ids, SMT DEF SendTurn, Turns, TurnInv
    <2> QED
      BY <1>1, <1>3, <2>1, SMT DEF SendTurn
  <1>4. ASSUME NEW n \in Turns,
               \/ FetchFails(n) \/ Responded(n) \/ ReadBreaks(n) \/ ReadEnd(n) \/ Play(n)
        PROVE  flight'[m].call = flight[m].call /\ flight'[m].queue <= flight[m].queue
    <2>1. CASE FetchFails(n) \/ Responded(n) \/ ReadBreaks(n) \/ ReadEnd(n) \/ AllPlayed(n)
      BY <1>1, <2>1, SMT DEF FetchFails, Responded, ReadBreaks, ReadEnd, AllPlayed, Leave
    <2>2. CASE ClipStarts(n) \/ ClipEnds(n) \/ ClipRejected(n)
      BY <1>1, <2>2, SMT DEF ClipStarts, ClipEnds, ClipRejected
    <2> QED
      BY <1>4, <2>1, <2>2 DEF Play
  <1> QED
    BY <1>2, <1>3, <1>4
    DEF User, StartCall, EndCall, LoopHears, LoopPauses, Setup, MicGranted, StartFails,
        CallOpened, ContextResumed, RecorderStops, turnVars

\* The page queues the clip that it takes off the wire.
LEMMA AudibleRead ==
    ASSUME SystemInv, SystemInv', TurnInv, AudibleIsOnRecord, NEW n \in Turns, Read(n)
    PROVE  AudibleIsOnRecord'
  <1>1. CASE /\ stream[n] # <<>>
             /\ ReadChunk(n) \/ ReadSkip(n)
             /\ stream' = [stream EXCEPT ![n] = Tail(@)]
             /\ UNCHANGED <<history, segments, turn>>
    <2>1. /\ Len(stream'[n]) = Len(stream[n]) - 1 /\ Len(stream[n]) \in Nat
          /\ \A m \in Turns : m # n => stream'[m] = stream[m]
      BY <1>1, SMT DEF SystemInv, SystemTypeOK, ServerTypeOK
    <2>2. /\ \A m \in Turns : flight'[m].call = flight[m].call
          /\ \A m \in Turns : m # n => flight'[m].queue = flight[m].queue
          /\ flight'[n].queue <= flight[n].queue + 1
          /\ flight'[n].queue \in Nat /\ flight[n].queue \in Nat
      <3>1. flight \in [Turns -> FlightType] /\ flight[n].queue \in Nat
        BY HeardTypes DEF SystemInv, SystemTypeOK, CallPageTypeOK
      <3>2. CASE ReadChunk(n)
        <4>1. flight' = [flight EXCEPT ![n].queue = @ + 1]
          BY <3>2 DEF ReadChunk
        <4> QED
          BY <3>1, <4>1, SMT DEF FlightType
      <3>3. CASE ReadSkip(n)
        <4>1. flight' = [flight EXCEPT ![n].pc = "over"]
          BY <3>3 DEF ReadSkip, Leave
        <4> QED
          BY <3>1, <4>1, SMT DEF FlightType
      <3> QED
        BY <1>1, <3>2, <3>3
    <2>3. \A m \in Turns : Len(stream[m]) \in Nat /\ flight[m].queue \in Nat
      BY HeardTypes
    <2>4. \A m \in Turns :
             flight'[m].queue + Len(stream'[m]) <= flight[m].queue + Len(stream[m])
      <3> TAKE m \in Turns
      <3>1. CASE m = n
        BY <2>1, <2>2, <3>1, SMT
      <3>2. CASE m # n
        BY <2>1, <2>2, <2>3, <3>2, SMT
      <3> QED
        BY <3>1, <3>2
    <2> QED
      BY <1>1, <2>2, <2>4, AudibleKept
  <1>2. CASE PageStep(ReadEnd(n))
    BY <1>2, AudiblePage DEF PageStep
  <1> QED
    BY <1>1, <1>2 DEF Read

\* The server goes on with a turn of which it says nothing.
LEMMA AudibleSilent ==
    ASSUME SystemInv, SystemInv', TurnInv, AudibleIsOnRecord, UNCHANGED callPageVars,
           NEW n \in Turns,
           \/ Skip(n) \/ Heard(n) \/ Answered(n) \/ TurnFails(n)
           \/ Cancelled(n) \/ (flight[n].pc = "fetch" /\ Post(n, flight[n].call))
    PROVE  AudibleIsOnRecord'
  <1>1. flight' = flight /\ segments' = segments
    BY DEF callPageVars, turnVars, Skip, Heard, Answered, TurnFails, Cancelled, Post
  <1>2. \A m \in Turns : m # n => turn'[m] = turn[m] /\ stream'[m] = stream[m]
    BY SMT DEF Skip, Heard, Answered, TurnFails, Cancelled, Post, Proceed,
       SystemInv, SystemTypeOK, ServerTypeOK
  <1>3. turn'[n].clips > 0 => turn[n].clips > 0 /\ stream' = stream
    <2>1. CASE Skip(n)
      <3>1. turn[n].clips = 0
        BY <2>1 DEF Skip, SystemInv, StreamInv
      <3>2. turn'[n].clips = turn[n].clips
        BY <2>1, SMT DEF Skip, Proceed, SystemInv, SystemTypeOK, ServerTypeOK, TurnType
      <3> QED
        BY <3>1, <3>2, SMT
    <2>2. CASE Heard(n) \/ Answered(n) \/ TurnFails(n) \/ Cancelled(n)
      <3>1. PICK pc \in {"heard", "tts", "over"} : Proceed(n, pc)
        BY <2>2 DEF Heard, Answered, TurnFails, Cancelled
      <3>2. stream' = stream
        BY <2>2 DEF Heard, Answered, TurnFails, Cancelled
      <3> QED
        BY <3>1, <3>2, SMT DEF Proceed, SystemInv, SystemTypeOK, ServerTypeOK, TurnType
    <2>3. CASE Post(n, flight[n].call)
      BY <2>3, SMT DEF Post, SystemInv, SystemTypeOK, ServerTypeOK
    <2> QED
      BY <2>1, <2>2, <2>3
  <1>4. \A m \in Turns : flight[m].queue + Len(stream[m]) \in Nat
    BY HeardTypes, SMT
  <1>5. \A m \in Turns : turn'[m].clips > 0 =>
           /\ turn[m].clips > 0
           /\ flight'[m].queue + Len(stream'[m]) <= flight[m].queue + Len(stream[m])
    <2> TAKE m \in Turns
    <2>1. turn'[m].clips > 0 => turn[m].clips > 0 /\ stream'[m] = stream[m]
      BY <1>2, <1>3
    <2> QED
      BY <1>1, <1>4, <2>1, SMT
  <1> QED
    BY <1>1, <1>5, AudibleKept

\* A question adds nothing to the answer's segments; a clip is put on the wire
\* with its segment, and the first one of a turn finds the wire empty.
LEMMA AudibleAdded ==
    ASSUME SystemInv, TurnInv, AudibleIsOnRecord, UNCHANGED callPageVars,
           NEW n \in Turns, Remember(n) \/ ChunkSpoken(n)
    PROVE  AudibleIsOnRecord'
  <1> DEFINE c == CallOf(n)
             who == IF turn[n].pc = "heard" THEN "user" ELSE "agent"
  <1>1. /\ flight' = flight /\ c \in Calls /\ flight[n].call = c
        /\ turn[n].pc \in {"heard", "tts"}
    <2>1. turn[n].pc \in {"heard", "tts"}
      BY DEF Remember, ChunkSpoken
    <2> QED
      BY <2>1, RecordedTypes DEF callPageVars, turnVars
  <1>2. /\ segments' = [segments EXCEPT ![c] = Append(@, Side(who, n))]
        /\ segments \in [Calls -> Seq(SideType)]
        /\ who = IF Remember(n) THEN "user" ELSE "agent"
    BY DEF Remember, ChunkSpoken, SystemInv, SystemTypeOK, ServerTypeOK
  <1>3. who \in {"user", "agent"} /\ Side(who, n) \in SideType
    BY SMT DEF Side, SideType
  <1>4. /\ \A m \in Turns : m # n => turn'[m] = turn[m] /\ stream'[m] = stream[m]
        /\ who = "user" => turn'[n].clips = turn[n].clips /\ stream' = stream
        /\ who = "agent" => Len(stream'[n]) = Len(stream[n]) + 1 /\ turn[n].pc = "tts"
    <2>1. CASE Remember(n)
      BY <1>2, <2>1, SMT
      DEF Remember, Proceed, SystemInv, SystemTypeOK, ServerTypeOK, TurnType
    <2>2. CASE ChunkSpoken(n)
      <3>1. PICK more \in BOOLEAN :
               turn' = [turn EXCEPT ![n].pc = IF more THEN "tts" ELSE "over",
                                    ![n].clips = @ + 1]
        BY <2>2 DEF ChunkSpoken
      <3>2. \A m \in Turns : m # n => turn'[m] = turn[m]
        BY <3>1 DEF SystemInv, SystemTypeOK, ServerTypeOK
      <3>3. /\ Len(stream'[n]) = Len(stream[n]) + 1
            /\ \A m \in Turns : m # n => stream'[m] = stream[m]
        <4>1. stream' = [stream EXCEPT ![n] = Append(@, "chunk")]
          BY <2>2, Zenon DEF ChunkSpoken
        <4>2. stream \in [Turns -> Seq({"skip", "chunk"})]
          BY Zenon DEF SystemInv, SystemTypeOK, ServerTypeOK
        <4> QED
          BY <4>1, <4>2, SMT
      <3>4. turn[n].pc = "tts" /\ who = "agent"
        BY <2>2, SMT DEF ChunkSpoken
      <3> QED
        BY <3>2, <3>3, <3>4
    <2> QED
      BY <2>1, <2>2
  <1> HIDE DEF who, c
  <1> SUFFICES ASSUME NEW m \in Turns, turn'[m].clips > 0
               PROVE  ToBeHeard(m)' <= Cardinality(Recorded(m)')
    BY DEF AudibleIsOnRecord
  <1>5. /\ ToBeHeard(m) \in Nat /\ Len(stream[m]) \in Nat /\ flight[m].queue \in Nat
        /\ turn[m].clips \in Nat /\ (turn[m].pc = "none" => turn[m].clips = 0)
    BY HeardTypes
  <1>6. turn[m].pc # "none"
    BY <1>1, <1>4, <1>5, SMT
  <1>7. flight[m].call \in Calls /\ Cardinality(Recorded(m)) \in Nat
    BY <1>6, RecordedTypes
  <1>8. /\ Cardinality(Recorded(m)') \in Nat
        /\ Side(who, n) # Side("agent", m) => Cardinality(Recorded(m)') = Cardinality(Recorded(m))
        /\ Side(who, n) = Side("agent", m) /\ flight[m].call = c =>
              Cardinality(Recorded(m)') = Cardinality(Recorded(m)) + 1
    <2>1. CASE flight[m].call = c
      <3>1. /\ segments[c] \in Seq(SideType)
            /\ segments'[c] = Append(segments[c], Side(who, n))
        BY <1>1, <1>2
      <3>2. /\ Recorded(m) = Places(segments[c], Side("agent", m))
            /\ Recorded(m)' = Places(Append(segments[c], Side(who, n)), Side("agent", m))
        BY <1>1, <2>1, <3>1 DEF Recorded, Side, Places
      <3> QED
        BY <1>3, <2>1, <3>1, <3>2, SegmentsCount
    <2>2. CASE flight[m].call # c
      <3>1. segments'[flight[m].call] = segments[flight[m].call]
        BY <1>1, <1>2, <1>7, <2>2
      <3>2. Recorded(m)' = Recorded(m)
        BY <1>1, <3>1 DEF Recorded, Side
      <3> QED
        BY <1>1, <1>7, <2>2, <3>2
    <2> QED
      BY <2>1, <2>2
  <1>9. CASE m # n \/ who = "user"
    <2>1. Side(who, n) # Side("agent", m)
      BY <1>9, SMT DEF Side
    <2>2. turn'[m].clips = turn[m].clips /\ stream'[m] = stream[m]
      BY <1>4, <1>9
    <2>3. ToBeHeard(m)' = ToBeHeard(m)
      BY <1>1, <2>2 DEF ToBeHeard
    <2>4. ToBeHeard(m) <= Cardinality(Recorded(m))
      BY <2>2 DEF AudibleIsOnRecord
    <2> QED
      BY <1>8, <2>1, <2>3, <2>4
  <1>10. CASE m = n /\ who = "agent"
    <2>1. Cardinality(Recorded(m)') = Cardinality(Recorded(m)) + 1
      BY <1>1, <1>8, <1>10
    <2>2. ToBeHeard(m)' = ToBeHeard(m) + 1
      BY <1>1, <1>4, <1>5, <1>10, SMT DEF ToBeHeard
    <2>3. CASE turn[m].clips > 0
      <3>1. ToBeHeard(m) <= Cardinality(Recorded(m))
        BY <2>3 DEF AudibleIsOnRecord
      <3> QED
        BY <1>5, <1>7, <2>1, <2>2, <3>1, SMT
    <2>4. CASE turn[m].clips = 0
      <3>1. \A i \in DOMAIN stream[m] : FALSE
        <4> SUFFICES ASSUME NEW i \in DOMAIN stream[m] PROVE FALSE
          OBVIOUS
        <4>1. turn[m].pc = "tts"
          BY <1>4, <1>10
        <4>2. IF stream[m][i] = "skip" THEN turn[m].clips = 0 /\ turn[m].pc = "over"
                                       ELSE turn[m].clips > 0
          BY DEF SystemInv, StreamInv
        <4> QED
          BY <2>4, <4>1, <4>2, SMT
      <3>2. Len(stream[m]) = 0
        <4>1. DOMAIN stream[m] = 1 .. Len(stream[m])
          BY HeardTypes, SMT
        <4>2. Len(stream[m]) # 0 => 1 \in 1 .. Len(stream[m])
          BY <1>5, SMT
        <4> QED
          BY <3>1, <4>1, <4>2, Zenon
      <3>3. flight[m].queue = 0
        BY <1>5, <2>4, SMT DEF SystemInv, StreamInv
      <3>4. ToBeHeard(m) = 0
        BY <3>2, <3>3, SMT DEF ToBeHeard
      <3> QED
        BY <1>7, <2>1, <2>2, <3>4, SMT
    <2> QED
      BY <1>5, <2>3, <2>4, SMT
  <1> QED
    BY <1>3, <1>9, <1>10

LEMMA NextAudible ==
    ASSUME SystemInv, SystemInv', TurnInv, AudibleIsOnRecord, [SystemNext]_systemVars
    PROVE  AudibleIsOnRecord'
  <1>1. CASE UNCHANGED systemVars
    BY <1>1, Zenon
    DEF systemVars, serverVars, callPageVars, turnVars, AudibleIsOnRecord, ToBeHeard, Recorded
  <1>2. CASE PageStep(User) \/ PageStep(Setup) \/ PageStep(RecorderStops)
    BY <1>2, AudiblePage DEF PageStep
  <1>3. ASSUME NEW n \in Turns,
               \/ Unreachable(n) \/ ResponseLost(n) \/ Response(n)
               \/ StreamBreaks(n) \/ PageStep(Play(n))
        PROVE  AudibleIsOnRecord'
    BY <1>3, AudiblePage DEF Unreachable, ResponseLost, Response, StreamBreaks, PageStep
  <1>4. ASSUME NEW n \in Turns, Serve(n) \/ Noticed(n) \/ Request(n)
        PROVE  AudibleIsOnRecord'
    BY <1>4, AudibleSilent, AudibleAdded DEF Serve, Work, Noticed, Request
  <1> QED
    BY <1>1, <1>2, <1>3, <1>4, AudibleRead DEF SystemNext, AtRest

-----------------------------------------------------------------------------
(* The theorems.                                                           *)

\* The inductive invariant of what the two sides keep of a call.
RecordInv ==
    TurnInv /\ RecorderInv /\ HistoryInv /\ SegmentInv /\ LengthInv /\ AudibleIsOnRecord

\* RecordInv is invariant: what the page and the server know of a turn agrees,
\* and what the server keeps of a call was written turn by turn.
THEOREM RecordInvariant == SystemSpec => [](SystemInv /\ RecordInv)
  <1>1. SystemInit => RecordInv
    BY InitRecords, InitLength, InitAudible DEF RecordInv
  <1>2. SystemInv /\ RecordInv /\ [SystemNext]_systemVars => RecordInv'
    BY NextInv, NextTurns, NextRecorder, NextRecords, NextLength, NextAudible DEF RecordInv
  <1>3. SystemSpec => []SystemInv
    BY SystemInvariant
  <1> QED
    BY <1>1, <1>2, <1>3, PTL DEF SystemSpec

\* A recorder runs on with no variable to stop it by only where a turn that an
\* earlier call left under way ends in this call and arms a second one (resume
\* in call.html); no step of the user, of startCall or of onstop does it.
THEOREM StrayFromOldTurn == SystemSpec => StrayOnlyFromOldTurn
  <1>1. SystemInv /\ RecordInv /\ [SystemNext]_systemVars =>
           [orphans' > orphans =>
               \E n \in Turns : /\ InFlight(n) /\ flight[n].call < call
                                /\ flight'[n].pc \in {"failed", "over"}]_systemVars
    BY StrayStep DEF RecordInv
  <1> QED
    BY <1>1, RecordInvariant, PTL DEF SystemSpec, StrayOnlyFromOldTurn

\* No clip is ahead of the recording: whatever is queued at the page or on its
\* way there is in the recording of the call in which the turn was asked (the
\* callId that sendTurn put into the form), also when that call is over and
\* another one is live.
THEOREM HeardAfterRecorded == SystemSpec => []AudibleIsOnRecord
  <1>1. RecordInv => AudibleIsOnRecord
    BY DEF RecordInv
  <1> QED
    BY <1>1, RecordInvariant, PTL

\* What the LLM is shown of a call is a conversation: one question for each
\* turn, then its answer, turn after turn, however turns that failed at the page
\* went on at the server and cut the history (call_turn of call.py).
THEOREM HistoryPaired == SystemSpec => []CallHistoryPaired
  <1>1. RecordInv => CallHistoryPaired
    BY DEF RecordInv, HistoryInv
  <1> QED
    BY <1>1, RecordInvariant, PTL

\* The recording of a call is in the order it was spoken, but for turns that
\* failed: each turn's caller, then its agent, and no turn is taken up again.
THEOREM RecordingInOrder == SystemSpec => []SpokenOrder
  <1>1. RecordInv => SpokenOrder
    BY DEF RecordInv, SegmentInv
  <1> QED
    BY <1>1, RecordInvariant, PTL

\* The history of a call is bounded, however long the call is: the window, an
\* answer, and one more line at most for each turn that failed.
THEOREM HistoryStaysBounded == SystemSpec => []HistoryBounded
  <1>1. SystemInv /\ RecordInv => HistoryBounded
    <2> SUFFICES ASSUME SystemInv, LengthInv, NEW c \in Calls
                 PROVE  Len(history[c]) <= MAX_TURNS + 1 + Cardinality(Failed(c))
      BY DEF HistoryBounded, RecordInv
    <2>1. Cardinality(Asking(c)) \in Nat /\ Cardinality(Failed(c)) \in Nat
      BY TurnsCount DEF Asking, Failed
    <2>2. Len(history[c]) \in Nat
      BY SMT DEF SystemInv, SystemTypeOK, ServerTypeOK
    <2> QED
      BY <2>1, <2>2, Ids, SMT DEF LengthInv
  <1> QED
    BY <1>1, RecordInvariant, PTL
=============================================================================
