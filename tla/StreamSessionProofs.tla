------------------------ MODULE StreamSessionProofs -------------------------
(***************************************************************************)
(* Proofs about the streaming session, for every frame length, threshold   *)
(* and bound.  FloorInv is the inductive invariant of who has the floor:   *)
(* one lemma per group of actions shows that its steps preserve it.  The   *)
(* second half is about what a session leaves behind: its history, what a  *)
(* reset clears, and the names of its recordings; and that it implements   *)
(* TurnTaking.  FloorInv says that one reply is alive; RecordInv says where *)
(* that reply is in the conversation.                                      *)
(***************************************************************************)
EXTENDS StreamTurns, TLAPS

LEMMA ConstantTypes ==
    /\ FrameMs \in Nat /\ MIN_VOICED_MS \in Nat /\ PAUSE_MIN_MS \in Nat
    /\ TURN_EVERY_MS \in Nat /\ HARD_STOP_MS \in Nat /\ BufFrames \in Nat
    /\ MaxTurns \in Nat /\ MaxClauses \in Nat
    /\ BufFrames # 0 /\ FrameMs # 0
  BY TimingAssumption, BoundsAssumption

\* The messages a step sends are a sequence of at most two.
LEMMA OutTypes ==
    /\ <<>> \in Seq(Outgoing)
    /\ \A k \in Kind, n \in Nat : <<Event(k, n)>> \in Seq(Outgoing)
    /\ \A r, s \in Seq(Outgoing) : r \o s \in Seq(Outgoing)
    /\ {"ready", "barge", "turn", "user", "empty", "done", "first_audio", "wav",
        "tts_error", "cancelled"} = Kind
  <1>1. \A k \in Kind, n \in Nat : Event(k, n) \in Outgoing
    BY DEF Event, Outgoing
  <1>2. \A k \in Kind, n \in Nat : <<Event(k, n)>> \in Seq(Outgoing)
    BY <1>1
  <1> QED
    BY <1>2 DEF Kind

LEMMA BlankTypes ==
    /\ \A pc \in PC : Blank(pc) \in TaskRecord
    /\ \A pc : Blank(pc).pc = pc /\ ~Blank(pc).cancel
  BY ConstantTypes DEF Blank, TaskRecord

LEMMA InitFloor == Init => FloorInv
  <1> SUFFICES ASSUME Init PROVE FloorInv
    OBVIOUS
  <1>1. NoTask \in TaskRecord /\ NoTask.pc = "none"
    BY BlankTypes DEF NoTask, PC
  <1>2. WireOK
    BY OutTypes DEF Init, WireOK, Handler
  <1>3. VadOK
    BY ConstantTypes DEF Init, VadOK
  <1>4. ReplyOK
    <2>1. reply \in Tasks \cup {None} /\ fired \in 0 .. MaxTurns
          /\ task \in [Tasks -> TaskRecord]
      BY ConstantTypes, <1>1 DEF Init
    <2>2. speaking \in BOOLEAN
      BY Zenon DEF Init
    <2> QED
      BY <2>1, <2>2 DEF ReplyOK
  <1>5. RecordOK
    <2>1. /\ history \in Seq(LogLine) /\ reset_mark \in Nat /\ turn_no \in Nat
          /\ clip \in Nat /\ files \in Seq(Recording)
      BY DEF Init
    <2>2. spoke \in BOOLEAN
      BY Zenon DEF Init
    <2> QED
      BY <2>1, <2>2 DEF RecordOK
  <1>6. OneReplyAtATime /\ SpeakingHasReply
    BY <1>1 DEF Init, OneReplyAtATime, SpeakingHasReply, Live, Waiting
  <1> QED
    BY <1>1, <1>2, <1>3, <1>4, <1>5, <1>6 DEF FloorInv, TypeOK, Init

-----------------------------------------------------------------------------
\* What FloorInv says of the reply variables does not depend on the others.
LEMMA FloorUnchanged ==
    ASSUME FloorInv, TypeOK', UNCHANGED replyVars,
           handler' = "detect" => reply = None /\ fired < MaxTurns
    PROVE  FloorInv'
  BY DEF FloorInv, replyVars, OneReplyAtATime, SpeakingHasReply, Live, Runnable

\* The caller's steps only touch the socket.
LEMMA CallerFloor ==
    ASSUME FloorInv, Caller
    PROVE  FloorInv'
  <1>1. UNCHANGED <<handler, vadVars, replyVars, voiceVars, logVars>>
    BY DEF Caller, Arrive, FallSilent, ClientCloses
  <1>2. WireOK'
    <2>1. ASSUME NEW m \in Message, Arrive(m)
          PROVE  WireOK'
      BY <2>1, OutTypes DEF FloorInv, TypeOK, WireOK, Arrive
    <2>2. CASE FallSilent
      BY <2>2, OutTypes DEF FloorInv, TypeOK, WireOK, FallSilent
    <2>3. CASE ClientCloses
      BY <2>3, OutTypes DEF FloorInv, TypeOK, WireOK, ClientCloses
    <2> QED
      BY <2>1, <2>2, <2>3 DEF Caller
  <1>3. VadOK' /\ ReplyOK' /\ RecordOK'
    BY <1>1 DEF FloorInv, TypeOK, VadOK, ReplyOK, RecordOK,
                vadVars, replyVars, voiceVars, logVars
  <1> QED
    BY <1>1, <1>2, <1>3, FloorUnchanged DEF FloorInv, TypeOK

\* A cancelled reply keeps its place and its record; only the mark changes.
LEMMA CancelKeeps ==
    ASSUME FloorInv, CancelReply
    PROVE  /\ ReplyOK'
           /\ speaking' = FALSE /\ reply' = reply /\ fired' = fired
           /\ \A t \in Tasks : task'[t].pc = task[t].pc
           /\ \A t \in Tasks : Live(t) => task'[t].cancel
  <1>1. CASE reply # None /\ Live(reply)
    <2>1. reply \in Tasks
      BY <1>1 DEF FloorInv, TypeOK, ReplyOK
    <2>2. task' = [task EXCEPT ![reply].cancel = TRUE]
      BY <1>1 DEF CancelReply
    <2>3. \A t \in Tasks : task[t] \in TaskRecord
      BY DEF FloorInv, TypeOK, ReplyOK
    <2>4. \A t \in Tasks : t # reply => task'[t] = task[t]
      BY <2>2 DEF FloorInv, TypeOK, ReplyOK
    <2>5. task'[reply] = [task[reply] EXCEPT !.cancel = TRUE]
      BY <2>1, <2>2 DEF FloorInv, TypeOK, ReplyOK
    <2>6. task'[reply] \in TaskRecord /\ task'[reply].pc = task[reply].pc
          /\ task'[reply].cancel
      BY <2>1, <2>3, <2>5 DEF TaskRecord
    <2>7. task' \in [Tasks -> TaskRecord]
      BY <2>2, <2>3, <2>4, <2>6 DEF FloorInv, TypeOK, ReplyOK
    <2>8. \A t \in Tasks : Live(t) => t = reply
      BY DEF FloorInv, OneReplyAtATime
    <2> QED
      BY <2>4, <2>6, <2>7, <2>8 DEF CancelReply, FloorInv, TypeOK, ReplyOK
  <1>2. CASE ~(reply # None /\ Live(reply))
    <2>1. \A t \in Tasks : ~Live(t)
      BY <1>2 DEF FloorInv, OneReplyAtATime, None, Tasks
    <2> QED
      BY <1>2, <2>1 DEF CancelReply, FloorInv, TypeOK, ReplyOK
  <1> QED
    BY <1>1, <1>2

\* A cancelled reply no longer speaks, and nothing else holds the floor.
LEMMA CancelFloor ==
    ASSUME FloorInv, CancelReply, WireOK', VadOK', RecordOK',
           handler' = "detect" => reply = None /\ fired < MaxTurns
    PROVE  FloorInv'
  <1>1. OneReplyAtATime'
    BY CancelKeeps DEF FloorInv, OneReplyAtATime, Live
  <1>2. SpeakingHasReply'
    BY CancelKeeps DEF SpeakingHasReply
  <1>3. \A t \in Tasks : ~(task'[t].pc \in {"llm", "tts", "drain"} /\ ~task'[t].cancel)
    BY CancelKeeps DEF Live, Waiting
  <1> QED
    BY <1>1, <1>2, <1>3, CancelKeeps DEF FloorInv, Runnable, TypeOK

-----------------------------------------------------------------------------
\* The counters of feed keep their types.
LEMMA FrameVad ==
    ASSUME FloorInv, NEW m \in Frames, HandleFrame(m)
    PROVE  VadOK' /\ handler' \in Handler
  <1> DEFINE v == m = "voiced"
  <1>1. /\ buf.len \in 0 .. BufFrames /\ buf.tail \in 0 .. BufFrames
        /\ voiced_ms \in 0 .. MIN_VOICED_MS
        /\ since_voice \in 0 .. HARD_STOP_MS + 1
        /\ since_check \in Nat
    BY DEF FloorInv, TypeOK, VadOK
  <1>2. /\ buf' = BufAfter(v) /\ voiced_ms' = VoicedAfter(v)
        /\ since_voice' = SilenceAfter(v) /\ Ask(v)
    BY DEF HandleFrame
  <1> HIDE DEF v
  <1>3. buf' \in [len : 0 .. BufFrames, tail : 0 .. BufFrames]
    <2>1. Min2(buf.len + 1, BufFrames) \in 0 .. BufFrames
      BY <1>1, ConstantTypes DEF Min2
    <2>2. Min2(buf.tail + 1, Min2(buf.len + 1, BufFrames)) \in 0 .. BufFrames
      BY <1>1, ConstantTypes DEF Min2
    <2> QED
      BY <1>2, <2>1, <2>2, ConstantTypes DEF BufAfter
  <1>4. voiced_ms' \in 0 .. MIN_VOICED_MS
    BY <1>1, <1>2, ConstantTypes DEF VoicedAfter, Min2
  <1>5. since_voice' \in 0 .. HARD_STOP_MS + 1
    <2>1. CASE v
      BY <1>2, <2>1, ConstantTypes DEF SilenceAfter
    <2>2. CASE ~v
      BY <1>1, <1>2, <2>2, ConstantTypes DEF SilenceAfter, Min2
    <2> QED
      BY <2>1, <2>2
  <1>6. since_check' \in Nat /\ handler' \in Handler
    <2>1. handler \in Handler
      BY DEF FloorInv, TypeOK, WireOK
    <2>2. since_check' \in {since_check, 0, since_check + FrameMs}
          /\ handler' \in {handler, "detect"}
      BY <1>2 DEF Ask
    <2> QED
      BY <1>1, <2>1, <2>2, ConstantTypes DEF Handler
  <1> QED
    BY <1>3, <1>4, <1>5, <1>6 DEF VadOK

LEMMA FrameFloor ==
    ASSUME FloorInv, NEW m \in Frames, HandleFrame(m)
    PROVE  FloorInv'
  <1> DEFINE v == m = "voiced"
  <1>1. VadOK' /\ handler' \in Handler
    BY FrameVad
  <1>2. RecordOK'
    BY DEF FloorInv, TypeOK, RecordOK, HandleFrame, voiceVars, logVars
  <1>3. /\ inbox' \in Seq(Message) /\ peer' \in {"open", "closed"}
        /\ caller' \in {"talking", "quiet"}
    BY DEF FloorInv, TypeOK, WireOK, HandleFrame, Received
  <1>4. handler' = "detect" => reply = None /\ fired < MaxTurns
    BY DEF HandleFrame, Received, Ask, GateOpen
  <1>5. CASE v /\ speaking
    <2>1. CancelReply /\ out' = <<Event("barge", turn_no)>>
      BY <1>5 DEF HandleFrame, BargeIn
    <2>2. turn_no \in Nat
      BY DEF FloorInv, TypeOK, RecordOK
    <2>3. WireOK'
      BY <1>1, <1>3, <2>1, <2>2, OutTypes DEF WireOK
    <2> QED
      BY <1>1, <1>2, <1>4, <2>1, <2>3, CancelFloor
  <1>6. CASE ~(v /\ speaking)
    <2>1. UNCHANGED replyVars /\ out' = <<>>
      BY <1>6 DEF HandleFrame, BargeIn
    <2>2. WireOK'
      BY <1>1, <1>3, <2>1, OutTypes DEF WireOK
    <2>3. ReplyOK'
      BY <2>1 DEF FloorInv, TypeOK, ReplyOK, replyVars
    <2> QED
      BY <1>1, <1>2, <1>4, <2>1, <2>2, <2>3, FloorUnchanged DEF TypeOK
  <1> QED
    BY <1>5, <1>6

\* A turn is taken only when no reply is alive, so the new task is alone.
LEMMA DetectFloor ==
    ASSUME FloorInv, Detect
    PROVE  FloorInv'
  <1>1. UNCHANGED wireVars /\ handler = "detect" /\ handler' \in {"recv", "raised"}
    BY DEF Detect, DetectorFails, DetectorAnswers
  <1>2. RecordOK'
    BY DEF FloorInv, TypeOK, RecordOK, Detect, DetectorFails, DetectorAnswers,
           voiceVars, logVars
  <1>3. WireOK'
    <2>1. out' \in Seq(Outgoing)
      BY OutTypes DEF Detect, DetectorFails, DetectorAnswers
    <2> QED
      BY <1>1, <2>1 DEF FloorInv, TypeOK, WireOK, Handler, wireVars
  <1>4. CASE UNCHANGED <<vadVars, replyVars>>
    <2>1. VadOK' /\ ReplyOK'
      BY <1>4 DEF FloorInv, TypeOK, VadOK, ReplyOK, vadVars, replyVars
    <2> QED
      BY <1>1, <1>2, <1>3, <1>4, <2>1, FloorUnchanged DEF TypeOK
  <1>5. ASSUME NEW c \in BOOLEAN, DetectorAnswers(c), TurnOver(c)
        PROVE  FloorInv'
    <2>1. reply = None /\ fired \in 0 .. MaxTurns /\ fired < MaxTurns /\ ~speaking
      BY <1>1 DEF FloorInv, SpeakingHasReply, TypeOK, ReplyOK
    <2>2. fired + 1 \in Tasks /\ fired + 1 \in 0 .. MaxTurns
      BY <2>1, ConstantTypes DEF Tasks
    <2>3. NewTask \in TaskRecord /\ NewTask.pc = "created" /\ ~NewTask.cancel
      BY BlankTypes DEF NewTask, PC, Waiting
    <2>4. /\ task' = [task EXCEPT ![fired + 1] = NewTask]
          /\ reply' = fired + 1 /\ fired' = fired + 1 /\ speaking' = speaking
      BY <1>5 DEF DetectorAnswers
    <2>5. \A t \in Tasks : ~Live(t)
      BY <2>1 DEF FloorInv, OneReplyAtATime, Tasks, None
    <2>6. ReplyOK'
      BY <2>2, <2>3, <2>4 DEF FloorInv, TypeOK, ReplyOK
    <2>7. VadOK'
      <3>1. /\ buf' = [len |-> 0, tail |-> 0] /\ voiced_ms' = 0 /\ since_voice' = 0
            /\ since_check' = since_check
        BY <1>5 DEF DetectorAnswers
      <3> QED
        BY <3>1, ConstantTypes DEF FloorInv, TypeOK, VadOK
    <2>8. OneReplyAtATime'
      BY <2>2, <2>4, <2>5 DEF FloorInv, TypeOK, ReplyOK, OneReplyAtATime, Live
    <2>9. \A t \in Tasks : task'[t].pc \notin {"llm", "tts", "drain"}
      BY <2>2, <2>3, <2>4, <2>5 DEF FloorInv, TypeOK, ReplyOK, Live, Waiting
    <2> QED
      BY <1>1, <1>2, <1>3, <2>1, <2>4, <2>6, <2>7, <2>8, <2>9
      DEF FloorInv, SpeakingHasReply, TypeOK
  <1>6. Detect => \/ UNCHANGED <<vadVars, replyVars>>
                  \/ \E c \in BOOLEAN : DetectorAnswers(c) /\ TurnOver(c)
    BY DEF Detect, DetectorFails, DetectorAnswers
  <1> QED
    BY <1>4, <1>5, <1>6

LEMMA HandleFloor ==
    ASSUME FloorInv, Handle
    PROVE  FloorInv'
  <1>1. ASSUME NEW m \in Frames, HandleFrame(m)
        PROVE  FloorInv'
    BY <1>1, FrameFloor
  <1>2. CASE HandleReset
    <2>1. CancelReply /\ handler' # "detect"
      BY <1>2 DEF HandleReset, Received
    <2>2. WireOK'
      BY <1>2, OutTypes DEF FloorInv, TypeOK, WireOK, HandleReset, Received
    <2>3. VadOK' /\ RecordOK'
      BY <1>2 DEF FloorInv, TypeOK, VadOK, RecordOK, HandleReset, vadVars, voiceVars
    <2> QED
      BY <2>1, <2>2, <2>3, CancelFloor
  <1>3. CASE HandleGarbled
    <2>1. UNCHANGED replyVars /\ handler' = "raised"
      BY <1>3 DEF HandleGarbled
    <2>2. WireOK'
      BY <1>3, OutTypes DEF FloorInv, TypeOK, WireOK, Handler, HandleGarbled, Received
    <2>3. VadOK' /\ ReplyOK' /\ RecordOK'
      BY <1>3 DEF FloorInv, TypeOK, VadOK, ReplyOK, RecordOK, HandleGarbled,
                  vadVars, replyVars, voiceVars, logVars
    <2> QED
      BY <2>1, <2>2, <2>3, FloorUnchanged DEF TypeOK
  <1>4. CASE HandleClose
    <2>1. CancelReply /\ handler' = "returned"
      BY <1>4 DEF HandleClose
    <2>2. WireOK'
      BY <1>4, OutTypes DEF FloorInv, TypeOK, WireOK, Handler, HandleClose, wireVars
    <2>3. VadOK' /\ RecordOK'
      BY <1>4 DEF FloorInv, TypeOK, VadOK, RecordOK, HandleClose,
                  vadVars, voiceVars, logVars
    <2> QED
      BY <2>1, <2>2, <2>3, CancelFloor
  <1> QED
    BY <1>1, <1>2, <1>3, <1>4 DEF Handle

-----------------------------------------------------------------------------
\* A task that is alive is the reply, and the only one.
LEMMA Alone ==
    ASSUME FloorInv, NEW t \in Tasks, Live(t)
    PROVE  /\ reply = t /\ t # None
           /\ task[t] \in TaskRecord
           /\ \A u \in Tasks : u # t => ~Live(u)
  BY DEF FloorInv, OneReplyAtATime, TypeOK, ReplyOK, Tasks, None

\* The finally clause leaves no reply and nobody speaking.
LEMMA EndFloor ==
    ASSUME FloorInv, NEW t \in Tasks, Live(t), EndTask(t),
           WireOK', VadOK', RecordOK', handler' = handler
    PROVE  FloorInv'
  <1>1. DoneTask \in TaskRecord /\ DoneTask.pc = "done"
    BY BlankTypes DEF DoneTask, PC
  <1>2. task' = [task EXCEPT ![t] = DoneTask] /\ reply' = None /\ fired' = fired
        /\ speaking' = FALSE
    BY DEF EndTask
  <1>3. ReplyOK'
    <2>1. reply' \in Tasks \cup {None} /\ fired' \in 0 .. MaxTurns
          /\ task' \in [Tasks -> TaskRecord]
      BY <1>1, <1>2 DEF FloorInv, TypeOK, ReplyOK
    <2>2. speaking' \in BOOLEAN
      BY Zenon, <1>2
    <2> QED
      BY <2>1, <2>2 DEF ReplyOK
  <1>4. \A u \in Tasks : ~(task'[u].pc \in Waiting)
    BY <1>1, <1>2, Alone DEF FloorInv, TypeOK, ReplyOK, Live, Waiting
  <1> QED
    BY <1>2, <1>3, <1>4
    DEF FloorInv, TypeOK, OneReplyAtATime, SpeakingHasReply, Live, Waiting

\* A step of the reply keeps the invariant if its flag and its place agree.
LEMMA StepFloor ==
    ASSUME FloorInv, NEW t \in Tasks, Live(t), NEW r \in TaskRecord,
           task' = [task EXCEPT ![t] = r], reply' = reply, fired' = fired,
           speaking' \in BOOLEAN, handler' = handler,
           WireOK', VadOK', RecordOK',
           speaking' => ~r.cancel /\ r.pc \in {"llm", "tts", "drain", "farewell"},
           ~r.cancel /\ r.pc \in {"llm", "tts", "drain"} => speaking'
    PROVE  FloorInv'
  <1>1. reply' = t /\ t # None /\ task'[t] = r
        /\ \A u \in Tasks : u # t => task'[u] = task[u] /\ ~Live(u)
    BY Alone DEF FloorInv, TypeOK, ReplyOK
  <1>2. ReplyOK'
    BY DEF FloorInv, TypeOK, ReplyOK
  <1>3. OneReplyAtATime' /\ SpeakingHasReply'
    BY <1>1 DEF OneReplyAtATime, SpeakingHasReply, Live, Runnable
  <1>4. handler' = "detect" => reply' = None /\ fired' < MaxTurns
    BY DEF FloorInv
  <1>5. \A u \in Tasks : ~task'[u].cancel /\ task'[u].pc \in {"llm", "tts", "drain"}
                         => speaking'
    BY <1>1 DEF Live, Waiting
  <1> QED
    BY <1>2, <1>3, <1>4, <1>5 DEF FloorInv, TypeOK, Runnable

\* A reply leaves the socket and the voice counters alone.
LEMMA RespondWire ==
    ASSUME FloorInv, NEW t \in Tasks, Respond(t)
    PROVE  /\ UNCHANGED <<wireVars, handler, vadVars>>
           /\ WireOK' /\ VadOK'
  <1>1. UNCHANGED <<wireVars, handler, vadVars>>
    BY DEF Respond, Start, StartFails, DieUnstarted, Recognised, NothingRecognised,
           ClauseCloses, StreamEnds, Spoken, Drained, NotSpoken, Unsendable,
           ServiceFails, Finish, Interrupted, Silenced
  <1>2. out' \in Seq(Outgoing)
    <2>1. task[t].n \in Nat
      BY DEF FloorInv, TypeOK, ReplyOK, TaskRecord
    <2>2. CASE out' = <<>>
      BY <2>2, OutTypes
    <2>3. CASE Recognised(t) \/ NothingRecognised(t) \/ Interrupted(t)
      BY <2>1, <2>3, OutTypes DEF Recognised, NothingRecognised, Interrupted
    <2>4. CASE StreamEnds(t)
      BY <2>1, <2>4, OutTypes DEF StreamEnds, Conclude
    <2>5. CASE Spoken(t)
      BY <2>1, <2>5, OutTypes DEF Spoken
    <2>6. CASE Drained(t) \/ NotSpoken(t)
      BY <2>1, <2>6, OutTypes DEF Drained, NotSpoken, AfterSay, Conclude
    <2> QED
      BY <2>2, <2>3, <2>4, <2>5, <2>6
      DEF Respond, Start, StartFails, DieUnstarted, ClauseCloses, Unsendable,
          ServiceFails, Finish, Silenced
  <1> QED
    BY <1>1, <1>2 DEF FloorInv, TypeOK, WireOK, VadOK, wireVars, vadVars

\* The history and the recordings only ever grow by one entry.
LEMMA RespondRecord ==
    ASSUME FloorInv, NEW t \in Tasks, Respond(t)
    PROVE  RecordOK'
  <1>1. task[t].n \in Nat /\ RecordOK
    BY DEF FloorInv, TypeOK, ReplyOK, TaskRecord
  <1>2. \A k \in {"user", "assistant"} :
           Append(history, Line(k, task[t].n)) \in Seq(LogLine)
    <2>1. \A k \in {"user", "assistant"} : Line(k, task[t].n) \in LogLine
      BY <1>1 DEF Line, LogLine
    <2> QED
      BY <1>1, <2>1 DEF RecordOK
  <1>3. Append(files, Clip(t)) \in Seq(Recording)
    <2>1. Clip(t) \in Recording
      BY <1>1 DEF Clip, AgentFile, Recording, RecordOK
    <2> QED
      BY <1>1, <2>1 DEF RecordOK
  <1>4. Append(files, CallerFile(turn_no + 1)) \in Seq(Recording)
    <2>1. CallerFile(turn_no + 1) \in Recording
      BY <1>1 DEF CallerFile, Recording, RecordOK
    <2> QED
      BY <1>1, <2>1 DEF RecordOK
  <1>5. CASE UNCHANGED <<voiceVars, logVars>>
    BY <1>1, <1>5 DEF RecordOK, voiceVars, logVars
  <1>6. CASE Start(t) \/ StartFails(t)
    <2>1. CASE Start(t)
      BY <1>1, <1>4, <2>1 DEF Start, RecordOK, logVars
    <2>2. CASE StartFails(t)
      BY <1>1, <2>2 DEF StartFails, RecordOK, logVars
    <2> QED
      BY <1>6, <2>1, <2>2
  <1>7. CASE Recognised(t)
    <2>1. spoke' \in BOOLEAN
      BY Zenon, <1>7 DEF Recognised
    <2> QED
      BY <1>1, <1>2, <1>7, <2>1 DEF Recognised, RecordOK
  <1>8. CASE StreamEnds(t) \/ Drained(t) \/ NotSpoken(t)
    BY <1>1, <1>2, <1>8
    DEF StreamEnds, Drained, NotSpoken, AfterSay, Conclude, RecordOK, voiceVars, logVars
  <1>9. CASE Spoken(t) \/ Unsendable(t)
    <2>1. spoke' \in BOOLEAN
      BY Zenon, <1>9 DEF Spoken, Unsendable
    <2>2. files' = Append(files, Clip(t)) /\ clip' = clip + 1
          /\ UNCHANGED <<turn_no, history, reset_mark>>
      BY <1>9 DEF Spoken, Unsendable, logVars
    <2> QED
      BY <1>1, <1>3, <2>1, <2>2 DEF RecordOK
  <1> QED
    BY <1>5, <1>6, <1>7, <1>8, <1>9
    DEF Respond, DieUnstarted, NothingRecognised, ClauseCloses, ServiceFails,
        Finish, Interrupted, Silenced, voiceVars, logVars

\* One case per action of the reply: it ends, or it moves on with a record r.
LEMMA RespondFloor ==
    ASSUME FloorInv, NEW t \in Tasks, Respond(t)
    PROVE  FloorInv'
  <1>1. /\ WireOK' /\ VadOK' /\ RecordOK' /\ handler' = handler
        /\ task[t] \in TaskRecord /\ task \in [Tasks -> TaskRecord]
        /\ speaking \in BOOLEAN /\ fired' = fired
        /\ turn_no \in Nat /\ MaxClauses \in Nat
    BY RespondWire, RespondRecord, ConstantTypes
    DEF FloorInv, TypeOK, ReplyOK, RecordOK, Respond, Start, StartFails, DieUnstarted,
        Recognised, NothingRecognised, ClauseCloses, StreamEnds, Spoken, Drained,
        NotSpoken, Unsendable, ServiceFails, Finish, Interrupted, Silenced, EndTask
  <1>2. Live(t)
    BY DEF Respond, Start, StartFails, DieUnstarted, Recognised, NothingRecognised,
           ClauseCloses, StreamEnds, Spoken, Drained, NotSpoken, Unsendable,
           ServiceFails, Finish, Interrupted, Silenced, At, Live, Waiting
  <1>3. speaking => ~task[t].cancel /\ task[t].pc \in {"llm", "tts", "drain", "farewell"}
    BY <1>2, Alone DEF FloorInv, SpeakingHasReply, Runnable
  <1>4. ~task[t].cancel /\ task[t].pc \in {"llm", "tts", "drain"} => speaking
    BY DEF FloorInv, Runnable
  <1>5. CASE StartFails(t) \/ Unsendable(t) \/ ServiceFails(t) \/ Finish(t) \/ Silenced(t)
    <2>1. EndTask(t)
      BY <1>5 DEF StartFails, Unsendable, ServiceFails, Finish, Silenced
    <2> QED
      BY <1>1, <1>2, <2>1, EndFloor
  <1>6. CASE Start(t)
    <2> DEFINE r == [task[t] EXCEPT !.pc = "asr", !.n = turn_no + 1]
    <2>1. r \in TaskRecord /\ r.pc = "asr" /\ r.cancel = task[t].cancel
      <3>1. turn_no + 1 \in Nat /\ "asr" \in PC
        BY <1>1 DEF PC, Waiting
      <3> QED
        BY <1>1, <3>1 DEF TaskRecord
    <2>2. task' = [task EXCEPT ![t] = r] /\ UNCHANGED <<speaking, reply, fired>>
      BY <1>1, <1>6 DEF Start
    <2>3. ~speaking
      BY <1>3, <1>6 DEF Start, At
    <2> HIDE DEF r
    <2> QED
      BY <1>1, <1>2, <2>1, <2>2, <2>3, StepFloor
  <1>7. CASE DieUnstarted(t)
    <2>1. DoneTask \in TaskRecord /\ DoneTask.pc = "done"
      BY BlankTypes DEF DoneTask, PC
    <2>2. task' = [task EXCEPT ![t] = DoneTask] /\ UNCHANGED <<speaking, reply, fired>>
      BY <1>7 DEF DieUnstarted
    <2>3. ~speaking
      BY <1>3, <1>7 DEF DieUnstarted
    <2> QED
      BY <1>1, <1>2, <2>1, <2>2, <2>3, StepFloor
  <1>8. CASE Recognised(t)
    <2> DEFINE r == [task[t] EXCEPT !.pc = "llm"]
    <2>1. r \in TaskRecord /\ r.pc = "llm" /\ ~r.cancel
      BY <1>1, <1>8 DEF TaskRecord, PC, Waiting, Recognised, At, Runnable
    <2>2. task' = [task EXCEPT ![t] = r] /\ UNCHANGED <<reply, fired>> /\ speaking' = TRUE
      BY <1>1, <1>8 DEF Recognised, Goto
    <2>3. speaking' \in BOOLEAN
      BY Zenon, <2>2
    <2> HIDE DEF r
    <2> QED
      BY <1>1, <1>2, <2>1, <2>2, <2>3, StepFloor
  <1>9. CASE NothingRecognised(t)
    <2> DEFINE r == [task[t] EXCEPT !.pc = "farewell"]
    <2>1. r \in TaskRecord /\ r.pc = "farewell" /\ r.cancel = task[t].cancel
      BY <1>1 DEF TaskRecord, PC, Waiting
    <2>2. task' = [task EXCEPT ![t] = r] /\ UNCHANGED <<speaking, reply, fired>>
      BY <1>1, <1>9 DEF NothingRecognised, Goto
    <2> HIDE DEF r
    <2> QED
      BY <1>1, <1>2, <1>3, <2>1, <2>2, StepFloor
  <1>10. CASE ClauseCloses(t)
    <2> DEFINE r == [task[t] EXCEPT !.pc = "tts", !.clauses = @ + 1]
    <2>1. task[t].clauses + 1 \in 0 .. MaxClauses
      BY <1>1, <1>10 DEF ClauseCloses, TaskRecord
    <2>2. r \in TaskRecord /\ r.pc = "tts" /\ r.cancel = task[t].cancel
      BY <1>1, <2>1 DEF TaskRecord, PC, Waiting
    <2>3. task' = [task EXCEPT ![t] = r] /\ UNCHANGED <<speaking, reply, fired>>
      BY <1>1, <1>10 DEF ClauseCloses
    <2>4. speaking /\ ~task[t].cancel
      BY <1>4, <1>10 DEF ClauseCloses, At, Runnable
    <2> HIDE DEF r
    <2> QED
      BY <1>1, <1>2, <2>2, <2>3, <2>4, StepFloor
  <1>11. CASE StreamEnds(t) \/ Drained(t) \/ NotSpoken(t) \/ Spoken(t)
    <2>1. ~task[t].cancel /\ task[t].pc \in {"llm", "tts", "drain"} /\ speaking
          /\ UNCHANGED <<speaking, reply, fired>>
      BY <1>4, <1>11 DEF StreamEnds, Drained, NotSpoken, Spoken, At, Runnable
    <2>2. ASSUME NEW pc \in {"llm", "drain", "farewell"},
                 task' = [task EXCEPT ![t].pc = pc]
          PROVE  FloorInv'
      <3> DEFINE r == [task[t] EXCEPT !.pc = pc]
      <3>1. r \in TaskRecord /\ r.pc = pc /\ r.cancel = task[t].cancel
        BY <1>1 DEF TaskRecord, PC, Waiting
      <3>2. task' = [task EXCEPT ![t] = r]
        BY <1>1, <2>2
      <3> HIDE DEF r
      <3> QED
        BY <1>1, <1>2, <2>1, <3>1, <3>2, StepFloor
    <2>3. ASSUME task' = [task EXCEPT ![t].pc = "tts", ![t].tail = TRUE]
          PROVE  FloorInv'
      <3> DEFINE r == [task[t] EXCEPT !.pc = "tts", !.tail = TRUE]
      <3>1. r \in TaskRecord /\ r.pc = "tts" /\ r.cancel = task[t].cancel
        BY <1>1 DEF TaskRecord, PC, Waiting
      <3>2. task' = [task EXCEPT ![t] = r]
        BY <1>1, <2>3
      <3> HIDE DEF r
      <3> QED
        BY <1>1, <1>2, <2>1, <3>1, <3>2, StepFloor
    <2>4. \/ \E pc \in {"llm", "drain", "farewell"} : task' = [task EXCEPT ![t].pc = pc]
          \/ task' = [task EXCEPT ![t].pc = "tts", ![t].tail = TRUE]
      BY <1>11 DEF StreamEnds, Drained, NotSpoken, Spoken, AfterSay, Conclude, Goto
    <2> QED
      BY <2>2, <2>3, <2>4
  <1>12. CASE Interrupted(t)
    <2> DEFINE r == [task[t] EXCEPT !.pc = "bye"]
    <2>1. r \in TaskRecord /\ r.pc = "bye" /\ r.cancel
      BY <1>1, <1>12 DEF TaskRecord, PC, Waiting, Interrupted
    <2>2. task' = [task EXCEPT ![t] = r] /\ UNCHANGED <<speaking, reply, fired>>
      BY <1>1, <1>12 DEF Interrupted, Goto
    <2>3. ~speaking
      BY <1>3, <1>12 DEF Interrupted
    <2> HIDE DEF r
    <2> QED
      BY <1>1, <1>2, <2>1, <2>2, <2>3, StepFloor
  <1> QED
    BY <1>5, <1>6, <1>7, <1>8, <1>9, <1>10, <1>11, <1>12 DEF Respond

-----------------------------------------------------------------------------
LEMMA NextFloor == FloorInv /\ [Next]_vars => FloorInv'
  <1> SUFFICES ASSUME FloorInv, [Next]_vars PROVE FloorInv'
    OBVIOUS
  <1>1. CASE UNCHANGED vars
    <2>1. UNCHANGED <<wireVars, handler, vadVars, replyVars, voiceVars, logVars, out>>
      BY <1>1 DEF vars
    <2>2. TypeOK'
      BY <2>1 DEF FloorInv, TypeOK, WireOK, VadOK, ReplyOK, RecordOK,
                  wireVars, vadVars, replyVars, voiceVars, logVars
    <2> QED
      BY <2>1, <2>2, FloorUnchanged DEF FloorInv
  <1>2. CASE Ended
    BY <1>1, <1>2 DEF Ended
  <1> QED
    BY <1>1, <1>2, CallerFloor, HandleFloor, DetectFloor, RespondFloor DEF Next

\* The inductive invariant holds in every state of every session.
THEOREM FloorInvariant == Spec => []FloorInv
  BY InitFloor, NextFloor, PTL DEF Spec

\* The session's fields have their types: the rolling buffer never outgrows
\* its 20 s and the counters stay in range, however long the call.
THEOREM TypeCorrect == Spec => []TypeOK
  BY FloorInvariant, PTL DEF FloorInv

\* Two replies never run side by side, although create_task, cancel_reply and
\* the finally clause all write the one field reply without a lock.
THEOREM OneReply == Spec => []OneReplyAtATime
  BY FloorInvariant, PTL DEF FloorInv

\* When the caller speaks while speaking is up, there is a live reply to cancel.
THEOREM BargeInFindsReply == Spec => []SpeakingHasReply
  BY FloorInvariant, PTL DEF FloorInv

-----------------------------------------------------------------------------
\* Only say sends audio, and only for a reply that is answering.
LEMMA AudioStep ==
    FloorInv /\ [Next]_vars =>
        [\A i \in DOMAIN out' : out'[i].t = "wav" => speaking]_vars
  <1> SUFFICES ASSUME FloorInv, Next, NEW i \in DOMAIN out', out'[i].t = "wav"
               PROVE  speaking \/ UNCHANGED vars
    OBVIOUS
  <1>1. ASSUME NEW k, k # "wav", NEW n, out' = <<Event(k, n)>>
        PROVE  FALSE
    BY <1>1 DEF Event
  <1>2. ASSUME NEW j, j # "wav", NEW k, k # "wav", NEW n,
               out' = <<Event(j, n)>> \o <<Event(k, n)>>
        PROVE  FALSE
    BY <1>2 DEF Event
  <1>3. CASE Caller
    BY <1>3 DEF Caller, Arrive, FallSilent, ClientCloses
  <1>4. CASE Handle
    <2>1. out' = <<>> \/ out' = <<Event("barge", turn_no)>>
      BY <1>4 DEF Handle, HandleFrame, BargeIn, HandleReset, HandleGarbled, HandleClose
    <2> QED
      BY <2>1, <1>1
  <1>5. CASE Detect
    <2>1. out' = <<>> \/ out' = <<Event("turn", 0)>>
      BY <1>5 DEF Detect, DetectorFails, DetectorAnswers
    <2> QED
      BY <2>1, <1>1
  <1>6. ASSUME NEW t \in Tasks, Respond(t)
        PROVE  speaking
    <2>1. CASE Spoken(t)
      BY <2>1 DEF Spoken, At, FloorInv
    <2>2. CASE ~Spoken(t)
      <3> DEFINE n == task[t].n
      <3>1. \/ out' = <<>>
            \/ \E k \in {"user", "empty", "done", "tts_error", "cancelled"} :
                  out' = <<Event(k, n)>>
            \/ out' = <<>> \o <<Event("done", n)>>
            \/ out' = <<Event("tts_error", n)>> \o <<Event("done", n)>>
        BY <1>6, <2>2
        DEF Respond, Start, StartFails, DieUnstarted, Recognised, NothingRecognised,
            ClauseCloses, StreamEnds, Drained, NotSpoken, Unsendable, ServiceFails,
            Finish, Interrupted, Silenced, AfterSay, Conclude
      <3>2. <<>> \o <<Event("done", n)>> = <<Event("done", n)>>
        OBVIOUS
      <3> HIDE DEF n
      <3> QED
        BY <3>1, <3>2, <1>1, <1>2
    <2> QED
      BY <2>1, <2>2
  <1> QED
    BY <1>3, <1>4, <1>5, <1>6 DEF Next, Ended

\* Whatever the interleaving, a clip goes out only while speaking is up, so the
\* barge-in test at the top of feed sees every reply that is being spoken.
THEOREM AudioInterruptible == Spec => AudioIsInterruptible
  BY FloorInvariant, AudioStep, PTL DEF Spec, AudioIsInterruptible

-----------------------------------------------------------------------------
\* The silence counted is silence in the buffer, or the buffer ends in a full
\* pause already: it is longer than the pause the detector waits for.
PauseInv ==
    /\ buf.tail <= buf.len
    /\ since_voice <= buf.tail * FrameMs \/ PAUSE_MIN_MS <= buf.tail * FrameMs
    /\ PauseBeforeAsking

LEMMA InitPause == Init => PauseInv
  BY ConstantTypes DEF Init, PauseInv, PauseBeforeAsking

LEMMA FramePause ==
    ASSUME FloorInv, PauseInv, NEW m \in Frames, HandleFrame(m)
    PROVE  PauseInv'
  <1> DEFINE v == m = "voiced"
  <1>1. /\ buf.len \in 0 .. BufFrames /\ buf.tail \in 0 .. BufFrames
        /\ since_voice \in Nat /\ voiced_ms \in Nat
    BY ConstantTypes DEF FloorInv, TypeOK, VadOK
  <1>2. /\ buf' = BufAfter(v) /\ since_voice' = SilenceAfter(v) /\ Ask(v)
        /\ handler = "recv"
    BY DEF HandleFrame, Received
  <1> HIDE DEF v
  <1>3. FrameMs \in Nat /\ PAUSE_MIN_MS \in Nat /\ PAUSE_MIN_MS <= BufFrames * FrameMs
    BY ConstantTypes, TimingAssumption
  <1>4. \A k \in Nat : k * FrameMs \in Nat /\ (k + 1) * FrameMs = k * FrameMs + FrameMs
    BY <1>3
  <1>5. /\ buf'.tail <= buf'.len
        /\ since_voice' <= buf'.tail * FrameMs \/ PAUSE_MIN_MS <= buf'.tail * FrameMs
    <2>1. CASE v
      <3>1. buf'.tail = 0 /\ buf'.len \in Nat /\ since_voice' = 0
        BY <1>1, <1>2, <2>1, ConstantTypes DEF BufAfter, SilenceAfter, Min2
      <3> QED
        BY <1>3, <3>1
    <2>2. CASE ~v
      <3>1. since_voice' \in Nat /\ since_voice' <= since_voice + FrameMs
        <4>1. HARD_STOP_MS + 1 \in Nat
          BY ConstantTypes
        <4>2. CASE voiced_ms > 0
          <5>1. since_voice' = Min2(since_voice + FrameMs, HARD_STOP_MS + 1)
            BY <1>1, <1>2, <2>2, <4>2 DEF SilenceAfter
          <5> QED
            BY <1>1, <1>3, <4>1, <5>1 DEF Min2
        <4>3. CASE voiced_ms <= 0
          <5>1. since_voice' = since_voice
            BY <1>1, <1>2, <2>2, <4>3 DEF SilenceAfter
          <5> QED
            BY <1>1, <1>3, <5>1
        <4> QED
          BY <1>1, <4>2, <4>3
      <3>2. /\ buf'.tail <= buf'.len
            /\ buf'.tail = buf.tail + 1 \/ buf'.tail = BufFrames
        BY <1>1, <1>2, <2>2, ConstantTypes DEF BufAfter, Min2, PauseInv
      <3>3. CASE buf'.tail = buf.tail + 1
        <4>1. buf'.tail * FrameMs = buf.tail * FrameMs + FrameMs
              /\ buf.tail * FrameMs \in Nat
          BY <1>1, <1>4, <3>3
        <4> QED
          BY <1>1, <1>3, <3>1, <3>2, <4>1 DEF PauseInv
      <3>4. CASE buf'.tail = BufFrames
        BY <1>3, <3>2, <3>4
      <3> QED
        BY <3>2, <3>3, <3>4
    <2> QED
      BY <2>1, <2>2
  <1>6. PauseBeforeAsking'
    <2>1. handler' = "detect" => since_voice' >= PAUSE_MIN_MS
      BY <1>2 DEF Ask, Paused
    <2>2. buf'.tail \in Nat /\ buf'.tail * FrameMs \in Nat /\ since_voice' \in Nat
      BY FrameVad, <1>4, ConstantTypes DEF VadOK
    <2> QED
      BY <1>3, <1>5, <2>1, <2>2 DEF PauseBeforeAsking
  <1> QED
    BY <1>5, <1>6 DEF PauseInv

LEMMA NextPause == FloorInv /\ PauseInv /\ [Next]_vars => PauseInv'
  <1> SUFFICES ASSUME FloorInv, PauseInv, [Next]_vars PROVE PauseInv'
    OBVIOUS
  <1>1. ASSUME UNCHANGED vadVars, handler' = handler \/ handler' # "detect"
        PROVE  PauseInv'
    BY <1>1 DEF PauseInv, PauseBeforeAsking, vadVars
  <1>2. CASE UNCHANGED vars
    BY <1>1, <1>2 DEF vars
  <1>3. CASE Caller
    BY <1>1, <1>3 DEF Caller, Arrive, FallSilent, ClientCloses
  <1>4. CASE Handle
    <2>1. CASE HandleReset \/ HandleGarbled \/ HandleClose
      BY <1>1, <2>1 DEF HandleReset, HandleGarbled, HandleClose
    <2> QED
      BY <1>4, <2>1, FramePause DEF Handle
  <1>5. CASE Detect
    <2>1. ASSUME NEW c \in BOOLEAN, DetectorAnswers(c), TurnOver(c)
          PROVE  PauseInv'
      <3>1. buf'.tail = 0 /\ buf'.len = 0 /\ since_voice' = 0 /\ handler' = "recv"
        BY <2>1 DEF DetectorAnswers
      <3> QED
        BY <3>1, ConstantTypes DEF PauseInv, PauseBeforeAsking
    <2> QED
      BY <1>1, <1>5, <2>1 DEF Detect, DetectorFails, DetectorAnswers
  <1>6. ASSUME NEW t \in Tasks, Respond(t)
        PROVE  PauseInv'
    BY <1>1, <1>6, RespondWire
  <1> QED
    BY <1>2, <1>3, <1>4, <1>5, <1>6 DEF Next, Ended

\* The detector hears the end of an utterance and a pause behind it, never a
\* buffer that was cut inside the pause: for every frame length, whatever
\* arrived while the last answer of the detector was outstanding.
THEOREM AsksAtPauses == Spec => []PauseBeforeAsking
  <1>1. PauseInv => PauseBeforeAsking
    BY DEF PauseInv
  <1> QED
    BY <1>1, InitPause, NextPause, FloorInvariant, PTL DEF Spec

-----------------------------------------------------------------------------
(* What a session leaves behind.                                           *)

\* where a reply talks: its user line is the last one
Talking == {"llm", "tts", "drain"}
Talks(t) == Runnable(t) /\ task[t].pc \in Talking
Begun(t) == Live(t) /\ task[t].pc # "created"

\* The turn under way is the session's latest, its question comes behind every
\* other line, and nothing is appended behind that until it is answered.
LogInv ==
    /\ reset_mark <= turn_no
    /\ \A t \in Tasks : Begun(t) => task[t].n = turn_no
    /\ \A i \in DOMAIN history : reset_mark < history[i].turn /\ history[i].turn <= turn_no
    /\ \A t \in Tasks : At(t, "asr") =>
          reset_mark < turn_no /\ \A i \in DOMAIN history : history[i].turn < turn_no
    /\ \A t \in Tasks : Talks(t) =>
          history # <<>> /\ history[Len(history)] = Line("user", turn_no)
    /\ HistoryPaired

\* Clips are counted anew in each turn, and only the turn under way has clips
\* under its number.
FileInv ==
    /\ \A i \in DOMAIN files : files[i].turn <= turn_no
    /\ \A t \in Tasks : At(t, "asr") =>
          \A i \in DOMAIN files : files[i].turn = turn_no => files[i].side = "caller"
    /\ \A t \in Tasks : Talks(t) =>
          \A i \in DOMAIN files :
              files[i].turn = turn_no => files[i].side = "caller" \/ files[i].clip <= clip
    /\ RecordingsFaithful

RecordInv == LogInv /\ FileInv

-----------------------------------------------------------------------------
LEMMA InitRecord == Init => RecordInv
  <1> SUFFICES ASSUME Init PROVE RecordInv
    OBVIOUS
  <1>1. \A t \in Tasks : task[t].pc = "none"
    BY BlankTypes DEF Init, NoTask
  <1>2. history = <<>> /\ files = <<>> /\ reset_mark = 0 /\ turn_no = 0
    BY DEF Init
  <1>3. LogInv
    BY <1>1, <1>2
    DEF LogInv, Begun, Live, Waiting, At, Talks, Talking, HistoryPaired
  <1>4. FileInv
    BY <1>1, <1>2
    DEF FileInv, At, Talks, Talking, RecordingsFaithful
  <1> QED
    BY <1>3, <1>4 DEF RecordInv

\* A step that appends nothing, numbers nothing and lets no reply advance to a
\* place it has not been in keeps the record.
LEMMA NothingWritten ==
    ASSUME RecordInv, UNCHANGED <<turn_no, clip, files, history, reset_mark>>,
           \A t \in Tasks : /\ Begun(t)' => Begun(t) /\ task'[t].n = task[t].n
                            /\ At(t, "asr")' => At(t, "asr")
                            /\ Talks(t)' => Talks(t)
    PROVE  RecordInv'
  <1>1. LogInv'
    BY DEF RecordInv, LogInv, HistoryPaired
  <1>2. FileInv'
    BY DEF RecordInv, FileInv, RecordingsFaithful
  <1> QED
    BY <1>1, <1>2 DEF RecordInv

\* Cancelling moves nobody.
LEMMA CancelMoves ==
    ASSUME FloorInv, CancelReply
    PROVE  /\ \A t \in Tasks : task'[t].pc = task[t].pc /\ task'[t].n = task[t].n
           /\ \A t \in Tasks : task[t].cancel => task'[t].cancel
           /\ \A t \in Tasks : Live(t) => task'[t].cancel
  <1>1. task \in [Tasks -> TaskRecord] /\ reply \in Tasks \cup {None}
    BY DEF FloorInv, TypeOK, ReplyOK
  <1>2. \A t \in Tasks : task[t] \in TaskRecord
    BY <1>1
  <1>3. \A t \in Tasks : task'[t].n = task[t].n /\ (task[t].cancel => task'[t].cancel)
    <2>1. CASE reply # None /\ Live(reply)
      <3>1. reply \in Tasks /\ task' = [task EXCEPT ![reply].cancel = TRUE]
        BY <1>1, <2>1 DEF CancelReply
      <3>2. \A t \in Tasks : t # reply => task'[t] = task[t]
        BY <1>1, <3>1
      <3>3. task'[reply] = [task[reply] EXCEPT !.cancel = TRUE]
        BY <1>1, <3>1
      <3>4. task'[reply].n = task[reply].n /\ task'[reply].cancel
        BY <1>2, <3>1, <3>3 DEF TaskRecord
      <3> QED
        BY <3>2, <3>4
    <2>2. CASE ~(reply # None /\ Live(reply))
      BY <2>2 DEF CancelReply
    <2> QED
      BY <2>1, <2>2
  <1> QED
    BY <1>3, CancelKeeps

\* After a cancel, live replies are marked, so none of them writes.
LEMMA CancelWritesNothing ==
    ASSUME FloorInv, RecordInv, CancelReply,
           UNCHANGED <<turn_no, clip, files, history, reset_mark>>
    PROVE  RecordInv'
  BY CancelMoves, NothingWritten DEF Begun, Live, At, Talks, Talking, Waiting, Runnable

\* When a reply that is not cancelled moves on, the others stand still.
LEMMA OthersStill ==
    ASSUME FloorInv, NEW t \in Tasks, Live(t),
           \A u \in Tasks : u # t => task'[u] = task[u]
    PROVE  \A u \in Tasks : u # t => ~Begun(u)' /\ ~At(u, "asr")' /\ ~Talks(u)'
  <1>1. \A u \in Tasks : u # t => task'[u].pc \notin Waiting
    BY Alone DEF Live
  <1> QED
    BY <1>1 DEF Begun, Live, At, Talks, Talking, Waiting

-----------------------------------------------------------------------------
\* A reply that ends, or waits where it writes nothing, leaves the record.
LEMMA MovesAside ==
    ASSUME FloorInv, RecordInv, NEW t \in Tasks, Live(t),
           UNCHANGED <<turn_no, clip, files, history, reset_mark>>,
           \A u \in Tasks : u # t => task'[u] = task[u],
           Begun(t)' => Begun(t) /\ task'[t].n = task[t].n,
           ~At(t, "asr")', Talks(t)' => Talks(t)
    PROVE  RecordInv'
  BY OthersStill, NothingWritten

\* The lines and the recordings carry numbers.
LEMMA Numbered ==
    ASSUME FloorInv
    PROVE  /\ \A i \in DOMAIN history : history[i].turn \in Nat
           /\ \A i \in DOMAIN files : files[i].turn \in Nat /\ files[i].clip \in Nat
  <1>1. history \in Seq(LogLine) /\ files \in Seq(Recording)
    BY DEF FloorInv, TypeOK, RecordOK
  <1>2. \A i \in DOMAIN history : history[i] \in LogLine
    BY <1>1
  <1>3. \A i \in DOMAIN files : files[i] \in Recording
    BY <1>1
  <1> QED
    BY <1>2, <1>3 DEF LogLine, Recording

LEMMA StartRecord ==
    ASSUME FloorInv, RecordInv, NEW t \in Tasks, Start(t)
    PROVE  RecordInv'
  <1>1. /\ task \in [Tasks -> TaskRecord] /\ task[t] \in TaskRecord
        /\ turn_no \in Nat /\ reset_mark \in Nat
        /\ history \in Seq(LogLine) /\ files \in Seq(Recording)
    BY DEF FloorInv, TypeOK, ReplyOK, RecordOK
  <1>2. Live(t)
    BY DEF Start, At, Live, Waiting
  <1>3. /\ task' = [task EXCEPT ![t] = [task[t] EXCEPT !.pc = "asr", !.n = turn_no + 1]]
        /\ turn_no' = turn_no + 1 /\ files' = Append(files, CallerFile(turn_no + 1))
        /\ UNCHANGED <<clip, history, reset_mark>>
    BY <1>1 DEF Start, logVars
  <1>4. task'[t].pc = "asr" /\ task'[t].n = turn_no'
        /\ \A u \in Tasks : u # t => task'[u] = task[u]
    BY <1>1, <1>3 DEF TaskRecord
  <1>5. \A u \in Tasks : u # t => ~Begun(u)' /\ ~At(u, "asr")' /\ ~Talks(u)'
    BY <1>2, <1>4, OthersStill
  <1>6. ~Talks(t)'
    BY <1>4 DEF Talks, Talking
  <1>7. \A i \in DOMAIN history : history[i].turn \in Nat /\ history[i].turn <= turn_no
                                 /\ reset_mark < history[i].turn
    BY Numbered DEF RecordInv, LogInv
  <1>8. LogInv'
    BY <1>1, <1>3, <1>4, <1>5, <1>6, <1>7 DEF RecordInv, LogInv, HistoryPaired
  <1>9. /\ DOMAIN files' = DOMAIN files \cup {Len(files) + 1}
        /\ \A i \in DOMAIN files : files'[i] = files[i]
        /\ files'[Len(files) + 1] = CallerFile(turn_no + 1)
    BY <1>1, <1>3
  <1>10. \A i \in DOMAIN files : files[i].turn \in Nat /\ files[i].turn <= turn_no
    BY Numbered DEF RecordInv, FileInv
  <1>11. /\ CallerFile(turn_no + 1).turn = turn_no + 1
         /\ CallerFile(turn_no + 1).by = turn_no + 1
         /\ CallerFile(turn_no + 1).side = "caller"
    BY DEF CallerFile
  <1>12. RecordingsFaithful'
    BY <1>1, <1>9, <1>10, <1>11 DEF RecordInv, FileInv, RecordingsFaithful
  <1>13. FileInv'
    BY <1>1, <1>3, <1>5, <1>6, <1>9, <1>10, <1>11, <1>12 DEF FileInv
  <1> QED
    BY <1>8, <1>13 DEF RecordInv

\* The turn is counted although it never began.
LEMMA StartFailsRecord ==
    ASSUME FloorInv, RecordInv, NEW t \in Tasks, StartFails(t)
    PROVE  RecordInv'
  <1>1. /\ task \in [Tasks -> TaskRecord] /\ turn_no \in Nat /\ reset_mark \in Nat
        /\ history \in Seq(LogLine) /\ files \in Seq(Recording)
    BY DEF FloorInv, TypeOK, ReplyOK, RecordOK
  <1>2. Live(t)
    BY DEF StartFails, At, Live, Waiting
  <1>3. task' = [task EXCEPT ![t] = DoneTask] /\ turn_no' = turn_no + 1
        /\ UNCHANGED <<clip, files, history, reset_mark>>
    BY DEF StartFails, EndTask, logVars
  <1>4. DoneTask.pc = "done"
    BY BlankTypes DEF DoneTask
  <1>5. \A u \in Tasks : ~Begun(u)' /\ ~At(u, "asr")' /\ ~Talks(u)'
    <2>1. \A u \in Tasks : u # t => task'[u] = task[u]
      BY <1>1, <1>3
    <2>2. task'[t].pc = "done"
      BY <1>1, <1>3, <1>4
    <2> QED
      BY <1>2, <2>1, <2>2, OthersStill DEF Begun, Live, At, Talks, Talking, Waiting
  <1>6. \A i \in DOMAIN history : history[i].turn \in Nat
    BY Numbered
  <1>7. \A i \in DOMAIN files : files[i].turn \in Nat
    BY Numbered
  <1>8. LogInv'
    BY <1>1, <1>3, <1>5, <1>6 DEF RecordInv, LogInv, HistoryPaired
  <1>9. FileInv'
    BY <1>1, <1>3, <1>5, <1>7 DEF RecordInv, FileInv, RecordingsFaithful
  <1> QED
    BY <1>8, <1>9 DEF RecordInv

\* A line behind the last one keeps the history a conversation if it is a
\* question of a later turn, or the answer to the last question.
LEMMA AppendLine ==
    ASSUME RecordInv, history \in Seq(LogLine), turn_no \in Nat,
           NEW role \in {"user", "assistant"},
           history' = Append(history, Line(role, turn_no)),
           role = "user" => \A i \in DOMAIN history : history[i].turn < turn_no,
           role = "assistant" => history # <<>> /\ history[Len(history)] = Line("user", turn_no)
    PROVE  HistoryPaired'
  <1> DEFINE n == Len(history)
  <1>1. /\ n \in Nat /\ DOMAIN history = 1 .. n /\ DOMAIN history' = 1 .. n + 1
        /\ \A i \in 1 .. n : history'[i] = history[i]
        /\ history'[n + 1] = Line(role, turn_no)
    OBVIOUS
  <1>2. /\ Line(role, turn_no).role = role /\ Line(role, turn_no).turn = turn_no
        /\ history = <<>> <=> n = 0
    BY DEF Line
  <1> HIDE DEF n
  <1> SUFFICES ASSUME NEW i \in 1 .. n + 1
               PROVE  /\ history'[i].role = "assistant" =>
                            i > 1 /\ history'[i - 1] = Line("user", history'[i].turn)
                      /\ i > 1 /\ history'[i].role = "user" =>
                            history'[i - 1].turn < history'[i].turn
    BY <1>1 DEF HistoryPaired
  <1>3. CASE i \in 1 .. n
    <2>1. i > 1 => i - 1 \in 1 .. n
      BY <1>1, <1>3
    <2> QED
      BY <1>1, <1>3, <2>1 DEF RecordInv, LogInv, HistoryPaired
  <1>4. CASE i = n + 1 /\ role = "user"
    <2>1. i > 1 => i - 1 \in 1 .. n
      BY <1>1, <1>4
    <2> QED
      BY <1>1, <1>2, <1>4, <2>1
  <1>5. CASE i = n + 1 /\ role = "assistant"
    <2>1. i > 1 /\ i - 1 = Len(history)
      BY <1>1, <1>2, <1>5 DEF n
    <2>2. i - 1 \in 1 .. n
      BY <1>1, <1>5, <2>1
    <2> QED
      BY <1>1, <1>2, <1>5, <2>1, <2>2
  <1> QED
    BY <1>1, <1>3, <1>4, <1>5

\* What a line or a clip is filed under, for a reply that has begun.
LEMMA TurnUnderWay ==
    ASSUME FloorInv, RecordInv, NEW t \in Tasks, Begun(t)
    PROVE  /\ task[t].n = turn_no /\ turn_no \in Nat /\ clip \in Nat /\ reset_mark \in Nat
           /\ task[t] \in TaskRecord /\ task \in [Tasks -> TaskRecord]
           /\ history \in Seq(LogLine) /\ files \in Seq(Recording)
  BY DEF RecordInv, LogInv, FloorInv, TypeOK, ReplyOK, RecordOK, Begun

LEMMA GotoRecord ==
    ASSUME NEW t \in Tasks, task \in [Tasks -> TaskRecord], NEW pc, Goto(t, pc)
    PROVE  /\ task'[t].pc = pc /\ task'[t].n = task[t].n /\ task'[t].cancel = task[t].cancel
           /\ \A u \in Tasks : u # t => task'[u] = task[u]
  BY DEF Goto, TaskRecord

\* The question of the turn goes behind everything said before, and no clip of
\* this turn exists yet.
LEMMA RecognisedRecord ==
    ASSUME FloorInv, RecordInv, NEW t \in Tasks, Recognised(t)
    PROVE  RecordInv'
  <1>1. Live(t) /\ Begun(t)
    BY DEF Recognised, At, Live, Begun, Waiting
  <1>2. /\ task[t].n = turn_no /\ turn_no \in Nat /\ reset_mark \in Nat
        /\ history \in Seq(LogLine) /\ task \in [Tasks -> TaskRecord]
    BY <1>1, TurnUnderWay
  <1>3. /\ history' = Append(history, Line("user", turn_no)) /\ clip' = 0
        /\ UNCHANGED <<turn_no, files, reset_mark>>
    BY <1>2 DEF Recognised
  <1>4. task'[t].pc = "llm" /\ task'[t].n = task[t].n
        /\ \A u \in Tasks : u # t => task'[u] = task[u]
    BY <1>2, GotoRecord DEF Recognised
  <1>5. \A u \in Tasks : u # t => ~Begun(u)' /\ ~At(u, "asr")' /\ ~Talks(u)'
    BY <1>1, <1>4, OthersStill
  <1>6. reset_mark < turn_no /\ \A i \in DOMAIN history : history[i].turn < turn_no
    BY DEF Recognised, RecordInv, LogInv
  <1>7. /\ Len(history) \in Nat /\ history' # <<>> /\ Len(history') = Len(history) + 1
        /\ DOMAIN history' = DOMAIN history \cup {Len(history) + 1}
        /\ \A i \in DOMAIN history : history'[i] = history[i]
        /\ history'[Len(history) + 1] = Line("user", turn_no)
    BY <1>2, <1>3
  <1>8. Line("user", turn_no).turn = turn_no
    BY DEF Line
  <1>9. HistoryPaired'
    BY <1>2, <1>3, <1>6, AppendLine
  <1>10. \A i \in DOMAIN history' : reset_mark < history'[i].turn /\ history'[i].turn <= turn_no
    BY <1>2, <1>6, <1>7, <1>8 DEF RecordInv, LogInv
  <1>11. ~At(t, "asr")'
    BY <1>4 DEF At
  <1>12. LogInv'
    BY <1>2, <1>3, <1>4, <1>5, <1>7, <1>9, <1>10, <1>11 DEF RecordInv, LogInv
  <1>13. \A i \in DOMAIN files : files[i].turn = turn_no => files[i].side = "caller"
    BY DEF Recognised, RecordInv, FileInv
  <1>14. FileInv'
    BY <1>3, <1>5, <1>11, <1>13 DEF RecordInv, FileInv, RecordingsFaithful
  <1> QED
    BY <1>12, <1>14 DEF RecordInv

\* The answer goes right behind its question.
LEMMA ConcludeRecord ==
    ASSUME FloorInv, RecordInv, NEW t \in Tasks, Live(t), Talks(t),
           NEW sent, Conclude(t, sent), UNCHANGED <<turn_no, clip, files>>
    PROVE  RecordInv'
  <1>1. Begun(t)
    BY DEF Talks, Talking, Begun
  <1>2. /\ task[t].n = turn_no /\ turn_no \in Nat /\ reset_mark \in Nat
        /\ history \in Seq(LogLine) /\ task \in [Tasks -> TaskRecord]
    BY <1>1, TurnUnderWay
  <1>3. history' = Append(history, Line("assistant", turn_no)) /\ reset_mark' = reset_mark
    BY <1>2 DEF Conclude
  <1>4. task'[t].pc = "farewell" /\ task'[t].n = task[t].n
        /\ \A u \in Tasks : u # t => task'[u] = task[u]
    BY <1>2, GotoRecord DEF Conclude
  <1>5. \A u \in Tasks : u # t => ~Begun(u)' /\ ~At(u, "asr")' /\ ~Talks(u)'
    BY <1>4, OthersStill
  <1>6. ~At(t, "asr")' /\ ~Talks(t)'
    BY <1>4 DEF At, Talks, Talking
  <1>7. history # <<>> /\ history[Len(history)] = Line("user", turn_no)
    BY DEF RecordInv, LogInv
  <1>8. HistoryPaired'
    BY <1>2, <1>3, <1>7, AppendLine
  <1>9. /\ DOMAIN history' = DOMAIN history \cup {Len(history) + 1}
        /\ \A i \in DOMAIN history : history'[i] = history[i]
        /\ history'[Len(history) + 1] = Line("assistant", turn_no)
        /\ Len(history) \in DOMAIN history
    BY <1>2, <1>3, <1>7
  <1>10. Line("assistant", turn_no).turn = turn_no /\ Line("user", turn_no).turn = turn_no
    BY DEF Line
  <1>11. reset_mark < turn_no
    BY <1>7, <1>9, <1>10 DEF RecordInv, LogInv
  <1>12. \A i \in DOMAIN history' : reset_mark < history'[i].turn /\ history'[i].turn <= turn_no
    BY <1>2, <1>9, <1>10, <1>11 DEF RecordInv, LogInv
  <1>13. LogInv'
    BY <1>2, <1>3, <1>4, <1>5, <1>6, <1>8, <1>12 DEF RecordInv, LogInv
  <1>14. FileInv'
    BY <1>5, <1>6 DEF RecordInv, FileInv, RecordingsFaithful
  <1> QED
    BY <1>13, <1>14 DEF RecordInv

\* A clip is filed under a number that this turn has not used.
LEMMA ClipRecord ==
    ASSUME FloorInv, RecordInv, NEW t \in Tasks, At(t, "tts"),
           files' = Append(files, Clip(t)), clip' = clip + 1,
           UNCHANGED <<turn_no, history, reset_mark>>,
           \A u \in Tasks : u # t => task'[u] = task[u],
           task'[t].pc \in {"drain", "done"},
           task'[t].pc = "drain" => task'[t].n = task[t].n
    PROVE  RecordInv'
  <1>1. Live(t) /\ Begun(t) /\ Talks(t)
    BY DEF At, Live, Begun, Talks, Talking, Waiting
  <1>2. /\ task[t].n = turn_no /\ turn_no \in Nat /\ clip \in Nat
        /\ files \in Seq(Recording)
    BY <1>1, TurnUnderWay
  <1>3. \A u \in Tasks : u # t => ~Begun(u)' /\ ~At(u, "asr")' /\ ~Talks(u)'
    BY <1>1, OthersStill
  <1>4. ~At(t, "asr")' /\ (Begun(t)' => task'[t].n = turn_no)
    BY <1>2 DEF At, Begun, Live, Waiting
  <1>5. history # <<>> /\ history[Len(history)] = Line("user", turn_no)
    BY <1>1 DEF RecordInv, LogInv
  <1>6. LogInv'
    BY <1>3, <1>4, <1>5 DEF RecordInv, LogInv, HistoryPaired
  <1>7. /\ DOMAIN files' = DOMAIN files \cup {Len(files) + 1}
        /\ \A i \in DOMAIN files : files'[i] = files[i]
        /\ files'[Len(files) + 1] = Clip(t)
    BY <1>2
  <1>8. /\ Clip(t).side = "agent" /\ Clip(t).turn = turn_no /\ Clip(t).by = turn_no
        /\ Clip(t).clip = clip + 1
    BY <1>2 DEF Clip, AgentFile
  <1>9. \A i \in DOMAIN files :
            /\ files[i].turn \in Nat /\ files[i].turn <= turn_no /\ files[i].clip \in Nat
            /\ files[i].turn = turn_no => files[i].side = "caller" \/ files[i].clip <= clip
    BY <1>1, Numbered DEF RecordInv, FileInv
  <1>10. \A i \in DOMAIN files : files[i] # Clip(t)
    BY <1>2, <1>8, <1>9
  <1>11. RecordingsFaithful'
    BY <1>7, <1>8, <1>10 DEF RecordInv, FileInv, RecordingsFaithful
  <1>12. \A i \in DOMAIN files' :
             /\ files'[i].turn <= turn_no
             /\ files'[i].turn = turn_no => files'[i].side = "caller" \/ files'[i].clip <= clip'
    BY <1>2, <1>7, <1>8, <1>9
  <1>13. FileInv'
    BY <1>3, <1>4, <1>11, <1>12 DEF FileInv
  <1> QED
    BY <1>6, <1>13 DEF RecordInv

\* A reset cancels the reply under way: it adds no line to the new history.
LEMMA ResetRecord ==
    ASSUME FloorInv, RecordInv, HandleReset
    PROVE  RecordInv'
  <1>1. /\ CancelReply /\ history' = <<>> /\ reset_mark' = turn_no
        /\ UNCHANGED <<turn_no, clip, files>>
    BY DEF HandleReset, voiceVars
  <1>2. turn_no \in Nat
    BY DEF FloorInv, TypeOK, RecordOK
  <1>3. \A t \in Tasks : ~At(t, "asr")' /\ ~Talks(t)'
    BY <1>1, CancelMoves DEF At, Talks, Talking, Live, Waiting, Runnable
  <1>4. \A t \in Tasks : Begun(t)' => task'[t].n = turn_no
    BY <1>1, CancelMoves DEF Begun, Live, RecordInv, LogInv
  <1>5. LogInv'
    BY <1>1, <1>2, <1>3, <1>4 DEF LogInv, HistoryPaired
  <1>6. FileInv'
    BY <1>1, <1>3 DEF RecordInv, FileInv, RecordingsFaithful
  <1> QED
    BY <1>5, <1>6 DEF RecordInv

\* Whatever the caller does or says, nothing is written meanwhile.
LEMMA LoopRecord ==
    ASSUME FloorInv, RecordInv, Caller \/ Handle \/ Detect
    PROVE  RecordInv'
  <1>1. CASE HandleReset
    BY <1>1, ResetRecord
  <1>2. ASSUME UNCHANGED <<voiceVars, logVars>>, CancelReply
        PROVE  RecordInv'
    BY <1>2, CancelWritesNothing DEF voiceVars, logVars
  <1>3. ASSUME UNCHANGED <<voiceVars, logVars>>, UNCHANGED replyVars
        PROVE  RecordInv'
    BY <1>3, NothingWritten
    DEF voiceVars, logVars, replyVars, Begun, Live, At, Talks, Runnable
  <1>4. CASE Caller
    BY <1>3, <1>4 DEF Caller, Arrive, FallSilent, ClientCloses
  <1>5. ASSUME NEW m \in Frames, HandleFrame(m)
        PROVE  RecordInv'
    BY <1>2, <1>3, <1>5 DEF HandleFrame, BargeIn
  <1>6. CASE HandleGarbled \/ HandleClose
    BY <1>2, <1>3, <1>6 DEF HandleGarbled, HandleClose
  <1>7. CASE Detect
    <2>1. ASSUME NEW c \in BOOLEAN, DetectorAnswers(c), TurnOver(c)
          PROVE  RecordInv'
      <3>1. /\ task' = [task EXCEPT ![fired + 1] = NewTask]
            /\ UNCHANGED <<turn_no, clip, files, history, reset_mark>>
        BY <2>1 DEF DetectorAnswers, voiceVars, logVars
      <3>2. NewTask.pc = "created"
        BY BlankTypes DEF NewTask
      <3>3. task \in [Tasks -> TaskRecord]
        BY DEF FloorInv, TypeOK, ReplyOK
      <3>4. \A t \in Tasks : task'[t] = task[t] \/ task'[t].pc = "created"
        BY <3>1, <3>2, <3>3
      <3> QED
        BY <3>1, <3>4, NothingWritten
        DEF Begun, Live, At, Talks, Talking, Runnable, Waiting
    <2> QED
      BY <1>3, <1>7, <2>1 DEF Detect, DetectorFails, DetectorAnswers
  <1> QED
    BY <1>1, <1>4, <1>5, <1>6, <1>7 DEF Handle

\* One case per action of the reply: it writes, or it moves aside.
LEMMA RespondRecordStep ==
    ASSUME FloorInv, RecordInv, NEW t \in Tasks, Respond(t)
    PROVE  RecordInv'
  <1>1. /\ task \in [Tasks -> TaskRecord] /\ task[t] \in TaskRecord
        /\ DoneTask.pc = "done"
    BY BlankTypes DEF FloorInv, TypeOK, ReplyOK, DoneTask
  <1>2. CASE Start(t) \/ StartFails(t) \/ Recognised(t)
    BY <1>2, StartRecord, StartFailsRecord, RecognisedRecord
  <1>3. CASE DieUnstarted(t) \/ ServiceFails(t) \/ Finish(t) \/ Silenced(t)
    <2>1. /\ task' = [task EXCEPT ![t] = DoneTask]
          /\ UNCHANGED <<turn_no, clip, files, history, reset_mark>>
      BY <1>3 DEF DieUnstarted, ServiceFails, Finish, Silenced, EndTask, voiceVars, logVars
    <2>2. task'[t].pc = "done" /\ \A u \in Tasks : u # t => task'[u] = task[u]
      BY <1>1, <2>1
    <2>3. Live(t)
      BY <1>3 DEF DieUnstarted, ServiceFails, Finish, Silenced, At, Live, Waiting
    <2> QED
      BY <2>1, <2>2, <2>3, MovesAside DEF Begun, Live, At, Talks, Talking, Waiting
  <1>4. CASE NothingRecognised(t) \/ Interrupted(t)
    <2>1. Live(t) /\ Begun(t)
      BY <1>4 DEF NothingRecognised, Interrupted, At, Live, Begun, Waiting
    <2>2. PICK pc \in {"farewell", "bye"} : Goto(t, pc)
      BY <1>4 DEF NothingRecognised, Interrupted
    <2>3. UNCHANGED <<turn_no, clip, files, history, reset_mark>>
      BY <1>4 DEF NothingRecognised, Interrupted, voiceVars, logVars
    <2>4. ~At(t, "asr")' /\ ~Talks(t)'
      BY <1>1, <2>2, GotoRecord DEF At, Talks, Talking
    <2> QED
      BY <1>1, <2>1, <2>2, <2>3, <2>4, GotoRecord, MovesAside
  <1>5. CASE ClauseCloses(t) \/ StreamEnds(t) \/ Drained(t) \/ NotSpoken(t)
    <2>1. Live(t) /\ Begun(t) /\ Talks(t) /\ UNCHANGED <<turn_no, clip, files>>
      BY <1>5 DEF ClauseCloses, StreamEnds, Drained, NotSpoken, At, Live, Begun,
                  Talks, Talking, Waiting, voiceVars
    <2>2. ASSUME NEW sent, Conclude(t, sent)
          PROVE  RecordInv'
      BY <2>1, <2>2, ConcludeRecord
    <2>3. ASSUME UNCHANGED logVars, task'[t].pc \in Talking, task'[t].n = task[t].n,
                 task'[t].cancel = task[t].cancel,
                 \A u \in Tasks : u # t => task'[u] = task[u]
          PROVE  RecordInv'
      <3>1. ~At(t, "asr")'
        BY <2>3 DEF At, Talking
      <3> QED
        BY <2>1, <2>3, <3>1, MovesAside DEF logVars, Talks, Runnable
    <2>4. CASE UNCHANGED logVars /\ Goto(t, "llm")
      BY <1>1, <2>3, <2>4, GotoRecord DEF Talking
    <2>5. CASE ClauseCloses(t)
      <3>1. task' = [task EXCEPT ![t] =
                        [task[t] EXCEPT !.pc = "tts", !.clauses = task[t].clauses + 1]]
        BY <1>1, <2>5 DEF ClauseCloses
      <3>2. /\ task'[t].pc = "tts" /\ task'[t].n = task[t].n
            /\ task'[t].cancel = task[t].cancel
            /\ \A u \in Tasks : u # t => task'[u] = task[u]
        BY <1>1, <3>1 DEF TaskRecord
      <3> QED
        BY <2>3, <2>5, <3>2 DEF ClauseCloses, Talking
    <2>6. CASE UNCHANGED logVars /\ task' = [task EXCEPT ![t].pc = "tts", ![t].tail = TRUE]
      <3>1. task' = [task EXCEPT ![t] = [task[t] EXCEPT !.pc = "tts", !.tail = TRUE]]
        BY <1>1, <2>6
      <3>2. /\ task'[t].pc = "tts" /\ task'[t].n = task[t].n
            /\ task'[t].cancel = task[t].cancel
            /\ \A u \in Tasks : u # t => task'[u] = task[u]
        BY <1>1, <3>1 DEF TaskRecord
      <3> QED
        BY <2>3, <2>6, <3>2 DEF Talking
    <2> QED
      BY <1>5, <2>2, <2>4, <2>5, <2>6 DEF StreamEnds, Drained, NotSpoken, AfterSay
  <1>6. CASE Spoken(t)
    <2>1. /\ At(t, "tts") /\ files' = Append(files, Clip(t)) /\ clip' = clip + 1
          /\ Goto(t, "drain") /\ UNCHANGED <<turn_no, history, reset_mark>>
      BY <1>6 DEF Spoken, logVars
    <2> QED
      BY <1>1, <2>1, GotoRecord, ClipRecord
  <1>7. CASE Unsendable(t)
    <2>1. /\ At(t, "tts") /\ files' = Append(files, Clip(t)) /\ clip' = clip + 1
          /\ task' = [task EXCEPT ![t] = DoneTask]
          /\ UNCHANGED <<turn_no, history, reset_mark>>
      BY <1>7 DEF Unsendable, EndTask, logVars
    <2>2. task'[t].pc = "done" /\ \A u \in Tasks : u # t => task'[u] = task[u]
      BY <1>1, <2>1
    <2> QED
      BY <2>1, <2>2, ClipRecord
  <1> QED
    BY <1>2, <1>3, <1>4, <1>5, <1>6, <1>7 DEF Respond

-----------------------------------------------------------------------------
LEMMA NextRecord == FloorInv /\ RecordInv /\ [Next]_vars => RecordInv'
  <1> SUFFICES ASSUME FloorInv, RecordInv, [Next]_vars PROVE RecordInv'
    OBVIOUS
  <1>1. CASE UNCHANGED vars
    BY <1>1, NothingWritten
    DEF vars, replyVars, voiceVars, logVars, Begun, Live, At, Talks, Runnable
  <1>2. CASE Ended
    BY <1>1, <1>2 DEF Ended
  <1> QED
    BY <1>1, <1>2, LoopRecord, RespondRecordStep DEF Next

\* The record of every session is that of a conversation with one reply at a
\* time, of which the latest turn may be unfinished.
THEOREM RecordInvariant == Spec => []RecordInv
  BY InitRecord, NextRecord, FloorInvariant, PTL DEF Spec

\* What the LLM is shown is a conversation: respond appends an answer only
\* right behind its own question, whatever was interrupted, failed or reset.
THEOREM SessionHistoryPaired == Spec => []HistoryPaired
  <1>1. RecordInv => HistoryPaired
    BY DEF RecordInv, LogInv
  <1> QED
    BY <1>1, RecordInvariant, PTL

\* No line of a turn begun before a reset enters the history after it: the
\* cancel in the reset branch of ws_handler reaches every reply under way.
THEOREM ResetIsFinal == Spec => []ResetForgets
  <1>1. FloorInv /\ RecordInv => ResetForgets
    <2> SUFFICES ASSUME FloorInv, RecordInv PROVE ResetForgets
      OBVIOUS
    <2>1. reset_mark \in Nat /\ \A i \in DOMAIN history : history[i].turn \in Nat
      BY Numbered DEF FloorInv, TypeOK, RecordOK
    <2> QED
      BY <2>1 DEF RecordInv, LogInv, ResetForgets
  <1> QED
    BY <1>1, RecordInvariant, FloorInvariant, PTL

\* No recording is written over and every clip is filed under its own turn,
\* although say takes the name from fields that all turns share.
THEOREM RecordingsKept == Spec => []RecordingsFaithful
  <1>1. RecordInv => RecordingsFaithful
    BY DEF RecordInv, FileInv
  <1> QED
    BY <1>1, RecordInvariant, PTL

-----------------------------------------------------------------------------
(* The refinement, under the mapping of StreamTurns: every step of the     *)
(* session is a step of TurnTaking or changes nothing that it sees.        *)

\* Turns are numbered by Start, at most once for each reply that was created.
CountInv ==
    /\ turn_no <= fired
    /\ \A t \in Tasks : task[t].pc = "created" => turn_no < fired

TurnsInv == FloorInv /\ RecordInv /\ CountInv

-----------------------------------------------------------------------------
LEMMA InitCount == Init => CountInv
  BY BlankTypes DEF Init, NoTask, CountInv

LEMMA NextCount == FloorInv /\ CountInv /\ [Next]_vars => CountInv'
  <1> SUFFICES ASSUME FloorInv, CountInv, [Next]_vars PROVE CountInv'
    OBVIOUS
  <1>1. /\ task \in [Tasks -> TaskRecord] /\ turn_no \in Nat /\ fired \in Nat
        /\ \A t \in Tasks : task[t] \in TaskRecord
    BY ConstantTypes DEF FloorInv, TypeOK, ReplyOK, RecordOK
  <1>2. ASSUME turn_no' = turn_no, fired' = fired,
               \A t \in Tasks : task'[t].pc = "created" => task[t].pc = "created"
        PROVE  CountInv'
    BY <1>2 DEF CountInv
  <1>3. ASSUME turn_no' = turn_no, CancelReply
        PROVE  CountInv'
    BY <1>2, <1>3, CancelKeeps
  <1>4. CASE UNCHANGED vars \/ Caller
    BY <1>2, <1>4 DEF vars, Caller, Arrive, FallSilent, ClientCloses, replyVars, voiceVars
  <1>5. CASE Handle
    BY <1>2, <1>3, <1>5
    DEF Handle, HandleFrame, BargeIn, HandleReset, HandleGarbled, HandleClose,
        replyVars, voiceVars
  <1>6. CASE Detect
    <2>1. ASSUME NEW c \in BOOLEAN, DetectorAnswers(c), TurnOver(c)
          PROVE  CountInv'
      <3>1. turn_no' = turn_no /\ fired' = fired + 1
        BY <2>1 DEF DetectorAnswers, voiceVars
      <3> QED
        BY <1>1, <3>1 DEF CountInv
    <2> QED
      BY <1>2, <1>6, <2>1 DEF Detect, DetectorFails, DetectorAnswers, replyVars, voiceVars
  <1>7. ASSUME NEW t \in Tasks, Respond(t)
        PROVE  CountInv'
    <2>1. /\ Live(t) /\ fired' = fired
          /\ \A u \in Tasks : u # t => task'[u] = task[u] /\ task'[u].pc # "created"
      <3>1. Live(t)
        BY <1>7 DEF Respond, Start, StartFails, DieUnstarted, Recognised,
                    NothingRecognised, ClauseCloses, StreamEnds, Spoken, Drained,
                    NotSpoken, Unsendable, ServiceFails, Finish, Interrupted,
                    Silenced, At, Live, Waiting
      <3>2. fired' = fired /\ \A u \in Tasks : u # t => task'[u] = task[u]
        BY <1>1, <1>7
        DEF Respond, Start, StartFails, DieUnstarted, Recognised, NothingRecognised,
            ClauseCloses, StreamEnds, Spoken, Drained, NotSpoken, Unsendable,
            ServiceFails, Finish, Interrupted, Silenced, EndTask, Goto, AfterSay, Conclude
      <3> QED
        BY <3>1, <3>2, Alone DEF Live, Waiting
    <2>2. task'[t].pc # "created"
      <3>1. DoneTask.pc = "done"
        BY BlankTypes DEF DoneTask
      <3>2. \/ task' = [task EXCEPT ![t] = DoneTask]
            \/ \E pc \in Waiting \ {"created"} : task' = [task EXCEPT ![t].pc = pc]
            \/ task' = [task EXCEPT ![t].pc = "asr", ![t].n = turn_no + 1]
            \/ task' = [task EXCEPT ![t].pc = "tts", ![t].clauses = @ + 1]
            \/ task' = [task EXCEPT ![t].pc = "tts", ![t].tail = TRUE]
        BY <1>7
        DEF Respond, Start, StartFails, DieUnstarted, Recognised, NothingRecognised,
            ClauseCloses, StreamEnds, Spoken, Drained, NotSpoken, Unsendable,
            ServiceFails, Finish, Interrupted, Silenced, EndTask, Goto, AfterSay,
            Conclude, Waiting
      <3>3. CASE \E pc \in Waiting \ {"created"} : task' = [task EXCEPT ![t].pc = pc]
        BY <1>1, <3>3 DEF TaskRecord
      <3>4. CASE task' = [task EXCEPT ![t].pc = "asr", ![t].n = turn_no + 1]
        BY <1>1, <3>4 DEF TaskRecord
      <3>5. CASE task' = [task EXCEPT ![t].pc = "tts", ![t].clauses = @ + 1]
        BY <1>1, <3>5 DEF TaskRecord
      <3>6. CASE task' = [task EXCEPT ![t].pc = "tts", ![t].tail = TRUE]
        BY <1>1, <3>6 DEF TaskRecord
      <3> QED
        BY <1>1, <3>1, <3>2, <3>3, <3>4, <3>5, <3>6
    <2>3. \A u \in Tasks : task'[u].pc # "created"
      BY <2>1, <2>2
    <2>4. CASE Start(t) \/ StartFails(t)
      <3>1. task[t].pc = "created" /\ turn_no' = turn_no + 1
        BY <2>4 DEF Start, StartFails, At
      <3> QED
        BY <1>1, <2>1, <2>3, <3>1 DEF CountInv
    <2>5. CASE ~(Start(t) \/ StartFails(t))
      <3>1. turn_no' = turn_no
        BY <1>7, <2>5
        DEF Respond, DieUnstarted, Recognised, NothingRecognised, ClauseCloses,
            StreamEnds, Spoken, Drained, NotSpoken, Unsendable, ServiceFails, Finish,
            Interrupted, Silenced, voiceVars
      <3> QED
        BY <2>1, <2>3, <3>1 DEF CountInv
    <2> QED
      BY <2>4, <2>5
  <1> QED
    BY <1>4, <1>5, <1>6, <1>7 DEF Next, Ended

-----------------------------------------------------------------------------
(***************************************************************************)
(* The floor, read off the reply task before and after a step.             *)
(***************************************************************************)
LEMMA FloorOf ==
    ASSUME NEW t \in Tasks, reply = t
    PROVE  /\ task[t].cancel \/ ~Live(t) => Floor = "yielding"
           /\ At(t, "created") \/ At(t, "asr") => Floor = "taken"
           /\ At(t, "llm") \/ At(t, "tts") \/ At(t, "drain") => Floor = "heard"
           /\ At(t, "farewell") => Floor = "answered"
           /\ Floor \in Abstract!AgentFloor
  BY DEF Floor, Tasks, None, At, Runnable, Live, Waiting, Abstract!AgentFloor

LEMMA FloorAfter ==
    ASSUME NEW t \in Tasks, reply' = t
    PROVE  /\ task'[t].cancel \/ task'[t].pc \notin Waiting => Floor' = "yielding"
           /\ task'[t].pc \in {"created", "asr"} /\ ~task'[t].cancel => Floor' = "taken"
           /\ task'[t].pc \in Talking /\ ~task'[t].cancel => Floor' = "heard"
           /\ task'[t].pc = "farewell" /\ ~task'[t].cancel => Floor' = "answered"
  BY DEF Floor, Tasks, None, At, Runnable, Live, Waiting, Talking

LEMMA NoFloor ==
    /\ reply = None => Floor = "caller"
    /\ reply' = None => Floor' = "caller"
  BY DEF Floor

LEMMA SameFloor ==
    ASSUME UNCHANGED replyVars
    PROVE  Floor' = Floor
  BY DEF Floor, replyVars, At, Runnable, Live

\* Cancelling takes the floor from the agent, if it has it.
LEMMA CancelYields ==
    ASSUME FloorInv, CancelReply
    PROVE  /\ reply = None => Floor = "caller" /\ Floor' = "caller"
           /\ reply # None => Floor \in Abstract!AgentFloor /\ Floor' = "yielding"
  <1>1. reply' = reply
    BY DEF CancelReply
  <1>2. CASE reply = None
    BY <1>1, <1>2, NoFloor
  <1>3. CASE reply # None
    <2>1. reply \in Tasks
      BY <1>3 DEF FloorInv, TypeOK, ReplyOK
    <2>2. Floor \in Abstract!AgentFloor
      BY <2>1, FloorOf
    <2>3. task'[reply].cancel \/ task'[reply].pc \notin Waiting
      BY <2>1, CancelMoves DEF Live
    <2> QED
      BY <1>1, <1>3, <2>1, <2>2, <2>3, FloorAfter
  <1> QED
    BY <1>2, <1>3

-----------------------------------------------------------------------------
\* What the caller does is not seen; what the handler and the detector do is.
LEMMA LoopTurns ==
    ASSUME FloorInv, Caller \/ Handle \/ Detect
    PROVE  [Abstract!Next]_(Abstract!vars)
  <1>1. CASE Caller
    <2>1. UNCHANGED replyVars /\ UNCHANGED <<handler, history>>
      BY <1>1 DEF Caller, Arrive, FallSilent, ClientCloses, logVars
    <2> QED
      BY <2>1, SameFloor DEF Ear, Abstract!vars
  <1>2. ASSUME NEW m \in Frames, HandleFrame(m)
        PROVE  [Abstract!Next]_(Abstract!vars)
    <2>1. handler = "recv" /\ handler' \in {"recv", "detect"} /\ history' = history
          /\ (handler' = "detect" => reply = None)
      BY <1>2 DEF HandleFrame, Received, Ask, GateOpen, logVars
    <2>2. Ear = "open" /\ Ear' = IF handler' = "detect" THEN "deciding" ELSE "open"
      BY <2>1 DEF Ear
    <2>3. CASE m = "voiced" /\ speaking
      <3>1. CancelReply /\ reply # None
        BY <1>2, <2>3 DEF HandleFrame, BargeIn, FloorInv, SpeakingHasReply
      <3> QED
        BY <2>1, <2>2, <3>1, CancelYields DEF Abstract!Next, Abstract!Interrupt
    <2>4. CASE ~(m = "voiced" /\ speaking)
      <3>1. Floor' = Floor
        BY <1>2, <2>4, SameFloor DEF HandleFrame, BargeIn
      <3>2. CASE handler' = "detect"
        BY <2>1, <2>2, <3>1, <3>2, NoFloor DEF Abstract!Next, Abstract!Decide
      <3>3. CASE handler' = "recv"
        BY <2>1, <2>2, <3>1, <3>3 DEF Abstract!vars
      <3> QED
        BY <2>1, <3>2, <3>3
    <2> QED
      BY <2>3, <2>4
  <1>3. CASE HandleReset
    <2>1. CancelReply /\ history' = <<>> /\ Ear = "open" /\ Ear' = "open"
      BY <1>3 DEF HandleReset, Received, Ear
    <2>2. Floor' = IF Floor \in Abstract!AgentFloor THEN "yielding" ELSE Floor
      BY <2>1, CancelYields DEF Abstract!AgentFloor
    <2> QED
      BY <2>1, <2>2 DEF Abstract!Next, Abstract!Forget
  <1>4. CASE HandleGarbled \/ HandleClose
    <2>1. Ear = "open" /\ Ear' = "shut" /\ history' = history
      BY <1>4 DEF HandleGarbled, HandleClose, Received, Ear, logVars
    <2>2. Floor' = Floor \/ (Floor \in Abstract!AgentFloor /\ Floor' = "yielding")
      BY <1>4, SameFloor, CancelYields DEF HandleGarbled, HandleClose
    <2> QED
      BY <2>1, <2>2 DEF Abstract!Next, Abstract!HangUp
  <1>5. CASE DetectorFails
    <2>1. Ear = "deciding" /\ Ear' = "shut" /\ history' = history /\ UNCHANGED replyVars
      BY <1>5 DEF DetectorFails, Ear, logVars
    <2> QED
      BY <2>1, SameFloor DEF Abstract!Next, Abstract!HangUp
  <1>6. ASSUME NEW c \in BOOLEAN, DetectorAnswers(c)
        PROVE  [Abstract!Next]_(Abstract!vars)
    <2>1. Ear = "deciding" /\ Ear' = "open" /\ history' = history
          /\ reply = None /\ fired < MaxTurns
      BY <1>6 DEF DetectorAnswers, Ear, logVars, FloorInv
    <2>2. CASE TurnOver(c)
      <3>1. /\ task' = [task EXCEPT ![fired + 1] = NewTask] /\ reply' = fired + 1
            /\ task \in [Tasks -> TaskRecord] /\ fired + 1 \in Tasks
        BY <1>6, <2>1, <2>2, ConstantTypes
        DEF DetectorAnswers, FloorInv, TypeOK, ReplyOK, Tasks
      <3>2. NewTask.pc = "created" /\ ~NewTask.cancel
        BY BlankTypes DEF NewTask
      <3>3. Floor' = "taken"
        BY <3>1, <3>2, FloorAfter
      <3> QED
        BY <2>1, <3>3, NoFloor DEF Abstract!Next, Abstract!Take
    <2>3. CASE ~TurnOver(c)
      <3>1. UNCHANGED replyVars
        BY <1>6, <2>3 DEF DetectorAnswers
      <3> QED
        BY <2>1, <3>1, SameFloor DEF Abstract!Next, Abstract!Pass
    <2> QED
      BY <2>2, <2>3
  <1> QED
    BY <1>1, <1>2, <1>3, <1>4, <1>5, <1>6 DEF Handle, Detect

-----------------------------------------------------------------------------
\* The line of the turn under way is the only one respond can append, once on
\* either side; all its other steps are not seen or give the floor back.
LEMMA RespondTurns ==
    ASSUME TurnsInv, NEW t \in Tasks, Respond(t)
    PROVE  [Abstract!Next]_(Abstract!vars)
  <1>1. /\ task \in [Tasks -> TaskRecord] /\ task[t] \in TaskRecord
        /\ FloorInv /\ RecordInv /\ CountInv /\ Ear' = Ear
        /\ DoneTask.pc = "done"
    BY RespondWire, BlankTypes
    DEF TurnsInv, FloorInv, TypeOK, ReplyOK, Ear, DoneTask
  <1>2. Live(t) /\ reply = t /\ reply # None
    <2>1. Live(t)
      BY DEF Respond, Start, StartFails, DieUnstarted, Recognised, NothingRecognised,
             ClauseCloses, StreamEnds, Spoken, Drained, NotSpoken, Unsendable,
             ServiceFails, Finish, Interrupted, Silenced, At, Live, Waiting
    <2> QED
      BY <1>1, <2>1, Alone
  <1>3. ASSUME EndTask(t), history' = history
        PROVE  [Abstract!Next]_(Abstract!vars)
    <2>1. Floor \in Abstract!AgentFloor /\ Floor' = "caller"
      BY <1>2, <1>3, FloorOf, NoFloor DEF EndTask
    <2> QED
      BY <1>1, <1>3, <2>1 DEF Abstract!Next, Abstract!Yield
  <1>4. ASSUME Floor' = Floor, history' = history
        PROVE  [Abstract!Next]_(Abstract!vars)
    BY <1>1, <1>4 DEF Abstract!vars
  <1>5. CASE StartFails(t) \/ Unsendable(t) \/ ServiceFails(t) \/ Finish(t) \/ Silenced(t)
    BY <1>3, <1>5 DEF StartFails, Unsendable, ServiceFails, Finish, Silenced, logVars
  <1>6. CASE DieUnstarted(t)
    <2>1. task[t].cancel /\ reply' = t /\ history' = history
          /\ task' = [task EXCEPT ![t] = DoneTask]
      BY <1>2, <1>6 DEF DieUnstarted, logVars
    <2>2. task'[t].pc \notin Waiting
      BY <1>1, <2>1 DEF Waiting
    <2> QED
      BY <1>2, <1>4, <2>1, <2>2, FloorOf, FloorAfter
  <1>7. CASE Start(t)
    <2>1. /\ At(t, "created") /\ reply' = t /\ history' = history
          /\ task' = [task EXCEPT ![t] = [task[t] EXCEPT !.pc = "asr", !.n = turn_no + 1]]
      BY <1>1, <1>2, <1>7 DEF Start, logVars
    <2>2. task'[t].pc = "asr" /\ ~task'[t].cancel
      BY <1>1, <2>1 DEF TaskRecord, At, Runnable
    <2> QED
      BY <1>2, <1>4, <2>1, <2>2, FloorOf, FloorAfter
  <1>8. CASE Recognised(t)
    <2>1. At(t, "asr") /\ Begun(t) /\ reply' = t /\ Goto(t, "llm")
      BY <1>2, <1>8 DEF Recognised, At, Begun
    <2>2. task[t].n = turn_no /\ turn_no \in Nat /\ reset_mark \in Nat
      BY <1>1, <2>1, TurnUnderWay
    <2>3. /\ Floor = "taken" /\ Floor' = "heard"
      BY <1>1, <1>2, <2>1, GotoRecord, FloorOf, FloorAfter DEF At, Runnable, Talking
    <2>4. /\ reset_mark < turn_no /\ \A i \in DOMAIN history : history[i].turn < turn_no
      BY <1>1, <2>1 DEF RecordInv, LogInv
    <2>5. turn_no \in Tasks
      <3>1. turn_no <= fired /\ fired \in 0 .. MaxTurns
        BY <1>1 DEF CountInv, FloorInv, TypeOK, ReplyOK
      <3> QED
        BY <2>2, <2>4, <3>1, ConstantTypes DEF Tasks
    <2>6. history' = Append(history, Abstract!LineOf("user", turn_no))
      BY <1>8, <2>2 DEF Recognised, Line, Abstract!LineOf
    <2>7. Abstract!Hear
      BY <1>1, <2>3, <2>4, <2>5, <2>6 DEF Abstract!Hear
    <2> QED
      BY <2>7 DEF Abstract!Next
  <1>9. CASE NothingRecognised(t)
    <2>1. At(t, "asr") /\ reply' = t /\ Goto(t, "farewell") /\ history' = history
      BY <1>2, <1>9 DEF NothingRecognised, logVars
    <2>2. Floor = "taken" /\ Floor' = "answered"
      BY <1>1, <1>2, <2>1, GotoRecord, FloorOf, FloorAfter DEF At, Runnable
    <2> QED
      BY <1>1, <2>1, <2>2 DEF Abstract!Next, Abstract!HearNothing
  <1>10. CASE Interrupted(t)
    <2>1. task[t].cancel /\ reply' = t /\ Goto(t, "bye") /\ history' = history
      BY <1>2, <1>10 DEF Interrupted, logVars
    <2>2. task'[t].cancel
      BY <1>1, <2>1, GotoRecord
    <2> QED
      BY <1>2, <1>4, <2>1, <2>2, FloorOf, FloorAfter
  <1>11. CASE ClauseCloses(t) \/ StreamEnds(t) \/ Spoken(t) \/ Drained(t) \/ NotSpoken(t)
    <2>1. /\ reply' = t /\ Talks(t) /\ Begun(t)
          /\ At(t, "llm") \/ At(t, "tts") \/ At(t, "drain")
      BY <1>2, <1>11 DEF ClauseCloses, StreamEnds, Spoken, Drained, NotSpoken, At,
                         Talks, Talking, Begun
    <2>2. Floor = "heard"
      BY <1>2, <2>1, FloorOf
    <2>3. ASSUME history' = history, task'[t].pc \in Talking,
                 task'[t].cancel = task[t].cancel
          PROVE  [Abstract!Next]_(Abstract!vars)
      BY <1>4, <2>1, <2>2, <2>3, FloorAfter DEF Talks, Runnable
    <2>4. ASSUME NEW pc \in Talking, Goto(t, pc), history' = history
          PROVE  [Abstract!Next]_(Abstract!vars)
      BY <1>1, <2>3, <2>4, GotoRecord
    <2>5. ASSUME NEW sent, Conclude(t, sent)
          PROVE  [Abstract!Next]_(Abstract!vars)
      <3>1. task[t].n = turn_no /\ history # <<>>
            /\ history[Len(history)] = Line("user", turn_no)
        BY <1>1, <2>1, TurnUnderWay DEF RecordInv, LogInv
      <3>2. history' = Append(history, Abstract!LineOf("assistant", history[Len(history)].turn))
        BY <2>5, <3>1 DEF Conclude, Line, Abstract!LineOf
      <3>3. Floor' = "answered"
        BY <1>1, <2>1, <2>5, GotoRecord, FloorAfter DEF Conclude, Talks, Runnable
      <3> QED
        BY <1>1, <2>2, <3>1, <3>2, <3>3 DEF Abstract!Next, Abstract!Answer
    <2>6. CASE task' = [task EXCEPT ![t].pc = "tts", ![t].clauses = @ + 1]
               /\ history' = history
      <3>1. task'[t].pc = "tts" /\ task'[t].cancel = task[t].cancel
        BY <1>1, <2>6 DEF TaskRecord
      <3> QED
        BY <2>3, <2>6, <3>1 DEF Talking
    <2>7. CASE task' = [task EXCEPT ![t].pc = "tts", ![t].tail = TRUE]
               /\ history' = history
      <3>1. task'[t].pc = "tts" /\ task'[t].cancel = task[t].cancel
        BY <1>1, <2>7 DEF TaskRecord
      <3> QED
        BY <2>3, <2>7, <3>1 DEF Talking
    <2> QED
      BY <1>11, <2>4, <2>5, <2>6, <2>7
      DEF ClauseCloses, StreamEnds, Spoken, Drained, NotSpoken, AfterSay, Talking, logVars
  <1> QED
    BY <1>5, <1>6, <1>7, <1>8, <1>9, <1>10, <1>11 DEF Respond

-----------------------------------------------------------------------------
LEMMA InitTurns == Init => TurnsInv /\ Abstract!Init
  <1> SUFFICES ASSUME Init PROVE TurnsInv /\ Abstract!Init
    OBVIOUS
  <1>1. TurnsInv
    BY InitFloor, InitRecord, InitCount DEF TurnsInv
  <1>2. Abstract!Init
    BY NoFloor DEF Init, Ear, Abstract!Init
  <1> QED
    BY <1>1, <1>2

LEMMA NextTurns == TurnsInv /\ [Next]_vars => TurnsInv' /\ [Abstract!Next]_(Abstract!vars)
  <1> SUFFICES ASSUME TurnsInv, [Next]_vars
               PROVE  TurnsInv' /\ [Abstract!Next]_(Abstract!vars)
    OBVIOUS
  <1>1. TurnsInv'
    BY NextFloor, NextRecord, NextCount DEF TurnsInv
  <1>2. CASE UNCHANGED vars
    <2>1. UNCHANGED replyVars /\ UNCHANGED <<handler, history>>
      BY <1>2 DEF vars, logVars
    <2> QED
      BY <1>1, <2>1, SameFloor DEF Ear, Abstract!vars
  <1>3. CASE Next
    BY <1>1, <1>2, <1>3, LoopTurns, RespondTurns DEF Next, Ended, TurnsInv
  <1> QED
    BY <1>2, <1>3

\* The session keeps what TurnTaking promises, for every threshold and bound: a
\* turn is taken only while the caller has the floor, a turn hears one line and
\* answers with one, and an interrupted or reset turn leaves no line behind.
THEOREM ImplementsTurnTaking == Spec => TakesTurns
  BY InitTurns, NextTurns, PTL DEF Spec, TakesTurns, Abstract!Spec
=============================================================================
