--------------------------- MODULE StreamSession ---------------------------
(***************************************************************************)
(* One call of the streaming voice agent, servers/stream_server.py: the    *)
(* coroutine that reads the caller's WebSocket (ws_handler and             *)
(* Session.feed), the reply task it creates for every turn                 *)
(* (Session.respond and Session.say) and the fields of the Session object  *)
(* that the two share.                                                     *)
(*                                                                         *)
(* asyncio runs one coroutine at a time and switches only where one really *)
(* waits, so an action is what runs between two waits: a frame that is     *)
(* only buffered is one action, a frame that asks the turn detector is two *)
(* (run_in_executor lies between them), and a reply is one action per      *)
(* answer it waits for.  Cancelling a task only marks it; the exception is *)
(* thrown at the place where the task waits, as an action of the task.     *)
(*                                                                         *)
(* Audio is a sequence of frames that are voiced or silent.  Text, audio   *)
(* bytes, timings and the log are left out, RECORD is on (its default).    *)
(***************************************************************************)
EXTENDS Integers, Sequences

CONSTANTS
    FrameMs,          \* duration of one audio frame of the client
    MIN_VOICED_MS, PAUSE_MIN_MS, TURN_EVERY_MS, HARD_STOP_MS,
    BufFrames,        \* frames kept in the rolling buffer (20 s)
    Texts,            \* which text messages the client may send
    MaxInbox,         \* bound: messages received and not yet handled
    MaxTurns,         \* bound: reply tasks of one session
    MaxClauses        \* bound: clauses of one answer, before its tail

ASSUME TimingAssumption ==
    /\ FrameMs \in Nat \ {0}
    /\ {MIN_VOICED_MS, PAUSE_MIN_MS, TURN_EVERY_MS, HARD_STOP_MS} \subseteq Nat
    /\ BufFrames \in Nat \ {0}
    \* the buffer outlasts the pause the detector waits for: 220 ms and 20 s
    /\ PAUSE_MIN_MS <= BufFrames * FrameMs

ASSUME BoundsAssumption ==
    /\ Texts \subseteq {"reset", "garbled"}
    /\ {MaxInbox, MaxTurns, MaxClauses} \subseteq Nat

None == 0
Tasks == 1 .. MaxTurns

VARIABLES
    \* the WebSocket and who is at its other end
    inbox,            \* messages received, in order, and not yet handled
    peer,             \* "open" or "closed"
    caller,           \* "talking", or "quiet": will never speak again
    \* the coroutine ws_handler
    handler,          \* where it is: "recv", "detect", "returned", "raised"
    \* the fields of Session
    buf, voiced_ms, since_voice, since_check, speaking, reply,
    history, turn_no, spoke, clip,
    \* the reply tasks: how many were created, and each one's locals
    fired, task,
    \* what the session has written: the recordings, and the messages its
    \* latest step sent to the client
    files, out,
    \* history variable: the turn number when "reset" was last handled
    reset_mark

wireVars  == <<inbox, peer, caller>>
vadVars   == <<buf, voiced_ms, since_voice, since_check>>
replyVars == <<speaking, reply, fired, task>>
voiceVars == <<turn_no, spoke, clip, files>>
logVars   == <<history, reset_mark>>
vars == <<wireVars, handler, vadVars, replyVars, voiceVars, logVars, out>>

Min2(a, b) == IF a <= b THEN a ELSE b

Frames   == {"voiced", "silent"}
Message  == Frames \cup Texts
Handler  == {"recv", "detect", "returned", "raised"}

\* where a reply task waits.  "created": not started yet; "asr": the
\* executor; "llm": the next token; "tts": the TTS server; "drain": the
\* socket, with a clip on its way; "farewell": the socket, with "done" on its
\* way; "bye": the socket, with "cancelled" on its way.
Waiting  == {"created", "asr", "llm", "tts", "drain", "farewell", "bye"}
PC       == Waiting \cup {"none", "done"}

\* n: the local turn number; clauses: clauses spoken so far; tail: whether
\* the text being spoken is what was left when the stream ended
TaskRecord == [pc : PC, cancel : BOOLEAN, n : Nat,
               clauses : 0 .. MaxClauses, tail : BOOLEAN]
Blank(pc) == [pc |-> pc, cancel |-> FALSE, n |-> 0, clauses |-> 0, tail |-> FALSE]
NoTask    == Blank("none")
NewTask   == Blank("created")
DoneTask  == Blank("done")

Live(t) == task[t].pc \in Waiting
Runnable(t) == ~task[t].cancel

\* lines of the history, messages to the client (what the page only displays
\* is left out), recordings; "by" is the turn that wrote the file
LogLine   == [role : {"user", "assistant"}, turn : Nat]
Kind      == {"ready", "barge", "turn", "user", "empty", "done", "first_audio",
              "wav", "tts_error", "cancelled"}
Outgoing  == [t : Kind, turn : Nat]
Recording == [side : {"caller", "agent"}, turn : Nat, clip : Nat, by : Nat]

Line(role, n)      == [role |-> role, turn |-> n]
Event(kind, n)     == [t |-> kind, turn |-> n]
CallerFile(n)      == [side |-> "caller", turn |-> n, clip |-> 0, by |-> n]
AgentFile(n, c, b) == [side |-> "agent", turn |-> n, clip |-> c, by |-> b]

(***************************************************************************)
(* Session.__init__ and the start of ws_handler.                           *)
(***************************************************************************)
Init ==
    /\ inbox = <<>> /\ peer = "open" /\ caller = "talking"
    /\ handler = "recv"
    /\ buf = [len |-> 0, tail |-> 0]
    /\ voiced_ms = 0 /\ since_voice = 0 /\ since_check = 0
    /\ speaking = FALSE /\ reply = None
    /\ history = <<>> /\ turn_no = 0 /\ spoke = FALSE /\ clip = 0
    /\ fired = 0 /\ task = [t \in Tasks |-> NoTask]
    /\ files = <<>> /\ out = <<Event("ready", 0)>>
    /\ reset_mark = 0

-----------------------------------------------------------------------------
(***************************************************************************)
(* The client.  It streams the microphone from the moment it connects, so  *)
(* frames keep coming while the agent speaks.  A task that was just        *)
(* created runs before the loop reads the socket again, so nothing arrives *)
(* while one is in state "created".                                        *)
(***************************************************************************)
Connected == peer = "open" /\ handler \in {"recv", "detect"}

Arrive(m) ==
    /\ Connected
    /\ Len(inbox) < MaxInbox
    /\ \A t \in Tasks : task[t].pc # "created"
    /\ caller = "quiet" => m = "silent"
    /\ inbox' = Append(inbox, m)
    /\ out' = <<>>
    /\ UNCHANGED <<peer, caller, handler, vadVars, replyVars, voiceVars, logVars>>

\* The caller has said everything: from here on the microphone is silent.
FallSilent ==
    /\ caller = "talking"
    /\ caller' = "quiet"
    /\ out' = <<>>
    /\ UNCHANGED <<inbox, peer, handler, vadVars, replyVars, voiceVars, logVars>>

\* The tab is closed or the connection is lost.
ClientCloses ==
    /\ Connected
    /\ peer' = "closed"
    /\ out' = <<>>
    /\ UNCHANGED <<inbox, caller, handler, vadVars, replyVars, voiceVars, logVars>>

-----------------------------------------------------------------------------
(***************************************************************************)
(* Session.cancel_reply.  Only marks the task; reply keeps pointing at it. *)
(***************************************************************************)
CancelReplyForgetsTask ==   \* mistake: also clears the field
    /\ speaking' = FALSE
    /\ reply' = None
    /\ fired' = fired
    /\ task' = IF reply # None /\ Live(reply)
               THEN [task EXCEPT ![reply].cancel = TRUE] ELSE task

CancelReplyOnlyFlags ==     \* mistake: lowers the flag and cancels nothing
    /\ speaking' = FALSE
    /\ UNCHANGED <<reply, fired, task>>

CancelReply ==
    /\ speaking' = FALSE
    /\ task' = IF reply # None /\ Live(reply)
               THEN [task EXCEPT ![reply].cancel = TRUE] ELSE task
    /\ UNCHANGED <<reply, fired>>

(***************************************************************************)
(* Session.feed up to the detector.  The rolling buffer is abstracted to   *)
(* its length and the number of silent frames at its end (tail = len: it   *)
(* holds no voice).  The counters saturate just above the thresholds they  *)
(* are compared with.                                                      *)
(***************************************************************************)
BufAfterUncapped(voiced) ==   \* mistake: the last 20 s are not cut out
    [len |-> buf.len + 1, tail |-> IF voiced THEN 0 ELSE buf.tail + 1]

BufAfter(voiced) ==
    LET n == Min2(buf.len + 1, BufFrames)
    IN  [len |-> n, tail |-> IF voiced THEN 0 ELSE Min2(buf.tail + 1, n)]

VoicedAfter(voiced) ==
    IF voiced THEN Min2(voiced_ms + FrameMs, MIN_VOICED_MS) ELSE voiced_ms

SilenceAfterKept(voiced) ==   \* mistake: voice does not restart the pause
    IF ~voiced /\ voiced_ms > 0
    THEN Min2(since_voice + FrameMs, HARD_STOP_MS + 1) ELSE since_voice

SilenceAfter(voiced) ==
    CASE voiced                    -> 0
      [] ~voiced /\ voiced_ms > 0  -> Min2(since_voice + FrameMs, HARD_STOP_MS + 1)
      [] ~voiced /\ voiced_ms <= 0 -> since_voice

GateOpenWhileReplying(voiced) ==   \* mistake: asks although a reply exists
    VoicedAfter(voiced) >= MIN_VOICED_MS

GateOpen(voiced) == VoicedAfter(voiced) >= MIN_VOICED_MS /\ reply = None

Paused(voiced) == SilenceAfter(voiced) >= PAUSE_MIN_MS

Due == since_check + FrameMs >= TURN_EVERY_MS

\* the barge-in branch at the top of feed
BargeIn(voiced) ==
    IF voiced /\ speaking
    THEN CancelReply /\ out' = <<Event("barge", turn_no)>>
    ELSE UNCHANGED replyVars /\ out' = <<>>

\* where feed returns early, or else goes on to ask the detector
Ask(voiced) ==
    \/ /\ ~GateOpen(voiced)
       /\ UNCHANGED <<handler, since_check>>
    \/ /\ GateOpen(voiced) /\ ~Paused(voiced)
       /\ since_check' = 0 /\ handler' = handler
    \/ /\ GateOpen(voiced) /\ Paused(voiced) /\ ~Due
       /\ since_check' = since_check + FrameMs /\ handler' = handler
    \/ /\ GateOpen(voiced) /\ Paused(voiced) /\ Due
       /\ since_check' = 0
       /\ handler' = IF fired < MaxTurns THEN "detect" ELSE handler

Received(m) ==
    /\ handler = "recv"
    /\ inbox # <<>> /\ Head(inbox) = m
    /\ inbox' = Tail(inbox)
    /\ UNCHANGED <<peer, caller>>

HandleFrame(m) ==
    LET voiced == m = "voiced" IN
    /\ Received(m)
    /\ BargeIn(voiced)
    /\ buf' = BufAfter(voiced)
    /\ voiced_ms' = VoicedAfter(voiced)
    /\ since_voice' = SilenceAfter(voiced)
    /\ Ask(voiced)
    /\ UNCHANGED <<voiceVars, logVars>>

(***************************************************************************)
(* The rest of feed, once the executor returned: a turn is taken when the  *)
(* detector says so, or after HARD_STOP_MS of silence.                     *)
(***************************************************************************)
TurnOverNoBackstop(complete) == complete   \* mistake: waits for the detector

TurnOver(complete) == complete \/ since_voice > HARD_STOP_MS

DetectorAnswers(complete) ==
    /\ handler = "detect"
    /\ handler' = "recv"
    /\ out' = <<Event("turn", 0)>>
    /\ IF TurnOver(complete)
       THEN /\ buf' = [len |-> 0, tail |-> 0]
            /\ voiced_ms' = 0 /\ since_voice' = 0 /\ since_check' = since_check
            /\ fired' = fired + 1
            /\ reply' = fired + 1
            /\ task' = [task EXCEPT ![fired + 1] = NewTask]
            /\ speaking' = speaking
       ELSE UNCHANGED <<vadVars, replyVars>>
    /\ UNCHANGED <<wireVars, voiceVars, logVars>>

\* turn_p raises (no GPU memory, say): feed and ws_handler raise with it, and
\* nobody cancels a reply.
DetectorFails ==
    /\ handler = "detect"
    /\ handler' = "raised"
    /\ out' = <<>>
    /\ UNCHANGED <<wireVars, vadVars, replyVars, voiceVars, logVars>>

(***************************************************************************)
(* The TEXT branch of ws_handler, and what follows its loop.               *)
(***************************************************************************)
HandleResetKeepsReply ==   \* mistake: the reply under way goes on
    /\ Received("reset")
    /\ UNCHANGED replyVars
    /\ history' = <<>> /\ reset_mark' = turn_no
    /\ out' = <<>>
    /\ UNCHANGED <<handler, vadVars, voiceVars>>

HandleReset ==
    /\ Received("reset")
    /\ CancelReply
    /\ history' = <<>> /\ reset_mark' = turn_no
    /\ out' = <<>>
    /\ UNCHANGED <<handler, vadVars, voiceVars>>

\* A message that json.loads, .get or np.frombuffer rejects.
HandleGarbled ==
    /\ Received("garbled")
    /\ handler' = "raised"
    /\ out' = <<>>
    /\ UNCHANGED <<vadVars, replyVars, voiceVars, logVars>>

HandleClose ==
    /\ handler = "recv" /\ inbox = <<>> /\ peer = "closed"
    /\ handler' = "returned"
    /\ CancelReply
    /\ out' = <<>>
    /\ UNCHANGED <<wireVars, vadVars, voiceVars, logVars>>

-----------------------------------------------------------------------------
(***************************************************************************)
(* Session.respond, one action per wait.  Every step but the arrival of    *)
(* the cancellation needs the task not to be marked.                       *)
(***************************************************************************)
At(t, pc) == task[t].pc = pc /\ Runnable(t)
Goto(t, pc) == task' = [task EXCEPT ![t].pc = pc]

EndTaskKeepsFlag(t) ==    \* mistake: speaking is not lowered
    /\ speaking' = speaking /\ reply' = None
    /\ fired' = fired
    /\ task' = [task EXCEPT ![t] = DoneTask]

EndTaskKeepsReply(t) ==   \* mistake: reply keeps pointing at the dead task
    /\ speaking' = FALSE /\ reply' = reply
    /\ fired' = fired
    /\ task' = [task EXCEPT ![t] = DoneTask]

\* the finally clause
EndTask(t) ==
    /\ speaking' = FALSE /\ reply' = None
    /\ fired' = fired
    /\ task' = [task EXCEPT ![t] = DoneTask]

\* The handler goes on through its inbox before a task it created runs.
Parked == handler = "recv" => inbox = <<>>

Start(t) ==
    /\ At(t, "created") /\ Parked
    /\ turn_no' = turn_no + 1
    /\ files' = Append(files, CallerFile(turn_no + 1))
    /\ task' = [task EXCEPT ![t].pc = "asr", ![t].n = turn_no + 1]
    /\ out' = <<>>
    /\ UNCHANGED <<wireVars, handler, vadVars, speaking, reply, fired,
                   spoke, clip, logVars>>

\* save_wav raises (a full disk).
StartFails(t) ==
    /\ At(t, "created") /\ Parked
    /\ turn_no' = turn_no + 1
    /\ EndTask(t)
    /\ out' = <<>>
    /\ UNCHANGED <<wireVars, handler, vadVars, spoke, clip, files, logVars>>

\* A task cancelled before its first step never enters the try: no finally.
DieUnstarted(t) ==
    /\ task[t].pc = "created" /\ task[t].cancel /\ Parked
    /\ task' = [task EXCEPT ![t] = DoneTask]
    /\ out' = <<>>
    /\ UNCHANGED <<wireVars, handler, vadVars, speaking, reply, fired,
                   voiceVars, logVars>>

Recognised(t) ==
    /\ At(t, "asr")
    /\ history' = Append(history, Line("user", task[t].n))
    /\ spoke' = FALSE /\ clip' = 0 /\ speaking' = TRUE
    /\ Goto(t, "llm")
    /\ out' = <<Event("user", task[t].n)>>
    /\ UNCHANGED <<wireVars, handler, vadVars, reply, fired, turn_no, files,
                   reset_mark>>

NothingRecognised(t) ==
    /\ At(t, "asr")
    /\ Goto(t, "farewell")
    /\ out' = <<Event("empty", task[t].n)>>
    /\ UNCHANGED <<wireVars, handler, vadVars, speaking, reply, fired,
                   voiceVars, logVars>>

\* A clause of the answer closed while it streams.
ClauseCloses(t) ==
    /\ At(t, "llm") /\ task[t].clauses < MaxClauses
    /\ task' = [task EXCEPT ![t].pc = "tts", ![t].clauses = @ + 1]
    /\ out' = <<>>
    /\ UNCHANGED <<wireVars, handler, vadVars, speaking, reply, fired,
                   voiceVars, logVars>>

\* What respond does once everything is said.
Conclude(t, sent) ==
    /\ history' = Append(history, Line("assistant", task[t].n))
    /\ Goto(t, "farewell")
    /\ out' = sent \o <<Event("done", task[t].n)>>
    /\ UNCHANGED reset_mark

StreamEnds(t) ==
    /\ At(t, "llm")
    /\ \/ /\ task' = [task EXCEPT ![t].pc = "tts", ![t].tail = TRUE]
          /\ out' = <<>>
          /\ UNCHANGED logVars
       \/ Conclude(t, <<>>)
    /\ UNCHANGED <<wireVars, handler, vadVars, speaking, reply, fired, voiceVars>>

\* say returned: back to the stream, or on to the end of respond
AfterSay(t, sent) ==
    IF task[t].tail THEN Conclude(t, sent)
    ELSE Goto(t, "llm") /\ out' = sent /\ UNCHANGED logVars

(***************************************************************************)
(* Session.say.  The file name takes the session's turn_no and clip, not   *)
(* the task's own turn number.                                             *)
(***************************************************************************)
Clip(t) == AgentFile(turn_no, clip + 1, task[t].n)

Spoken(t) ==
    /\ At(t, "tts")
    /\ spoke' = TRUE /\ clip' = clip + 1
    /\ files' = Append(files, Clip(t))
    /\ Goto(t, "drain")
    /\ out' = (IF spoke THEN <<>> ELSE <<Event("first_audio", task[t].n)>>)
              \o <<Event("wav", task[t].n)>>
    /\ UNCHANGED <<wireVars, handler, vadVars, speaking, reply, fired,
                   turn_no, logVars>>

Drained(t) ==
    /\ At(t, "drain")
    /\ AfterSay(t, <<>>)
    /\ UNCHANGED <<wireVars, handler, vadVars, speaking, reply, fired, voiceVars>>

\* The TTS server answered, but not 200.
NotSpoken(t) ==
    /\ At(t, "tts")
    /\ AfterSay(t, <<Event("tts_error", task[t].n)>>)
    /\ UNCHANGED <<wireVars, handler, vadVars, speaking, reply, fired, voiceVars>>

\* The socket is gone: send raises after the file was written.
Unsendable(t) ==
    /\ At(t, "tts") /\ ~Connected
    /\ spoke' = TRUE /\ clip' = clip + 1
    /\ files' = Append(files, Clip(t))
    /\ EndTask(t)
    /\ out' = <<>>
    /\ UNCHANGED <<wireVars, handler, vadVars, turn_no, logVars>>

\* The recogniser, the LLM or the TTS server cannot be reached or times out,
\* a file cannot be written, or the connection is lost while a clip drains
\* (send_bytes raises): the exception leaves respond.
ServiceFails(t) ==
    /\ \/ At(t, "asr") \/ At(t, "llm") \/ At(t, "tts")
       \/ At(t, "drain") /\ ~Connected
    /\ EndTask(t)
    /\ out' = <<>>
    /\ UNCHANGED <<wireVars, handler, vadVars, voiceVars, logVars>>

Finish(t) ==
    /\ At(t, "farewell")
    /\ EndTask(t)
    /\ out' = <<>>
    /\ UNCHANGED <<wireVars, handler, vadVars, voiceVars, logVars>>

\* CancelledError is thrown where the task waits inside the try ...
Interrupted(t) ==
    /\ task[t].cancel
    /\ task[t].pc \in {"asr", "llm", "tts", "drain", "farewell"}
    /\ Goto(t, "bye")
    /\ out' = <<Event("cancelled", task[t].n)>>
    /\ UNCHANGED <<wireVars, handler, vadVars, speaking, reply, fired,
                   voiceVars, logVars>>

\* ... and the except clause is done, or cancelled once more.
Silenced(t) ==
    /\ task[t].pc = "bye"
    /\ EndTask(t)
    /\ out' = <<>>
    /\ UNCHANGED <<wireVars, handler, vadVars, voiceVars, logVars>>

-----------------------------------------------------------------------------
(***************************************************************************)
(* The session as a whole.                                                 *)
(***************************************************************************)
Respond(t) ==
    \/ Start(t) \/ StartFails(t) \/ DieUnstarted(t)
    \/ Recognised(t) \/ NothingRecognised(t)
    \/ ClauseCloses(t) \/ StreamEnds(t)
    \/ Spoken(t) \/ Drained(t) \/ NotSpoken(t) \/ Unsendable(t)
    \/ ServiceFails(t) \/ Finish(t)
    \/ Interrupted(t) \/ Silenced(t)

Handle == (\E m \in Frames : HandleFrame(m)) \/ HandleReset \/ HandleGarbled
          \/ HandleClose
Detect == DetectorFails \/ \E complete \in BOOLEAN : DetectorAnswers(complete)
Caller == FallSilent \/ ClientCloses \/ \E m \in Message : Arrive(m)

\* ws_handler and every reply have ended.
Over ==
    /\ handler \in {"returned", "raised"}
    /\ \A t \in Tasks : ~Live(t)
Ended == Over /\ UNCHANGED vars

Next == Caller \/ Handle \/ Detect \/ (\E t \in Tasks : Respond(t)) \/ Ended

Spec == Init /\ [][Next]_vars

(***************************************************************************)
(* The event loop runs every coroutine that can run, the executor and the  *)
(* services answer or fail (the HTTP session has a total timeout of 120 s) *)
(* and the browser sends the microphone for as long as it is connected.    *)
(***************************************************************************)
Fairness ==
    /\ WF_vars(Handle)
    /\ WF_vars(Detect)
    /\ \A t \in Tasks : WF_vars(Respond(t))
    /\ WF_vars(Arrive("silent"))

FairSpec == Spec /\ Fairness

-----------------------------------------------------------------------------
WireOK ==
    /\ inbox \in Seq(Message) /\ peer \in {"open", "closed"}
    /\ caller \in {"talking", "quiet"} /\ handler \in Handler
    /\ out \in Seq(Outgoing)

VadOK ==
    /\ buf \in [len : 0 .. BufFrames, tail : 0 .. BufFrames]
    /\ voiced_ms \in 0 .. MIN_VOICED_MS
    /\ since_voice \in 0 .. HARD_STOP_MS + 1
    /\ since_check \in Nat

ReplyOK ==
    /\ speaking \in BOOLEAN /\ reply \in Tasks \cup {None}
    /\ fired \in 0 .. MaxTurns /\ task \in [Tasks -> TaskRecord]

RecordOK ==
    /\ history \in Seq(LogLine) /\ reset_mark \in Nat
    /\ turn_no \in Nat /\ spoke \in BOOLEAN /\ clip \in Nat
    /\ files \in Seq(Recording)

\* Every variable has its type: the rolling buffer keeps at most 20 s and the
\* counters stay within their saturation.
TypeOK == WireOK /\ VadOK /\ ReplyOK /\ RecordOK

\* There is never a second reply task beside the one the session points at:
\* feed asks for no turn while reply is set, cancel_reply leaves reply set and
\* only the task's own finally clears it.  (Two replies would share speaking,
\* _spoke, _clip, turn_no and history.)
OneReplyAtATime == \A t \in Tasks : Live(t) => reply = t

\* While the agent has the floor there is a reply that barge-in can cancel and
\* that has not been cancelled: speaking is raised by the reply and lowered
\* wherever the reply ends or is cancelled, never later.
SpeakingHasReply ==
    speaking => /\ reply # None
                /\ Runnable(reply)
                /\ task[reply].pc \in {"llm", "tts", "drain", "farewell"}

\* Why the last two hold, as an induction: a turn is being decided only while
\* there is no reply, and a reply that is answering and was not cancelled has
\* raised speaking.
FloorInv ==
    /\ TypeOK
    /\ OneReplyAtATime
    /\ SpeakingHasReply
    /\ handler = "detect" => reply = None /\ fired < MaxTurns
    /\ \A t \in Tasks :
          Runnable(t) /\ task[t].pc \in {"llm", "tts", "drain"} => speaking

\* What the LLM is shown is a conversation: an assistant line directly follows
\* the user line of the same turn, and turns appear in order, whatever was
\* interrupted or reset in between.
HistoryPaired ==
    \A i \in DOMAIN history :
        /\ history[i].role = "assistant" =>
              i > 1 /\ history[i - 1] = Line("user", history[i].turn)
        /\ i > 1 /\ history[i].role = "user" =>
              history[i - 1].turn < history[i].turn

\* A reset is final: no line of a turn begun before it comes back, though the
\* reply of that turn may still be running when the history is cleared.
ResetForgets == \A i \in DOMAIN history : history[i].turn > reset_mark

\* README: the detector "must only be asked at a pause" and runs on the audio
\* recorded so far: when it is asked, the buffer ends in PAUSE_MIN_MS of
\* silence.
PauseBeforeAsking == handler = "detect" => buf.tail * FrameMs >= PAUSE_MIN_MS

\* The two sides of every turn are kept apart and complete: no recording is
\* overwritten by a later one, and a clip is filed under the turn of the reply
\* that spoke it although its name is made from fields of the session.
RecordingsFaithful ==
    /\ \A i \in DOMAIN files : files[i].turn = files[i].by
    /\ \A i, j \in DOMAIN files : files[i] = files[j] => i = j

\* The caller can interrupt whatever is spoken: no clip leaves while speaking
\* is down, for feed would not see a barge-in then.
AudioIsInterruptible ==
    [][ \A i \in DOMAIN out' : out'[i].t = "wav" => speaking ]_vars

\* A caller who has said enough and stopped is answered: a turn is taken (the
\* counter starts again) even if the detector never says so.
UtteranceAnswered ==
    caller = "quiet" /\ voiced_ms >= MIN_VOICED_MS ~>
        voiced_ms = 0 \/ ~Connected \/ fired = MaxTurns

\* Every reply gives the floor back to the caller.
FloorReturns == reply # None ~> reply = None \/ ~Connected
=============================================================================
