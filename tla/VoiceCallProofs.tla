-------------------------- MODULE VoiceCallProofs --------------------------
(***************************************************************************)
(* Proofs about a whole call: what is on the line to the page and in its   *)
(* chains of clips, whatever the session, the network and the decoder do   *)
(* in the meantime.                                                        *)
(***************************************************************************)
EXTENDS VoiceCall, StreamSessionProofs

\* The turn is over for the page: its barge is on the line or was handled last.
Barged(n) ==
    \/ hushed = n
    \/ \E i \in DOMAIN line : line[i].t = "barge" /\ line[i].turn = n

\* Messages come in the order of their turns, a barge last; and no reply of a
\* barged turn goes on.
LineInv ==
    /\ hushed <= turn_no
    /\ \A i \in DOMAIN line : hushed <= line[i].turn /\ line[i].turn <= turn_no
    /\ \A i \in DOMAIN line : line[i].t = "wav" => hushed < line[i].turn
    /\ \A i, j \in DOMAIN line : i < j => line[i].turn <= line[j].turn
    /\ NoAudioAfterBarge
    /\ Barged(turn_no) => \A t \in Tasks : ~(Begun(t) /\ Runnable(t))
    /\ peer = "closed" => line = <<>> /\ chain = <<>>
    /\ Over => out = <<>>

\* A clip in the chain belongs to a turn after the last barge and before what
\* is on the line; a clip in a chain left behind, to a turn before that barge,
\* or to a call the page has hung up.
ChainInv ==
    /\ ChainIsFresh
    /\ \A k \in DOMAIN chain : chain[k].turn <= turn_no
    /\ \A k \in DOMAIN chain, i \in DOMAIN line : chain[k].turn <= line[i].turn
    /\ peer = "open" => \A b \in loose : \A k \in DOMAIN b : b[k].turn <= hushed
    /\ \A a, b \in loose : a # b =>
          \A i \in DOMAIN a, j \in DOMAIN b : a[i].turn # b[j].turn

\* A chain is in the order of arrival ...
Ordered(c) ==
    /\ \A k \in DOMAIN c : c[k].no <= arrived
    /\ \A k, l \in DOMAIN c : k < l => c[k].no < c[l].no

\* ... and comes after what was started of the same turn.
Behind(c) ==
    \A i \in DOMAIN started, k \in DOMAIN c :
        started[i].turn = c[k].turn => started[i].no < c[k].no

OrderInv ==
    /\ Ordered(chain) /\ Behind(chain)
    /\ \A b \in loose : Ordered(b) /\ Behind(b)
    /\ \A i \in DOMAIN started : started[i].no <= arrived
    /\ RepliesPlayInOrder

CallInv == PageTypeOK /\ LineInv /\ ChainInv /\ OrderInv

-----------------------------------------------------------------------------
LEMMA InitCall == CallInit => CallInv
  <1> SUFFICES ASSUME CallInit PROVE CallInv
    OBVIOUS
  <1>1. /\ line = <<>> /\ chain = <<>> /\ loose = {} /\ playing = <<>>
        /\ arrived = 0 /\ hushed = 0 /\ started = <<>>
        /\ turn_no = 0 /\ handler = "recv" /\ peer = "open"
    BY DEF CallInit, PageInit, Init
  <1>2. \A t \in Tasks : task[t].pc = "none"
    BY BlankTypes DEF CallInit, Init, NoTask
  <1>3. PageTypeOK
    BY <1>1 DEF PageTypeOK
  <1>4. LineInv
    BY <1>1, <1>2 DEF LineInv, NoAudioAfterBarge, Begun, Live, Waiting, Over
  <1>5. ChainInv /\ OrderInv
    BY <1>1 DEF ChainInv, ChainIsFresh, OrderInv, Ordered, Behind, RepliesPlayInOrder
  <1> QED
    BY <1>3, <1>4, <1>5 DEF CallInv

-----------------------------------------------------------------------------
(* What a step of the session puts on the line.                            *)

\* Of the messages of one step the page acts on the last one at most: feed
\* sends "barge" alone, and say sends the clip behind "first_audio".
LEMMA ActedLast ==
    ASSUME FloorInv, Next, ~Ended, NEW i \in DOMAIN out', Acted(out'[i])
    PROVE  i = Len(out')
  <1>1. ASSUME NEW e, out' = <<e>>
        PROVE  i = Len(out')
    BY <1>1
  <1>2. ASSUME NEW j, ~Acted(Event(j, 0)), NEW n, NEW e,
               out' = <<Event(j, n)>> \o <<e>>
        PROVE  i = Len(out')
    BY <1>2 DEF Event, Acted
  <1>3. CASE Caller
    BY <1>3 DEF Caller, Arrive, FallSilent, ClientCloses
  <1>4. CASE Handle
    <2>1. out' = <<>> \/ out' = <<Event("barge", turn_no)>>
      BY <1>4 DEF Handle, HandleFrame, BargeIn, HandleReset, HandleGarbled, HandleClose
    <2> QED
      BY <2>1, <1>1
  <1>5. CASE Detect
    <2>1. out' = <<>> \/ out' = <<Event("turn", 0)>>
      BY <1>5 DEF Detect, DetectorFails, DetectorAnswers
    <2> QED
      BY <2>1, <1>1
  <1>6. ASSUME NEW t \in Tasks, Respond(t)
        PROVE  i = Len(out')
    <2> DEFINE n == task[t].n
    <2>1. \/ out' = <<>>
          \/ \E e : out' = <<e>>
          \/ \E e : out' = <<>> \o <<e>>
          \/ out' = <<Event("first_audio", n)>> \o <<Event("wav", n)>>
          \/ out' = <<Event("tts_error", n)>> \o <<Event("done", n)>>
      BY <1>6
      DEF Respond, Start, StartFails, DieUnstarted, Recognised, NothingRecognised,
          ClauseCloses, StreamEnds, Spoken, Drained, NotSpoken, Unsendable, ServiceFails,
          Finish, Interrupted, Silenced, AfterSay, Conclude
    <2>2. \A e : <<>> \o <<e>> = <<e>>
      OBVIOUS
    <2>3. ~Acted(Event("first_audio", 0)) /\ ~Acted(Event("tts_error", 0))
      BY DEF Acted, Event
    <2> HIDE DEF n
    <2> QED
      BY <2>1, <2>2, <2>3, <1>1, <1>2
  <1> QED
    BY <1>3, <1>4, <1>5, <1>6 DEF Next

\* A reply ends, and the handler returns, without sending anything more.
LEMMA EndsQuietly ==
    ASSUME FloorInv, Next, Over => out = <<>>
    PROVE  Over' => out' = <<>>
  <1>1. CASE Caller
    BY <1>1 DEF Caller, Arrive, FallSilent, ClientCloses
  <1>2. CASE Handle
    BY <1>2 DEF Handle, HandleFrame, Received, Ask, HandleReset, HandleGarbled,
                HandleClose, Over
  <1>3. CASE Detect
    BY <1>3 DEF Detect, DetectorFails, DetectorAnswers, Over
  <1>4. ASSUME NEW t \in Tasks, Respond(t), out' # <<>>
        PROVE  ~Over'
    <2>1. task \in [Tasks -> TaskRecord]
      BY DEF FloorInv, TypeOK, ReplyOK
    <2>2. \E pc \in Waiting : Goto(t, pc)
      BY <1>4
      DEF Respond, Start, StartFails, DieUnstarted, Recognised, NothingRecognised,
          ClauseCloses, StreamEnds, Spoken, Drained, NotSpoken, Unsendable, ServiceFails,
          Finish, Interrupted, Silenced, AfterSay, Conclude, Waiting
    <2>3. \A pc \in Waiting : Goto(t, pc) => Live(t)'
      BY <2>1 DEF Goto, Live, TaskRecord
    <2> QED
      BY <2>2, <2>3 DEF Over
  <1>5. CASE Ended
    BY <1>5 DEF Ended, vars, Over, Live
  <1> QED
    BY <1>1, <1>2, <1>3, <1>4, <1>5 DEF Next

\* So a step puts nothing on the line, or the barge of the latest turn while it
\* cancels the reply, or a clip of the latest turn, whose reply goes on.
LEMMA Sends ==
    ASSUME FloorInv, RecordInv, Next, Over => out = <<>>
    PROVE  \/ ForPage(out') = <<>>
           \/ /\ ForPage(out') = <<Event("barge", turn_no)>>
              /\ CancelReply /\ turn_no' = turn_no
           \/ /\ ForPage(out') = <<Event("wav", turn_no)>>
              /\ \E t \in Tasks : Begun(t) /\ Runnable(t)
              /\ turn_no' = turn_no
  <1>1. ForPage(<<>>) = <<>>
    BY DEF ForPage
  <1>2. ASSUME NEW k, NEW n
        PROVE  /\ k \notin {"wav", "barge"} => ForPage(<<Event(k, n)>>) = <<>>
               /\ k \in {"wav", "barge"} => ForPage(<<Event(k, n)>>) = <<Event(k, n)>>
    BY DEF ForPage, Acted, Event
  <1>3. ASSUME NEW n
        PROVE  /\ ForPage(<<Event("tts_error", n)>> \o <<Event("done", n)>>) = <<>>
               /\ ForPage(<<Event("first_audio", n)>> \o <<Event("wav", n)>>)
                     = <<Event("wav", n)>>
    <2>1. \A e, f : /\ Len(<<e>> \o <<f>>) = 2 /\ (<<e>> \o <<f>>)[2] = f
                    /\ <<e>> \o <<f>> # <<>>
      OBVIOUS
    <2>2. ~Acted(Event("done", n)) /\ Acted(Event("wav", n))
      BY DEF Acted, Event
    <2> QED
      BY <2>1, <2>2 DEF ForPage
  <1>4. \A e : <<>> \o <<e>> = <<e>>
    OBVIOUS
  <1>5. CASE Caller
    BY <1>1, <1>5 DEF Caller, Arrive, FallSilent, ClientCloses
  <1>6. CASE Handle
    <2>1. \/ out' = <<>>
          \/ out' = <<Event("barge", turn_no)>> /\ CancelReply /\ turn_no' = turn_no
      BY <1>6 DEF Handle, HandleFrame, BargeIn, HandleReset, HandleGarbled, HandleClose,
                  voiceVars
    <2> QED
      BY <2>1, <1>1, <1>2
  <1>7. CASE Detect
    <2>1. out' = <<>> \/ out' = <<Event("turn", 0)>>
      BY <1>7 DEF Detect, DetectorFails, DetectorAnswers
    <2> QED
      BY <2>1, <1>1, <1>2
  <1>8. ASSUME NEW t \in Tasks, Respond(t), ~Spoken(t)
        PROVE  ForPage(out') = <<>>
    <2> DEFINE n == task[t].n
    <2>1. \/ out' = <<>>
          \/ \E k \in {"user", "empty", "done", "tts_error", "cancelled"} :
                out' = <<Event(k, n)>>
          \/ out' = <<>> \o <<Event("done", n)>>
          \/ out' = <<Event("tts_error", n)>> \o <<Event("done", n)>>
      BY <1>8
      DEF Respond, Start, StartFails, DieUnstarted, Recognised, NothingRecognised,
          ClauseCloses, StreamEnds, Drained, NotSpoken, Unsendable, ServiceFails,
          Finish, Interrupted, Silenced, AfterSay, Conclude
    <2>2. \A k \in {"user", "empty", "done", "tts_error", "cancelled"} :
              ForPage(<<Event(k, n)>>) = <<>>
      BY <1>2
    <2> HIDE DEF n
    <2> QED
      BY <2>1, <2>2, <1>1, <1>3, <1>4
  <1>9. ASSUME NEW t \in Tasks, Spoken(t)
        PROVE  /\ ForPage(out') = <<Event("wav", turn_no)>>
               /\ Begun(t) /\ Runnable(t) /\ turn_no' = turn_no
    <2>1. Begun(t) /\ Runnable(t) /\ turn_no' = turn_no
      BY <1>9 DEF Spoken, At, Begun, Live, Waiting
    <2>2. task[t].n = turn_no
      BY <2>1 DEF RecordInv, LogInv
    <2>3. \/ out' = <<>> \o <<Event("wav", turn_no)>>
          \/ out' = <<Event("first_audio", turn_no)>> \o <<Event("wav", turn_no)>>
      BY <1>9, <2>2 DEF Spoken
    <2> QED
      BY <2>1, <2>3, <1>2, <1>3, <1>4
  <1>10. CASE Ended
    BY <1>1, <1>10 DEF Ended, vars
  <1> QED
    BY <1>5, <1>6, <1>7, <1>8, <1>9, <1>10 DEF Next

\* A reply begins by numbering a new turn; without that, a step lets no reply
\* begin, and a cancelled one stays cancelled until it is over.
LEMMA TurnBegins ==
    ASSUME FloorInv, RecordInv, Next
    PROVE  \/ turn_no' = turn_no + 1
           \/ /\ turn_no' = turn_no
              /\ \A t \in Tasks : (Begun(t) /\ Runnable(t))' => Begun(t) /\ Runnable(t)
  <1> DEFINE Keeps == \A t \in Tasks : (Begun(t) /\ Runnable(t))' => Begun(t) /\ Runnable(t)
  <1>0. task \in [Tasks -> TaskRecord] /\ \A t \in Tasks : task[t] \in TaskRecord
    BY DEF FloorInv, TypeOK, ReplyOK
  <1>1. ASSUME UNCHANGED replyVars
        PROVE  Keeps
    BY <1>1 DEF replyVars, Begun, Live, Runnable
  <1>2. ASSUME CancelReply
        PROVE  Keeps
    BY <1>2, CancelMoves DEF Begun, Live, Runnable
  <1>3. CASE Caller
    BY <1>1, <1>3 DEF Caller, Arrive, FallSilent, ClientCloses, voiceVars
  <1>4. CASE Handle
    BY <1>1, <1>2, <1>4
    DEF Handle, HandleFrame, BargeIn, HandleReset, HandleGarbled, HandleClose, voiceVars
  <1>5. CASE Detect
    <2>1. ASSUME NEW c \in BOOLEAN, DetectorAnswers(c), TurnOver(c)
          PROVE  Keeps
      <3>1. task' = [task EXCEPT ![fired + 1] = NewTask]
        BY <2>1 DEF DetectorAnswers
      <3>2. NewTask.pc = "created"
        BY BlankTypes DEF NewTask
      <3> QED
        BY <1>0, <3>1, <3>2 DEF Begun, Live, Runnable
    <2> QED
      BY <1>1, <1>5, <2>1 DEF Detect, DetectorFails, DetectorAnswers, voiceVars
  <1>6. ASSUME NEW t \in Tasks, Respond(t), ~Start(t), ~StartFails(t)
        PROVE  turn_no' = turn_no /\ Keeps
    <2>1. turn_no' = turn_no
      BY <1>6
      DEF Respond, DieUnstarted, Recognised, NothingRecognised, ClauseCloses, StreamEnds,
          Spoken, Drained, NotSpoken, Unsendable, ServiceFails, Finish, Interrupted,
          Silenced, voiceVars
    <2>2. \/ task' = [task EXCEPT ![t] = DoneTask]
          \/ \E pc \in PC : Goto(t, pc)
          \/ task' = [task EXCEPT ![t].pc = "tts", ![t].clauses = @ + 1]
          \/ task' = [task EXCEPT ![t].pc = "tts", ![t].tail = TRUE]
      BY <1>6
      DEF Respond, DieUnstarted, Recognised, NothingRecognised, ClauseCloses, StreamEnds,
          Spoken, Drained, NotSpoken, Unsendable, ServiceFails, Finish, Interrupted,
          Silenced, EndTask, AfterSay, Conclude, PC, Waiting
    <2>3. task[t].pc # "created" \/ ~Runnable(t)
      BY <1>6
      DEF Respond, DieUnstarted, Recognised, NothingRecognised, ClauseCloses, StreamEnds,
          Spoken, Drained, NotSpoken, Unsendable, ServiceFails, Finish, Interrupted,
          Silenced, At, Runnable
    <2>4. DoneTask.pc = "done"
      BY BlankTypes DEF DoneTask
    <2>5. \A u \in Tasks : u # t => task'[u] = task[u]
      BY <1>0, <2>2 DEF Goto
    <2>6. Live(t)' => task'[t].cancel = task[t].cancel
      <3>1. CASE task' = [task EXCEPT ![t] = DoneTask]
        BY <3>1, <1>0, <2>4 DEF Live, Waiting
      <3>2. CASE ~(task' = [task EXCEPT ![t] = DoneTask])
        BY <3>2, <1>0, <2>2 DEF Goto, TaskRecord
      <3> QED
        BY <3>1, <3>2
    <2>7. Live(t)
      BY <1>6
      DEF Respond, DieUnstarted, Recognised, NothingRecognised, ClauseCloses, StreamEnds,
          Spoken, Drained, NotSpoken, Unsendable, ServiceFails, Finish, Interrupted,
          Silenced, At, Live, Waiting
    <2>8. Keeps
      BY <2>3, <2>5, <2>6, <2>7 DEF Begun, Live, Runnable
    <2> QED
      BY <2>1, <2>8
  <1>7. ASSUME NEW t \in Tasks, Start(t) \/ StartFails(t)
        PROVE  turn_no' = turn_no + 1
    BY <1>7 DEF Start, StartFails
  <1>8. CASE Ended
    BY <1>1, <1>8 DEF Ended, vars, voiceVars
  <1> QED
    BY <1>3, <1>4, <1>5, <1>6, <1>7, <1>8 DEF Next

-----------------------------------------------------------------------------
\* The numbers of what is on the line and in the chains.
LEMMA PageNumbers ==
    ASSUME PageTypeOK
    PROVE  /\ \A i \in DOMAIN line : line[i].turn \in Nat
           /\ \A i \in DOMAIN chain : chain[i].turn \in Nat /\ chain[i].no \in Nat
           /\ \A b \in loose : \A i \in DOMAIN b : b[i].turn \in Nat /\ b[i].no \in Nat
           /\ \A i \in DOMAIN started : started[i].turn \in Nat /\ started[i].no \in Nat
  <1>1. \A c \in ClipType : c.turn \in Nat /\ c.no \in Nat
    BY DEF ClipType
  <1>2. ASSUME NEW s \in Seq(ClipType)
        PROVE  \A i \in DOMAIN s : s[i].turn \in Nat /\ s[i].no \in Nat
    BY <1>1
  <1>3. line \in Seq(LineType)
    BY DEF PageTypeOK
  <1>4. \A i \in DOMAIN line : line[i] \in LineType
    BY <1>3
  <1> QED
    BY <1>2, <1>4 DEF PageTypeOK, LineType

\* What is written to the line goes behind what is there.
LEMMA LineGrows ==
    ASSUME FloorInv, CallInv, Next, peer = "open", peer' = peer,
           line' = line \o ForPage(out'),
           UNCHANGED <<chain, hushed>>, RecordInv
    PROVE  /\ line' \in Seq(LineType)
           /\ LineInv'
           /\ \A k \in DOMAIN chain : chain[k].turn <= turn_no'
           /\ \A k \in DOMAIN chain, i \in DOMAIN line' : chain[k].turn <= line'[i].turn
  <1>1. /\ turn_no \in Nat /\ hushed \in Nat
        /\ line \in Seq(LineType)
        /\ \A i \in DOMAIN line : line[i].turn \in Nat
        /\ \A k \in DOMAIN chain : chain[k].turn \in Nat
    BY PageNumbers DEF FloorInv, TypeOK, RecordOK, CallInv, PageTypeOK
  <1>2. /\ LineInv
        /\ \A k \in DOMAIN chain : chain[k].turn <= turn_no
        /\ \A k \in DOMAIN chain, i \in DOMAIN line : chain[k].turn <= line[i].turn
    BY DEF CallInv, ChainInv
  <1>3. Over' => out' = <<>>
    BY <1>2, EndsQuietly DEF LineInv
  <1>4. CASE ForPage(out') = <<>>
    <2>1. line' = line
      BY <1>1, <1>4
    <2>2. turn_no' \in Nat /\ turn_no <= turn_no'
      BY <1>1, TurnBegins
    <2>3. Barged(turn_no)' => \A t \in Tasks : ~(Begun(t) /\ Runnable(t))'
      <3>1. CASE turn_no' = turn_no + 1
        BY <1>1, <1>2, <2>1, <3>1 DEF LineInv, Barged
      <3>2. CASE turn_no' = turn_no
        BY <1>1, <1>2, <2>1, <3>2, TurnBegins DEF LineInv, Barged
      <3> QED
        BY <3>1, <3>2, TurnBegins
    <2>4. LineInv'
      BY <1>1, <1>2, <1>3, <2>1, <2>2, <2>3 DEF LineInv, NoAudioAfterBarge
    <2> QED
      BY <1>1, <1>2, <2>1, <2>2, <2>4
  <1>5. ASSUME NEW k \in {"wav", "barge"}, ForPage(out') = <<Event(k, turn_no)>>,
               turn_no' = turn_no,
               k = "wav" => ~Barged(turn_no),
               k = "barge" => \A t \in Tasks : ~(Begun(t) /\ Runnable(t))'
        PROVE  /\ line' \in Seq(LineType)
               /\ LineInv'
               /\ \A i \in DOMAIN chain : chain[i].turn <= turn_no'
               /\ \A i \in DOMAIN chain, j \in DOMAIN line' : chain[i].turn <= line'[j].turn
    <2> DEFINE e == Event(k, turn_no)
    <2>1. /\ e \in LineType /\ e.t = k /\ e.turn = turn_no
      BY <1>1, <1>5 DEF Event, LineType
    <2>2. ForPage(out') = <<e>>
      BY <1>5
    <2> HIDE DEF e
    <2>3. /\ line' \in Seq(LineType)
          /\ DOMAIN line' = DOMAIN line \cup {Len(line) + 1}
          /\ DOMAIN line = 1 .. Len(line) /\ Len(line) \in Nat
          /\ \A i \in DOMAIN line : line'[i] = line[i]
          /\ line'[Len(line) + 1] = e
      BY <1>1, <2>1, <2>2
    <2>4. k = "wav" => /\ hushed < turn_no
                       /\ \A i \in DOMAIN line : line[i].t = "barge" => line[i].turn < turn_no
      BY <1>1, <1>2, <1>5 DEF LineInv, Barged
    <2>5. \A i \in DOMAIN line' : hushed <= line'[i].turn /\ line'[i].turn <= turn_no
      BY <1>1, <1>2, <2>1, <2>3 DEF LineInv
    <2>6. \A i \in DOMAIN line' : line'[i].t = "wav" => hushed < line'[i].turn
      BY <1>1, <1>2, <2>1, <2>3, <2>4 DEF LineInv
    <2>7. \A i, j \in DOMAIN line' : i < j => line'[i].turn <= line'[j].turn
      BY <1>1, <1>2, <2>1, <2>3 DEF LineInv
    <2>8. NoAudioAfterBarge'
      <3> SUFFICES ASSUME NEW i \in DOMAIN line', NEW j \in DOMAIN line',
                          i < j, line'[i].t = "barge", line'[j].t = "wav"
                   PROVE  line'[j].turn > line'[i].turn
        BY DEF NoAudioAfterBarge
      <3>1. i \in DOMAIN line
        BY <2>3
      <3>2. CASE j \in DOMAIN line
        BY <1>2, <2>3, <3>1, <3>2 DEF LineInv, NoAudioAfterBarge
      <3>3. CASE j = Len(line) + 1
        BY <1>1, <2>1, <2>3, <2>4, <3>1, <3>3
      <3> QED
        BY <2>3, <3>2, <3>3
    <2>9. Barged(turn_no)' => \A t \in Tasks : ~(Begun(t) /\ Runnable(t))'
      <3>1. CASE k = "barge"
        BY <1>5, <3>1
      <3>2. CASE k = "wav"
        BY <1>1, <1>5, <2>1, <2>3, <2>4, <3>2 DEF Barged
      <3> QED
        BY <1>5, <3>1, <3>2
    <2>10. LineInv'
      BY <1>1, <1>2, <1>3, <1>5, <2>5, <2>6, <2>7, <2>8, <2>9 DEF LineInv
    <2> QED
      BY <1>1, <1>2, <1>5, <2>1, <2>3, <2>10
  <1>6. CASE /\ ForPage(out') = <<Event("barge", turn_no)>>
             /\ CancelReply /\ turn_no' = turn_no
    <2>1. \A t \in Tasks : ~(Begun(t) /\ Runnable(t))'
      BY <1>6, CancelMoves DEF Begun, Live, Runnable
    <2> QED
      BY <1>5, <1>6, <2>1
  <1>7. CASE /\ ForPage(out') = <<Event("wav", turn_no)>>
             /\ \E t \in Tasks : Begun(t) /\ Runnable(t)
             /\ turn_no' = turn_no
    <2>1. ~Barged(turn_no)
      BY <1>2, <1>7 DEF LineInv
    <2> QED
      BY <1>5, <1>7, <2>1
  <1> QED
    BY <1>2, <1>4, <1>6, <1>7, Sends DEF LineInv

\* A step of the session adds to the line and moves nothing on the page.
LEMMA SessionCall ==
    ASSUME FloorInv, RecordInv, CallInv, SessionStep
    PROVE  CallInv'
  <1>1. /\ Next /\ peer' = peer
        /\ UNCHANGED <<chain, loose, playing, arrived, hushed, started>>
    BY DEF SessionStep
  <1>2. OrderInv'
    BY <1>1 DEF CallInv, OrderInv, Ordered, Behind, RepliesPlayInOrder
  <1>3. CASE peer = "open"
    <2>1. line' = line \o ForPage(out')
      BY <1>3 DEF SessionStep
    <2>2. /\ line' \in Seq(LineType)
          /\ LineInv'
          /\ \A k \in DOMAIN chain : chain[k].turn <= turn_no'
          /\ \A k \in DOMAIN chain, i \in DOMAIN line' : chain[k].turn <= line'[i].turn
      BY <1>1, <1>3, <2>1, LineGrows
    <2>3. PageTypeOK'
      BY <1>1, <2>2 DEF CallInv, PageTypeOK
    <2>4. ChainInv'
      BY <1>1, <2>2 DEF CallInv, ChainInv, ChainIsFresh
    <2> QED
      BY <1>2, <2>2, <2>3, <2>4 DEF CallInv
  <1>4. CASE peer # "open"
    <2>1. line' = line /\ peer = "closed" /\ line = <<>> /\ chain = <<>>
      BY <1>4 DEF SessionStep, CallInv, LineInv, FloorInv, TypeOK, WireOK
    <2>2. PageTypeOK'
      BY <1>1, <2>1 DEF CallInv, PageTypeOK
    <2>3. ChainInv'
      BY <1>1, <2>1 DEF CallInv, ChainInv, ChainIsFresh
    <2>4. LineInv'
      <3>1. Over' => out' = <<>>
        BY <1>1, EndsQuietly DEF CallInv, LineInv
      <3>2. turn_no \in Nat /\ hushed \in Nat
        BY DEF FloorInv, TypeOK, RecordOK, CallInv, PageTypeOK
      <3>3. hushed <= turn_no' /\ (hushed = turn_no' => turn_no' = turn_no)
        BY <1>1, <3>2, TurnBegins DEF CallInv, LineInv
      <3>4. Barged(turn_no)' => \A t \in Tasks : ~(Begun(t) /\ Runnable(t))'
        <4>1. Barged(turn_no)' => hushed = turn_no'
          BY <1>1, <2>1 DEF Barged
        <4>2. hushed = turn_no => \A t \in Tasks : ~(Begun(t) /\ Runnable(t))
          BY DEF CallInv, LineInv, Barged
        <4> QED
          BY <1>1, <3>2, <3>3, <4>1, <4>2, TurnBegins
      <3> QED
        BY <1>1, <2>1, <3>1, <3>3, <3>4 DEF LineInv, NoAudioAfterBarge
    <2> QED
      BY <1>2, <2>2, <2>3, <2>4 DEF CallInv
  <1> QED
    BY <1>3, <1>4

-----------------------------------------------------------------------------
(* What the page does.                                                     *)

LEMMA TailOf ==
    ASSUME NEW S, NEW s \in Seq(S), s # <<>>
    PROVE  /\ Tail(s) \in Seq(S)
           /\ 1 \in DOMAIN s /\ Head(s) = s[1] /\ s[1] \in S
           /\ \A i \in DOMAIN Tail(s) :
                 i \in Nat /\ i >= 1 /\ i + 1 \in DOMAIN s /\ Tail(s)[i] = s[i + 1]
  OBVIOUS

\* A message taken off the line leaves a line, unless it was a barge that
\* somebody would still have to hear of.
LEMMA LineShrinks ==
    ASSUME FloorInv, CallInv, UNCHANGED vars, line # <<>>, line' = Tail(line),
           peer = "open" => chain' \in Seq(ClipType),
           hushed' = hushed \/ (Head(line).t = "barge" /\ hushed' = Head(line).turn)
    PROVE  LineInv' /\ line' \in Seq(LineType)
  <1>1. /\ turn_no \in Nat /\ hushed \in Nat /\ line \in Seq(LineType)
        /\ \A i \in DOMAIN line : line[i].turn \in Nat
        /\ peer \in {"open", "closed"}
    BY PageNumbers DEF FloorInv, TypeOK, RecordOK, WireOK, CallInv, PageTypeOK
  <1>2. /\ line' \in Seq(LineType) /\ 1 \in DOMAIN line /\ Head(line) = line[1]
        /\ \A i \in DOMAIN line' :
              i \in Nat /\ i >= 1 /\ i + 1 \in DOMAIN line /\ line'[i] = line[i + 1]
    BY <1>1, TailOf
  <1>3. LineInv /\ peer' = peer /\ peer = "open"
    BY <1>1 DEF CallInv, LineInv, vars, wireVars
  <1>4. turn_no' = turn_no /\ (Over' <=> Over) /\ out' = out
        /\ \A t \in Tasks : (Begun(t) /\ Runnable(t))' <=> (Begun(t) /\ Runnable(t))
    BY DEF vars, voiceVars, replyVars, Over, Live, Begun, Runnable
  <1>5. /\ hushed' \in Nat /\ hushed <= hushed' /\ hushed' <= turn_no
        /\ \A i \in DOMAIN line' : hushed' <= line'[i].turn /\ line'[i].turn <= turn_no
    <2>1. hushed <= line[1].turn /\ line[1].turn <= turn_no
      BY <1>2, <1>3 DEF LineInv
    <2>2. \A i \in DOMAIN line' : line[1].turn <= line'[i].turn /\ line'[i].turn <= turn_no
                                 /\ hushed <= line'[i].turn
      BY <1>1, <1>2, <1>3 DEF LineInv
    <2> QED
      BY <1>1, <1>2, <1>3, <2>1, <2>2 DEF LineInv
  <1>6. \A i \in DOMAIN line' : line'[i].t = "wav" => hushed' < line'[i].turn
    BY <1>1, <1>2, <1>3, SMTT(30) DEF LineInv, NoAudioAfterBarge
  <1>7. \A i, j \in DOMAIN line' : i < j => line'[i].turn <= line'[j].turn
    BY <1>1, <1>2, <1>3 DEF LineInv
  <1>8. NoAudioAfterBarge'
    BY <1>1, <1>2, <1>3 DEF LineInv, NoAudioAfterBarge
  <1>9. Barged(turn_no)' => Barged(turn_no)
    BY <1>2, <1>4 DEF Barged
  <1> QED
    BY <1>2, <1>3, <1>4, <1>5, <1>6, <1>7, <1>8, <1>9 DEF LineInv

\* stopSpeaking leaves a chain behind that shares no turn with the others.
LEMMA ChainLeft ==
    ASSUME CallInv, peer = "open", StopSpeaking, UNCHANGED <<arrived, started>>
    PROVE  /\ chain' = <<>> /\ playing' = <<>>
           /\ loose' \subseteq Seq(ClipType) \ {<<>>}
           /\ loose' \subseteq loose \cup {chain}
           /\ \A a, b \in loose' : a # b =>
                 \A i \in DOMAIN a, j \in DOMAIN b : a[i].turn # b[j].turn
           /\ OrderInv'
  <1>1. /\ chain' = <<>> /\ playing' = <<>>
        /\ loose' = loose \/ (loose' = loose \cup {chain} /\ chain # <<>>)
    BY DEF StopSpeaking
  <1>2. /\ chain \in Seq(ClipType) /\ loose \subseteq Seq(ClipType) \ {<<>>}
        /\ hushed \in Nat
        /\ \A i \in DOMAIN chain : chain[i].turn \in Nat /\ hushed < chain[i].turn
        /\ \A b \in loose : \A k \in DOMAIN b : b[k].turn \in Nat /\ b[k].turn <= hushed
    BY PageNumbers DEF CallInv, PageTypeOK, ChainInv, ChainIsFresh
  <1>3. \A b \in loose :
            \A i \in DOMAIN chain, j \in DOMAIN b : chain[i].turn # b[j].turn
    BY <1>2
  <1>4. \A a, b \in loose' : a # b =>
            \A i \in DOMAIN a, j \in DOMAIN b : a[i].turn # b[j].turn
    BY <1>1, <1>3 DEF CallInv, ChainInv
  <1>5. OrderInv'
    BY <1>1 DEF CallInv, OrderInv, Ordered, Behind, RepliesPlayInOrder
  <1> QED
    BY <1>1, <1>2, <1>4, <1>5

LEMMA HangUpCall ==
    ASSUME FloorInv, CallInv, HangUp
    PROVE  CallInv'
  <1>1. /\ peer = "open" /\ peer' = "closed" /\ out' = <<>> /\ line' = <<>>
        /\ UNCHANGED <<replyVars, voiceVars>> /\ StopSpeaking
        /\ UNCHANGED <<arrived, hushed, started>>
    BY DEF HangUp, ClientCloses, Connected
  <1>2. /\ chain' = <<>> /\ playing' = <<>>
        /\ loose' \subseteq Seq(ClipType) \ {<<>>}
        /\ \A a, b \in loose' : a # b =>
              \A i \in DOMAIN a, j \in DOMAIN b : a[i].turn # b[j].turn
        /\ OrderInv'
    BY <1>1, ChainLeft
  <1>3. PageTypeOK'
    BY <1>1, <1>2 DEF CallInv, PageTypeOK
  <1>4. LineInv'
    <2>1. Barged(turn_no)' => Barged(turn_no)
      BY <1>1 DEF Barged, voiceVars
    <2>2. \A t \in Tasks : (Begun(t) /\ Runnable(t))' => Begun(t) /\ Runnable(t)
      BY <1>1 DEF replyVars, Begun, Live, Runnable
    <2> QED
      BY <1>1, <1>2, <2>1, <2>2 DEF CallInv, LineInv, NoAudioAfterBarge, voiceVars
  <1>5. ChainInv'
    BY <1>1, <1>2 DEF ChainInv, ChainIsFresh
  <1> QED
    BY <1>2, <1>3, <1>4, <1>5 DEF CallInv

LEMMA OnMessageCall ==
    ASSUME FloorInv, CallInv, OnMessage, UNCHANGED vars
    PROVE  CallInv'
  <1>1. /\ turn_no \in Nat /\ hushed \in Nat /\ arrived \in Nat
        /\ line \in Seq(LineType) /\ chain \in Seq(ClipType)
        /\ loose \subseteq Seq(ClipType) \ {<<>>}
        /\ \A i \in DOMAIN line : line[i].turn \in Nat
        /\ \A i \in DOMAIN chain : chain[i].turn \in Nat /\ chain[i].no \in Nat
        /\ \A b \in loose : \A i \in DOMAIN b : b[i].turn \in Nat /\ b[i].no \in Nat
        /\ \A i \in DOMAIN started : started[i].turn \in Nat /\ started[i].no \in Nat
        /\ peer \in {"open", "closed"}
    BY PageNumbers DEF FloorInv, TypeOK, RecordOK, WireOK, CallInv, PageTypeOK
  <1>2. /\ line # <<>> /\ line' = Tail(line) /\ started' = started
        /\ 1 \in DOMAIN line /\ Head(line) = line[1]
        /\ \A i \in DOMAIN line' :
              i \in Nat /\ i >= 1 /\ i + 1 \in DOMAIN line /\ line'[i] = line[i + 1]
    BY <1>1, TailOf DEF OnMessage
  <1>3. peer = "open" /\ peer' = peer /\ turn_no' = turn_no
    BY <1>1, <1>2 DEF CallInv, LineInv, vars, wireVars, voiceVars
  <1> DEFINE n == line[1].turn
  <1>4. n \in Nat /\ hushed <= n /\ n <= turn_no
        /\ \A i \in DOMAIN line' : n <= line'[i].turn
    BY <1>1, <1>2 DEF CallInv, LineInv
  <1>5. CASE Head(line).t = "wav" /\ PlayChunk(n) /\ hushed' = hushed
    <2> DEFINE c == ClipOf(n, arrived + 1)
    <2>1. /\ chain' = Append(chain, c) /\ arrived' = arrived + 1
          /\ UNCHANGED <<loose, playing>>
      BY <1>5 DEF PlayChunk
    <2>2. c \in ClipType /\ c.turn = n /\ c.no = arrived + 1
      BY <1>1, <1>4 DEF ClipOf, ClipType
    <2> HIDE DEF c
    <2>3. /\ chain' \in Seq(ClipType)
          /\ DOMAIN chain' = DOMAIN chain \cup {Len(chain) + 1}
          /\ DOMAIN chain = 1 .. Len(chain) /\ Len(chain) \in Nat
          /\ \A i \in DOMAIN chain : chain'[i] = chain[i]
          /\ chain'[Len(chain) + 1] = c
      BY <1>1, <2>1, <2>2
    <2>4. LineInv' /\ line' \in Seq(LineType)
      BY <1>2, <1>5, <2>3, LineShrinks
    <2>5. PageTypeOK'
      BY <1>1, <1>2, <1>5, <2>1, <2>3, <2>4 DEF CallInv, PageTypeOK
    <2>6. hushed < n
      BY <1>2, <1>5 DEF CallInv, LineInv
    <2>7. ChainInv'
      <3>1. ChainIsFresh'
        BY <1>5, <2>2, <2>3, <2>6 DEF CallInv, ChainInv, ChainIsFresh
      <3>2. \A k \in DOMAIN chain' : chain'[k].turn <= turn_no
        BY <1>4, <2>2, <2>3 DEF CallInv, ChainInv
      <3>3. \A k \in DOMAIN chain', i \in DOMAIN line' : chain'[k].turn <= line'[i].turn
        BY <1>2, <1>4, <2>2, <2>3 DEF CallInv, ChainInv
      <3> QED
        BY <1>3, <1>5, <2>1, <3>1, <3>2, <3>3 DEF CallInv, ChainInv
    <2>8. Ordered(chain)'
      BY <1>1, <2>1, <2>2, <2>3 DEF CallInv, OrderInv, Ordered
    <2>9. Behind(chain)'
      <3> SUFFICES ASSUME NEW i \in DOMAIN started, NEW k \in DOMAIN chain',
                          started[i].turn = chain'[k].turn
                   PROVE  started[i].no < chain'[k].no
        BY <1>2 DEF Behind
      <3>1. CASE k \in DOMAIN chain
        BY <2>3, <3>1 DEF CallInv, OrderInv, Behind
      <3>2. CASE k = Len(chain) + 1
        <4>1. started[i].no \in Nat /\ started[i].no <= arrived
          BY <1>1 DEF CallInv, OrderInv
        <4> QED
          BY <1>1, <2>2, <2>3, <3>2, <4>1
      <3> QED
        BY <2>3, <3>1, <3>2
    <2>10. OrderInv'
      <3>1. \A b \in loose : Ordered(b)'
        BY <1>1, <2>1 DEF CallInv, OrderInv, Ordered
      <3>2. \A b \in loose : Behind(b)'
        BY <1>2 DEF CallInv, OrderInv, Behind
      <3>3. (\A i \in DOMAIN started : started[i].no <= arrived)' /\ RepliesPlayInOrder'
        BY <1>1, <1>2, <2>1 DEF CallInv, OrderInv, RepliesPlayInOrder
      <3> QED
        BY <2>1, <2>8, <2>9, <3>1, <3>2, <3>3 DEF OrderInv
    <2> QED
      BY <2>4, <2>5, <2>7, <2>10 DEF CallInv
  <1>6. CASE /\ Head(line).t = "barge" /\ StopSpeaking
             /\ hushed' = n /\ arrived' = arrived
    <2>1. /\ chain' = <<>> /\ playing' = <<>>
          /\ loose' \subseteq Seq(ClipType) \ {<<>>}
          /\ loose' \subseteq loose \cup {chain}
          /\ \A a, b \in loose' : a # b =>
                \A i \in DOMAIN a, j \in DOMAIN b : a[i].turn # b[j].turn
          /\ OrderInv'
      BY <1>2, <1>3, <1>6, ChainLeft
    <2>2. LineInv' /\ line' \in Seq(LineType)
      BY <1>2, <1>6, <2>1, LineShrinks
    <2>3. PageTypeOK'
      BY <1>1, <1>2, <1>4, <1>6, <2>1, <2>2 DEF CallInv, PageTypeOK
    <2>4. \A b \in loose \cup {chain} : \A k \in DOMAIN b : b[k].turn <= n
      <3>1. \A b \in loose : \A k \in DOMAIN b : b[k].turn <= hushed
        BY <1>3 DEF CallInv, ChainInv
      <3>2. \A k \in DOMAIN chain : chain[k].turn <= n
        BY <1>2 DEF CallInv, ChainInv
      <3> QED
        BY <1>1, <1>4, <3>1, <3>2
    <2>5. ChainInv'
      BY <1>3, <1>6, <2>1, <2>4 DEF ChainInv, ChainIsFresh
    <2> QED
      BY <2>1, <2>2, <2>3, <2>5 DEF CallInv
  <1> QED
    BY <1>2, <1>5, <1>6 DEF OnMessage

\* A clip that starts comes after what was started of its turn, and before the
\* clips that wait behind it.
LEMMA ClipStarts ==
    ASSUME CallInv, NEW c \in ClipType, StartClip(c), arrived' = arrived,
           c.no <= arrived,
           \A i \in DOMAIN started : started[i].turn = c.turn => started[i].no < c.no
    PROVE  /\ started' \in Seq(ClipType) /\ playing' \in Seq(ClipType)
           /\ RepliesPlayInOrder'
           /\ \A i \in DOMAIN started' : started'[i].no <= arrived'
           /\ \A q \in Seq(ClipType) :
                 /\ Behind(q)
                 /\ \A k \in DOMAIN q : q[k].turn = c.turn => c.no < q[k].no
                 => Behind(q)'
  <1>1. /\ started \in Seq(ClipType) /\ playing \in Seq(ClipType)
        /\ \A i \in DOMAIN started : started[i].turn \in Nat /\ started[i].no \in Nat
        /\ c.no \in Nat
    BY PageNumbers DEF CallInv, PageTypeOK, ClipType
  <1>2. /\ started' \in Seq(ClipType) /\ playing' \in Seq(ClipType)
        /\ DOMAIN started' = DOMAIN started \cup {Len(started) + 1}
        /\ DOMAIN started = 1 .. Len(started) /\ Len(started) \in Nat
        /\ \A i \in DOMAIN started : started'[i] = started[i]
        /\ started'[Len(started) + 1] = c
    BY <1>1 DEF StartClip
  <1>3. \A i \in DOMAIN started' : started'[i].no <= arrived'
    BY <1>2 DEF CallInv, OrderInv
  <1>4. RepliesPlayInOrder'
    <2> SUFFICES ASSUME NEW i \in DOMAIN started', NEW j \in DOMAIN started',
                        i < j, started'[i].turn = started'[j].turn
                 PROVE  started'[i].no < started'[j].no
      BY DEF RepliesPlayInOrder
    <2>1. i \in DOMAIN started
      BY <1>2
    <2>2. CASE j \in DOMAIN started
      BY <1>2, <2>1, <2>2 DEF CallInv, OrderInv, RepliesPlayInOrder
    <2>3. CASE j = Len(started) + 1
      BY <1>2, <2>1, <2>3
    <2> QED
      BY <1>2, <2>2, <2>3
  <1>5. ASSUME NEW q \in Seq(ClipType), Behind(q),
               \A k \in DOMAIN q : q[k].turn = c.turn => c.no < q[k].no
        PROVE  Behind(q)'
    BY <1>2, <1>5 DEF Behind
  <1> QED
    BY <1>2, <1>3, <1>4, <1>5

\* What is behind the first clip of a chain is a chain.
LEMMA ChainShrinks ==
    ASSUME NEW q \in Seq(ClipType), q # <<>>, Ordered(q), Behind(q)
    PROVE  /\ Tail(q) \in Seq(ClipType) /\ Ordered(Tail(q)) /\ Behind(Tail(q))
           /\ Head(q) \in ClipType /\ Head(q) = q[1] /\ 1 \in DOMAIN q
           /\ Head(q).no <= arrived
           /\ \A k \in DOMAIN Tail(q) : Head(q).no < Tail(q)[k].no
           /\ \A k \in DOMAIN Tail(q) : \E l \in DOMAIN q : Tail(q)[k] = q[l]
           /\ \A i \in DOMAIN started :
                 started[i].turn = Head(q).turn => started[i].no < Head(q).no
  <1>1. /\ Tail(q) \in Seq(ClipType) /\ 1 \in DOMAIN q /\ Head(q) = q[1] /\ q[1] \in ClipType
        /\ \A i \in DOMAIN Tail(q) :
              i \in Nat /\ i >= 1 /\ i + 1 \in DOMAIN q /\ Tail(q)[i] = q[i + 1]
    BY TailOf
  <1> DEFINE t == Tail(q)
             h == Head(q)
  <1> HIDE DEF t, h
  <1>2. Ordered(t)
    BY <1>1 DEF Ordered, t
  <1>3. Behind(t)
    BY <1>1 DEF Behind, t
  <1>4. \A k \in DOMAIN t : h.no < t[k].no
    BY <1>1 DEF Ordered, t, h
  <1>5. h.no <= arrived
        /\ \A i \in DOMAIN started : started[i].turn = h.turn => started[i].no < h.no
    BY <1>1 DEF Ordered, Behind, h
  <1> QED
    BY <1>1, <1>2, <1>3, <1>4, <1>5 DEF t, h

\* What the page does on its own does not change what is on the line.
LEMMA LineStays ==
    ASSUME CallInv, UNCHANGED <<vars, line, hushed>>, chain = <<>> => chain' = <<>>
    PROVE  LineInv'
  BY DEF CallInv, LineInv, NoAudioAfterBarge, Barged, vars, wireVars, voiceVars, replyVars,
         Over, Live, Begun, Runnable

\* The first clip of the chain starts, or cannot be decoded.
LEMMA ChainCall ==
    ASSUME FloorInv, CallInv, Decoded \/ NotDecodable, UNCHANGED vars
    PROVE  CallInv'
  <1>1. /\ chain # <<>> /\ chain' = Tail(chain)
        /\ UNCHANGED <<line, loose, arrived, hushed>>
        /\ StartClip(Head(chain)) \/ UNCHANGED <<playing, started>>
    BY DEF Decoded, NotDecodable
  <1>2. /\ chain \in Seq(ClipType) /\ Ordered(chain) /\ Behind(chain)
        /\ loose \subseteq Seq(ClipType)
        /\ \A b \in loose : Ordered(b) /\ Behind(b)
    BY DEF CallInv, PageTypeOK, OrderInv
  <1> DEFINE c == Head(chain)
  <1>3. /\ Tail(chain) \in Seq(ClipType) /\ Ordered(Tail(chain)) /\ Behind(Tail(chain))
        /\ c \in ClipType /\ c = chain[1] /\ 1 \in DOMAIN chain
        /\ c.no <= arrived
        /\ \A k \in DOMAIN Tail(chain) : c.no < Tail(chain)[k].no
        /\ \A k \in DOMAIN Tail(chain) : \E l \in DOMAIN chain : Tail(chain)[k] = chain[l]
        /\ \A i \in DOMAIN started : started[i].turn = c.turn => started[i].no < c.no
    BY <1>1, <1>2, ChainShrinks
  <1>4. peer = "open" /\ peer' = peer /\ turn_no' = turn_no
    BY <1>1 DEF FloorInv, TypeOK, WireOK, CallInv, LineInv, vars, wireVars, voiceVars
  <1>5. LineInv'
    BY <1>1, LineStays
  <1>6. ChainInv'
    BY <1>1, <1>3, <1>4 DEF CallInv, ChainInv, ChainIsFresh
  <1>7. \A b \in loose : \A k \in DOMAIN b : b[k].turn # c.turn
    BY <1>3, <1>4, PageNumbers DEF CallInv, PageTypeOK, ChainInv, ChainIsFresh
  <1>8. CASE StartClip(c)
    <2>1. /\ started' \in Seq(ClipType) /\ playing' \in Seq(ClipType)
          /\ RepliesPlayInOrder'
          /\ \A i \in DOMAIN started' : started'[i].no <= arrived'
          /\ \A q \in Seq(ClipType) :
                /\ Behind(q)
                /\ \A k \in DOMAIN q : q[k].turn = c.turn => c.no < q[k].no
                => Behind(q)'
      BY <1>1, <1>3, <1>8, ClipStarts
    <2>2. \A b \in loose : Behind(b)'
      BY <1>2, <1>7, <2>1
    <2>3. Behind(chain)'
      <3>1. Behind(Tail(chain)) => \A q : q = Tail(chain) => Behind(q)
        OBVIOUS
      <3>2. \A q \in Seq(ClipType) : q = Tail(chain) => Behind(q)'
        BY <1>3, <2>1, <3>1
      <3> QED
        BY <1>1, <1>3, <3>2 DEF Behind
    <2>4. OrderInv'
      BY <1>1, <1>2, <1>3, <2>1, <2>2, <2>3 DEF OrderInv, Ordered
    <2>5. PageTypeOK'
      BY <1>1, <1>3, <2>1 DEF CallInv, PageTypeOK
    <2> QED
      BY <1>5, <1>6, <2>4, <2>5 DEF CallInv
  <1>9. CASE UNCHANGED <<playing, started>>
    <2>1. OrderInv'
      BY <1>1, <1>2, <1>3, <1>9 DEF CallInv, OrderInv, Ordered, Behind, RepliesPlayInOrder
    <2>2. PageTypeOK'
      BY <1>1, <1>3, <1>9 DEF CallInv, PageTypeOK
    <2> QED
      BY <1>5, <1>6, <2>1, <2>2 DEF CallInv
  <1> QED
    BY <1>1, <1>8, <1>9

\* The first clip of a chain that was left behind starts, or cannot be decoded.
LEMMA LateCall ==
    ASSUME FloorInv, CallInv, NEW old \in loose, DecodedLate(old) \/ NotDecodableLate(old),
           UNCHANGED vars
    PROVE  CallInv'
  <1>1. /\ loose' = (loose \ {old}) \cup (IF Len(old) = 1 THEN {} ELSE {Tail(old)})
        /\ StartClip(Head(old)) \/ UNCHANGED <<playing, started>>
        /\ UNCHANGED <<line, chain, arrived, hushed>>
    BY DEF DecodedLate, NotDecodableLate
  <1>2. /\ chain \in Seq(ClipType) /\ Ordered(chain) /\ Behind(chain)
        /\ loose \subseteq Seq(ClipType) \ {<<>>} /\ old \in Seq(ClipType) /\ old # <<>>
        /\ \A b \in loose : Ordered(b) /\ Behind(b)
    BY DEF CallInv, PageTypeOK, OrderInv
  <1> DEFINE c == Head(old)
             rest == Tail(old)
  <1>3. /\ rest \in Seq(ClipType) /\ Ordered(rest) /\ Behind(rest)
        /\ c \in ClipType /\ c = old[1] /\ 1 \in DOMAIN old
        /\ c.no <= arrived
        /\ \A k \in DOMAIN rest : c.no < rest[k].no
        /\ \A k \in DOMAIN rest : \E l \in DOMAIN old : rest[k] = old[l]
        /\ \A i \in DOMAIN started : started[i].turn = c.turn => started[i].no < c.no
    BY <1>2, ChainShrinks
  <1>4. Len(old) # 1 => rest # <<>>
    <2>1. Len(old) \in Nat /\ Len(old) # 0 /\ Len(rest) = Len(old) - 1
      BY <1>2
    <2> QED
      BY <2>1
  <1>5. /\ StartClip(c) \/ UNCHANGED <<playing, started>>
        /\ loose' \subseteq Seq(ClipType) \ {<<>>}
        /\ \A b \in loose' : b = rest \/ (b \in loose /\ b # old)
    BY <1>1, <1>2, <1>3, <1>4
  <1> HIDE DEF c, rest
  <1>6. /\ started' \in Seq(ClipType) /\ playing' \in Seq(ClipType)
        /\ RepliesPlayInOrder'
        /\ \A i \in DOMAIN started' : started'[i].no <= arrived'
        /\ \A q \in Seq(ClipType) :
              /\ Behind(q)
              /\ \A k \in DOMAIN q : q[k].turn = c.turn => c.no < q[k].no
              => Behind(q)'
    <2>1. CASE StartClip(c)
      BY <1>1, <1>3, <2>1, ClipStarts
    <2>2. CASE UNCHANGED <<playing, started>>
      BY <1>1, <2>2 DEF CallInv, PageTypeOK, OrderInv, RepliesPlayInOrder, Behind
    <2> QED
      BY <1>5, <2>1, <2>2
  <1>7. \A b \in loose : b # old => \A k \in DOMAIN b : b[k].turn # c.turn
    BY <1>3 DEF CallInv, ChainInv
  <1>8. \A k \in DOMAIN chain : chain[k].turn # c.turn
    <2>1. CASE peer = "closed"
      BY <2>1 DEF CallInv, LineInv
    <2>2. CASE peer = "open"
      <3>1. c.turn <= hushed
        BY <1>3, <2>2 DEF CallInv, ChainInv
      <3>2. c.turn \in Nat /\ hushed \in Nat /\ \A k \in DOMAIN chain : chain[k].turn \in Nat
        BY <1>3, PageNumbers DEF CallInv, PageTypeOK, ClipType
      <3> QED
        BY <3>1, <3>2 DEF CallInv, ChainInv, ChainIsFresh
    <2> QED
      BY <2>1, <2>2 DEF FloorInv, TypeOK, WireOK
  <1>9. PageTypeOK'
    BY <1>1, <1>5, <1>6 DEF CallInv, PageTypeOK
  <1>10. LineInv'
    BY <1>1, LineStays
  <1>11. peer' = peer /\ turn_no' = turn_no
    BY DEF vars, wireVars, voiceVars
  <1>12. ChainInv'
    <2>1. peer = "open" => \A b \in loose' : \A k \in DOMAIN b : b[k].turn <= hushed
      BY <1>3, <1>5 DEF CallInv, ChainInv
    <2>2. \A a, b \in loose' : a # b =>
              \A i \in DOMAIN a, j \in DOMAIN b : a[i].turn # b[j].turn
      BY <1>3, <1>5 DEF CallInv, ChainInv
    <2> QED
      BY <1>1, <1>11, <2>1, <2>2 DEF CallInv, ChainInv, ChainIsFresh
  <1>13. \A b \in loose' : Ordered(b) /\ Behind(b)'
    BY <1>2, <1>3, <1>5, <1>6, <1>7
  <1>14. Behind(chain)'
    <2>1. \A q : q = chain => Behind(q)'
      BY <1>2, <1>6, <1>8
    <2> QED
      BY <1>1, <2>1 DEF Behind
  <1>15. OrderInv'
    BY <1>1, <1>2, <1>6, <1>13, <1>14 DEF OrderInv, Ordered
  <1> QED
    BY <1>9, <1>10, <1>12, <1>15 DEF CallInv

LEMMA PageCall ==
    ASSUME FloorInv, CallInv, PageStep, UNCHANGED vars
    PROVE  CallInv'
  <1>1. CASE ClipEnds
    <2>1. UNCHANGED <<line, chain, loose, arrived, hushed, started>>
          /\ playing # <<>> /\ playing' = Tail(playing)
      BY <1>1 DEF ClipEnds
    <2>2. PageTypeOK'
      BY <2>1 DEF CallInv, PageTypeOK
    <2>3. LineInv'
      BY <2>1, LineStays
    <2>4. ChainInv' /\ OrderInv'
      BY <2>1 DEF CallInv, ChainInv, ChainIsFresh, OrderInv, Ordered, Behind,
                  RepliesPlayInOrder, vars, wireVars, voiceVars
    <2> QED
      BY <2>2, <2>3, <2>4 DEF CallInv
  <1> QED
    BY <1>1, OnMessageCall, ChainCall, LateCall DEF PageStep

-----------------------------------------------------------------------------
\* A step of the call is a step of its session, or none.
LEMMA CallStepsSession == [CallNext]_callVars => [Next]_vars
  BY DEF CallNext, SessionStep, HangUp, PageAlone, Next, Caller, callVars

LEMMA NextCall == FloorInv /\ RecordInv /\ CallInv /\ [CallNext]_callVars => CallInv'
  <1> SUFFICES ASSUME FloorInv, RecordInv, CallInv, [CallNext]_callVars PROVE CallInv'
    OBVIOUS
  <1>1. CASE UNCHANGED callVars
    <2>1. UNCHANGED vars /\ UNCHANGED pageVars
      BY <1>1 DEF callVars
    <2>2. PageTypeOK' /\ ChainInv' /\ OrderInv'
      BY <2>1 DEF CallInv, PageTypeOK, ChainInv, ChainIsFresh, OrderInv, Ordered, Behind,
                  RepliesPlayInOrder, vars, wireVars, voiceVars, pageVars
    <2>3. LineInv'
      BY <2>1, LineStays DEF pageVars
    <2> QED
      BY <2>2, <2>3 DEF CallInv
  <1> QED
    BY <1>1, SessionCall, HangUpCall, PageCall DEF CallNext, PageAlone

\* The session inside a call is a session, so whatever is proved of one holds
\* of every call: its page and its network only choose when the client leaves.
THEOREM CallIsSession == CallSpec => Spec
  <1>1. CallInit => Init
    BY DEF CallInit
  <1> QED
    BY <1>1, CallStepsSession, PTL DEF CallSpec, Spec

\* Line, chains and order of arrival are kept as CallInv says in every call.
THEOREM CallInvariant == CallSpec => []CallInv
  BY InitCall, NextCall, CallIsSession, FloorInvariant, RecordInvariant, PTL DEF CallSpec

\* A barge overtakes the audio it ends: on the line no clip of the interrupted
\* turn comes behind it, whatever the reply was doing when it was cancelled.
THEOREM BargeEndsAudio == CallSpec => []NoAudioAfterBarge
  <1>1. CallInv => NoAudioAfterBarge
    BY DEF CallInv, LineInv
  <1> QED
    BY <1>1, CallInvariant, PTL

\* What waits in the page's chain belongs to a turn after the last barge.
THEOREM ChainFresh == CallSpec => []ChainIsFresh
  <1>1. CallInv => ChainIsFresh
    BY DEF CallInv, ChainInv
  <1> QED
    BY <1>1, CallInvariant, PTL

\* The clips of a reply start in the order they arrived in, although old chains
\* go on decoding beside the new one.
THEOREM RepliesInOrder == CallSpec => []RepliesPlayInOrder
  <1>1. CallInv => RepliesPlayInOrder
    BY DEF CallInv, OrderInv
  <1> QED
    BY <1>1, CallInvariant, PTL
=============================================================================
