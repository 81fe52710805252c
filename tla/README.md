# VoAIs in TLA+

VoAIs is a Hindi voice agent: a browser streams the microphone to a server that
decides when the caller's turn is over, recognises it, streams an answer out of
an LLM, has it spoken clause by clause and sends the audio back; the caller may
interrupt at any time. A second front end, the call centre, works turn by turn
over HTTP and records its calls. This directory holds TLA+ modules of that system, the TLC
configurations that check them, and proofs that TLAPS checks. Paths are those
of the repository (`src/` is its root).

## 1. The system

| component | state it keeps | operations | talks to |
|---|---|---|---|
| Streaming session, `servers/stream_server.py` (`Session`, `ws_handler`) | rolling audio buffer, three counters of milliseconds, `speaking`, `reply` (a task), `history`, `turn_no`, `_spoke`, `_clip`, a directory of recordings | a frame, `reset`, close; the reply task: recognise, stream, speak, finish, be cancelled | page (WebSocket), LLM and TTS server (HTTP), detector and recogniser (executor threads) |
| Clause cutting, the loop of `Session.respond` | `said`, `pend` | a token, the end of the stream | `Session.say` |
| LLM client, `llm_stream` | SSE line buffer | a chunk, a line, `[DONE]` | vLLM |
| Console page, `voice-stream.html` | socket, `playChain`, sources playing, `playHead` | connect, listen, stop, messages, decoding, the end of a clip | session |
| Recordings browser, same server | the files on disk | list, zip, fetch | browser |
| Turn detector, `servers/turn_model.py` | weights | a probability | session |
| OmniVoice TTS, `servers/omni_server.py` | `_state`, `_lock` | boot, synthesize, health | session, call-centre server |
| Call-centre server, `services/call.py` | `_calls`: history and segments of each call | start, turn (an SSE stream), recording, transcript | page, vLLM, TTS |
| Call-centre page, `services/static/call.html` | `live`, `busy`, `speaking`, `rec`, `ctx`, `stream`, `CALL` | start and end a call, voice loop, recorder, `sendTurn`, playback | call-centre server |
| Turn harness, `services/app.py` | none between requests | one turn | vLLM, TTS |
| Parler, F5 and STT services, `services/tts_*.py`, `services/stt_server.py` | lazily loaded models, a lock | load, synthesize, health | the servers above |
| Live page, `voice-live.html` | its own voice detector, clause queue, abort controller | as the console page | LLM and TTS directly |
| Agent experiment, `agent_experiment/` | a pipecat pipeline, a phrase cache, a table of connections | frames | pipecat |

How they interact: the session runs in one asyncio event loop. A handler
coroutine reads the WebSocket; each turn it takes becomes a task; both work on
the fields of one `Session`. They switch only where one of them really waits: on
the next message, on the executor, on the LLM, on the TTS server, on a socket
whose buffer is full. Cancelling a task marks it, and `CancelledError` is thrown
where it waits. The page runs in its own event loop at the other end of the
WebSocket and plays what it got long after the server has finished sending it.

What is hard about it:

- two coroutines on one set of fields, one of which may be cancelled at every
  wait, including before it has run at all;
- barge-in: what was sent, received, queued, decoded or is playing when the
  caller speaks;
- thresholds over counters that are fed by frames of the client's choosing,
  with a detector that may never fire;
- three services of which any may fail, at any clause;
- turns that outlive the call they belong to (call-centre page);
- models that are published piece by piece while requests arrive, and requests
  whose client has gone that still wait for the lock;
- text that is cut three times: by the network into chunks, by the LLM into
  tokens, by the servers into what is spoken;
- a page whose turn, clip queue, microphone and timer are four chains of
  callbacks over one set of globals (live page).

What makes each component correct:

- *session*: at most one reply; whoever has the floor gives it back; `speaking`
  is up exactly while there is something to interrupt; the detector is asked at
  a pause; a caller who stops is answered; the history is a conversation; a
  reset is final; recordings are neither mixed up nor overwritten;
- *clauses*: what is spoken is the answer, every clause ends where a sentence
  ends, and it is spoken as early as the documentation says;
- *console page*: clips of a reply play in order and none of an interrupted one
  is heard;
- *LLM client*: the text is what the model sent, whatever the chunks;
- *call-centre*: a turn is recorded and answered in the call it was spoken in,
  one turn at a time, the recorder runs whenever the caller is listened to, and
  nothing is heard that is not recorded;
- *model servers*: no request reaches a model before what its server checks of
  it; one synthesis at a time; every request is answered;
- *live page*: one answer at a time, a history that stays paired, no clip left
  in the queue, never busy for good.

`PROJECT.json` lists every component, the hazards with the line each bites at,
and which property covers which.

## 2. Modules and code

| module | models | how |
|---|---|---|
| `StreamSession` | `ws_handler`, `Session` | the session with its caller and its reply tasks |
| `TurnTaking` | - | abstract: who has the floor and what is on the record |
| `StreamTurns` | - | the mapping under which `StreamSession` implements `TurnTaking` |
| `StreamSessionProofs` | - | theorems about `StreamSession`: the floor, the pause, history, recordings, and that it implements `TurnTaking` |
| `VoicePage` | `playChunk`, `stopSpeaking`, `ws.onmessage`, `onended` | the playback of the page |
| `VoiceCall` | `voice-stream.html` with the session | `StreamSession` and `VoicePage` joined by the wire |
| `VoiceCallProofs` | - | theorems about `VoiceCall`: barge-in, chains, the order of clips |
| `ClauseStream` | the loop of `respond` over tokens | cutting a text into clauses |
| `CallNames` | - | the calls and turns of the call centre, and their bounds |
| `CallServer` | `services/call.py` | history and segments of each call, the generator of each turn |
| `CallPage` | `services/static/call.html` | set-up and end of calls, detector, recorder, `sendTurn`, playback |
| `CallSystem` | page and server | the two joined by requests and event streams |
| `CallSystemProofs` | - | theorems about `CallSystem`: turns, recorder, echo, history, recordings, what is heard |
| `SentenceSplit` | `_sentences` of `services/call.py` | cutting a whole answer into pieces; `EXTENDS ClauseStream`, whose answers it cuts |
| `TextProofs` | - | theorems about `ClauseStream`, and the lemmas on texts and on recursion they rest on |
| `SentenceSplitProofs` | - | theorems about `SentenceSplit` |
| `LlmStream` | `llm_stream` | bytes, chunks and lines of an answer; `EXTENDS ClauseStream`, which it feeds |
| `LlmStreamProofs` | - | theorems about `LlmStream`: what chunks do to an answer, from the LLM to the voice |
| `ModelServices` | `omni_server.py`, `tts_fast.py`, `tts_f5.py`, `tts_parler.py`, `tts_server.py`, `stt_server.py` | load, publication, lock and threads of the six servers that hold a model |
| `SpeechService` | - | abstract: what such a server promises its clients |
| `ModelServicesProofs` | - | theorems about `ModelServices`, the refinement among them |
| `LivePage` | `voice-live.html` | the turns, the clip queue, the microphone and the timer of that page |
| `LivePageProofs` | - | theorems about `LivePage` |
| `MC...` | - | the values the runs use |

### StreamSession

Every action is what the code runs between two waits.

- `Arrive`, `FallSilent`, `ClientCloses`: the page and its user. A frame is
  voiced or silent (`rms > RMS_GATE` is decided by the sound, not by the code).
- `HandleFrame`: `feed` up to its `await run_in_executor`; `BargeIn` is the test
  at the top, `Ask` the four ways on. `DetectorAnswers` is the rest of `feed`,
  with any verdict; `DetectorFails` is an exception of `turn_p`, which ends the
  handler without the `cancel_reply` that follows its loop.
- `HandleReset`, `HandleGarbled`, `HandleClose`: the TEXT branch, a message that
  `json.loads` or `np.frombuffer` rejects, the end of the loop.
- `Start` ... `Silenced`: `respond` and `say`, one action per wait. A task waits
  in a state named for what it waits for. `StartFails`, `NotSpoken`,
  `Unsendable` and `ServiceFails` are its failures; `Interrupted` is the
  delivery of a cancellation, `DieUnstarted` its delivery to a task that has not
  run, which Python never lets enter the `try`, so its `finally` does not run.

Choices a reader should know:

- The buffer is its length in frames and the number of silent frames at its end;
  audio is not modelled. The counters saturate just above the threshold they are
  compared with, which no test in the code can tell from the exact value.
- A new task is run by the loop before the socket is read again, so nothing
  *arrives* while one is in state `created`; what is already in the inbox is
  handled first (`Parked`), because `async for` over a queue that is not empty
  does not yield.
- `out` is a port: the messages of the latest step, those the page acts on or a
  property mentions. `delta`, `ttft` and the like only display.
- An answer has at most `MaxClauses` clauses and a tail. A stream that the LLM
  server refuses has no tokens, and is the branch of `StreamEnds` without a
  tail.
- `RECORD` is on, its default. The transcript file is not modelled yet.
- Sends of small JSON messages do not wait (aiohttp drains only above its
  limit); sends of a clip and the last ones of a reply may.
- `reset` is part of the server's protocol; the page in the repository does not
  send it. The runs that contain it say so.

### VoicePage, VoiceCall

`chain` is the promise chain: its first clip is being decoded, the others wait
for it. `stopSpeaking` stops the sources, and assigns a new chain; the old ones
remain in `loose` and still decode. `VoiceCall` appends what a step of the
session sent to `line`, the messages on their way, and adds `HangUp`: the page
closes the socket and stops its playback in one go. `ForPage` is what the page
acts on in those messages, a clip or a `barge`; a step sends at most one, its
last.

### ClauseStream

A text is a sequence of letters, closing marks, commas, spaces and other white
space, as line breaks (`Break`): `strip` and `\s` know both (`White`), but
`_sentences` cuts a piece that is too long at `" "` only. `Cut` is the
regular expression `^([\s\S]*?[।.!?])\s` with its minimum length. The minimum is
2 in the runs instead of 8, and texts are as much shorter.

### SentenceSplit, LlmStream

Both extend `ClauseStream`. `SentenceSplit` adds nothing to the state: when an
answer is over, `Sentences` is what `_sentences` makes of it: the loop over its
characters (`Scan`) with the variables `[parts, buf, limit]`, and what is left. `limit * 0.4` is
`5 * Len >= 2 * limit`. 45, 140 and 12 are 4, 5 and 2 in the run.

`LlmStream` puts a wire between the LLM and `ClauseStream`. A character of a
script like Devanagari takes more than one byte; two stand for all of them.
`Receive(n)` is one chunk of `iter_any`, decoded by itself (`Decode`), and the
split of `buf` into lines (`SplitLines`); `TakeLine` is the body of the inner loop; `Closed` is
the end of the bytes, with or without a rest in `buf`. A character is named by
its position in the answer, so that a loss, a repetition or an exchange is seen.
`torn` is a history variable: the characters a chunk ended in.

### ModelServices, SpeechService

One module for the six servers, since they are one program with different
answers to three questions: what start-up does, step by step (`OmniBoot`,
`FastBoot`, `F5Boot`, `ParlerBoot`, or nothing), what a request passes
through (`OmniSynthesize` and its like: sequences of steps, each an action), and
which names have to be filled (`Parts`). `server` is chosen at the beginning.

- FastAPI runs a `def` endpoint on a thread of a pool; a thread can be overtaken
  wherever it waits or is long at work: `Lock`, the lazy load (one action for
  each global it assigns), the generation (`Run`). `stt_server` has an `async
  def` that never waits after the upload: the event loop is its lock.
- `Answer` is any way out of the endpoint; leaving the `with` frees the lock.
- `weights` is what the model holds of the checkpoint: less than 200 of its
  tensors ("poor"), 200 at least but not all ("many"), all, while the model may
  have tensors of its own that stay random ("agreeing"), or all there are
  ("whole"). `tts_fast` lets everything pass but "poor" (`FastAccepts`);
  `tts_f5`, which raises for an unexpected key and for one bad tensor, lets only
  the last two pass (`F5Accepts`), since it does not look at the missing keys.
  The other servers compare nothing and leave it "unknown".
- `Leave` is a client that goes away, as the streaming session does when it is
  interrupted: nothing tells the thread.
- `BootStep` is one step of the start-up handler, `Opens` its end: it may raise
  at any step, which is printed, and uvicorn then accepts requests with what is
  there. Warm-up comes after the publication in the F5 servers and before it in
  OmniVoice.
- What happens to the samples after the generation is part of `Run`.

`SpeechService` is what the clients (`Session.say`, `call_turn`, `app.py`) rely
on. In the mapping (`Contract`) a request is "computing" from the lock to its
answer, and the service is ready when every name is filled.

### LivePage

Each action is what the page runs between two awaits. `startListen` waits for
the microphone (`opening` counts the calls that do), `stopListen` for the
recogniser (`stt`), `handleInput` for tokens ("streaming") and for the first
audio ("polling"), `drainTTS` for the clip it fetches or plays (`drains`), and
the hands-free `setTimeout` is in `timers`. Several calls of each may be under
way, since nothing forbids them. A tap is what `mic.onclick` does in the state
the button shows. The abort of a stream throws at its await in the same turn of
the event loop, so `TapThinking` concludes the answer at once.

Out of it: the demo backend, unspoken answers and answers spoken in one piece
(`cfg.demo`, `cfg.chunk`), which the page does not start with; a `history` of
more than ten lines is cut for the request only.

### CallServer, CallPage, CallSystem

`CallServer` has one record per turn: where its generator `events()` waits, its
call, and how many sentences it has spoken. `stream` holds the events the page
acts on and has not read. `Post` is `call_turn`; a turn that `call_turn` refuses
(unknown call, empty audio) is a `Post` with `TurnFails` right after it, since
the page reads a body without events in both cases. `Answered` does not ask for
a status, as the code does not.

`CallPage` has the page's globals and one record per coroutine `sendTurn`, which
waits for its response, for the stream, or for its queue to be played.
Everything else in it is read again from the globals after each wait, so a turn
may go on after its call has ended; `Resume` and `ClipStarts` are where that
bites. `rec` is the recorder the global of that name holds; `armRecorder` puts a
new one over it and does not stop the old one, which then counts in `orphans`.
`ctx` is named by the call that created it, and `heardIn` is a history variable.

`CallSystem` joins them: a request arrives (`Request`) or not (`Unreachable`),
its response arrives or is lost on the way (`ResponseLost`), the page reads
events in order (`Read`), the stream may break (`StreamBreaks`), and the server
may notice that nobody reads and cancel the generator (`Noticed`), or may not.
`Faults` says which of these the network of a run does.

Choices a reader should know:

- The user does not press the button again while `startCall` waits; a second
  press would start a second `startCall` on the same globals.
- A recorder that `endCall` stopped has delivered its last event before the
  microphone of the next call is granted. Otherwise that event would find `live`
  true again and send the end of the old call as the first turn of the new one.
- The server is not restarted during a run, the token stays valid, the
  microphone is not unplugged, and JSON of the stream is well formed.
- The length of an utterance decides whether it becomes a turn; it is a choice
  in `LoopPauses`, the size of its recording one in `RecorderStops`.
- `AtRest` is the user who leaves after the last call of the bound, so a
  deadlock elsewhere would be reported.

## 3. Runs

| run | question | result |
|---|---|---|
| `session_safety` | two turns in every order of frames, resets, garbled messages, failures, barge-in, hang-up | one reply, floor, history, reset, pause, recordings, and every behaviour one of `TurnTaking` |
| `session_liveness` | at 85 ms frames: does a caller who stops get an answer, and the floor back? | yes, under fairness, without `reset` |
| `call_safety` | session, wire and page | no audio after its barge on the wire or in the chain; order kept |
| `call_late_clip` | is an interrupted reply silent after its barge? | **no**: a clip being decoded still starts |
| `call_after_done` | does voice interrupt whatever is playing? | **no**: not once everything was sent |
| `clauses` | every text of nine characters, in every tokenisation, cut while it streams and cut afterwards | speech is the answer, each clause ends where a sentence ends; in pieces none of which is empty, dropped or too short, the first within its limit but for what comes before the next space |
| `llm` | every answer of five characters, in every tokenisation and every cut into chunks, with foreign lines, [DONE] or a close | only characters torn between two chunks are lost, and the voice is handed all the others |
| `centre` | two turns of two calls, two clips in an answer, ended and started at any moment, streams that break, responses that are lost, a window of two lines | one turn at a time, no echo, a recorder for every word; history and recording of a call are its conversation, but for turns that failed; whatever is to be heard is in the recording; a recorder goes astray only when a turn of an earlier call comes back; in the first call a caller is listened to again |
| `centre_deaf` | the same, with a second call | **no**: the second call may be deaf |
| `centre_other` | is what a caller hears in the recording of that call? | **no**: an old turn plays into a new call |
| `services` | each of six servers, three threads, four requests, startups and loads that break off anywhere, clients that go away | one generation at a time, no request at a model that skipped a check of its server, every request answered, and every server an implementation of `SpeechService` |
| `live` | two utterances of two clauses, three gestures, microphone and services that fail | one answer at a time, history paired, no clip forgotten, never busy for good |

Properties, and what would break them, are in the comments above each definition;
each property of a passing run has a mutant in `PROJECT.json`, a plausible bug
under which TLC finds it violated.

Bounds. `MaxTurns = 2` is what it takes for a second reply to meet the leftovers
of the first; `MaxInbox = 2` for a message to be handled before the task that
the one before it created; `MaxClauses = 1` with the tail gives two clips in a
reply, enough for order and for a failure between them. In the 256 ms runs one
voiced frame opens the gate, one silent frame is a pause, and `HARD_STOP_MS` is
scaled from 2500 to 500 or 250 so that two or one frames reach it; the 85 ms run
keeps the code's other three values (three frames to open, three to ask, every
second one after that) and scales the backstop to 1000, twelve frames. Its
answers have a tail only. `BufFrames` is the 20 s of the rolling
buffer scaled in the same way, and still longer than a pause. 256 and 85 ms are
4096 samples at 16 and 48 kHz, what the page's script processor sends.

In the call centre `MaxCalls = 2` lets a turn and a recorder outlive their call
and meet the next one; with `MAX_TURNS = 2` lines (40 in the code) the second of
`MaxPosts = 2` turns makes the history of a call longer than that, so that it is
cut; `MaxChunks = 2` gives a queue with a clip behind the one that plays.

`clauses`: nine characters are three times the least a clause may have (three, over
`MinClause = 2`) and nearly two of `MaxPiece = 5`, room for a first piece, a second and a tail, for a word that
runs over either limit and for two closings in one token. `llm`: five characters
in two tokens or more, and a wire of seven items, longer than an event, so that
a chunk ends inside any character, line or prefix and may hold two events.
`services`: with three threads one holds the lock, one waits, and one may load
or be refused; the fourth request meets what the first left behind. Parler's
load is three assignments, so that two loads overlap everywhere. `live`: the
second utterance meets the queue, the timer and the poll of the first, and three
gestures are a stop, a start and an abort.

What the call centre's properties leave out, because it does not hold:
`CallHistoryPaired` and `SpokenOrder` speak of the turns whose request the page
did not give up (`Kept`). A turn whose response was lost goes on at the server
while the page sends the next, and `call_turn` appends both to one history and
one recording; over `history` and `segments` themselves TLC finds either
property violated at once. `HistoryBounded` allows a line for each such turn.
`FirstCallListens` speaks of the first call, and makes an exception of streams
that break (`rd.read()` is not in a `try`, so a turn whose stream broke never
calls `resume`); `ListenedAgain`, without the first restriction, is violated in
`centre_deaf`.

`OnlyTornIsLost` says what is lost rather than that nothing is: `decode("utf-8",
"ignore")` on single chunks does lose characters. `WholeIsSpoken` follows what is left to
the voice: white space aside, the clauses are all of it. `OneAtATime` leaves out
`tts_server`, which has no lock, and `ServedWell` says of each server what its own
checks come to, for `tts_fast` 200 tensors, which are not all. `FirstPieceIsShort`
counts to the next space: the lines of a list are separated by line breaks, at
none of which `_sentences` cuts, so a first piece of such an answer may be as long
as the answer. `PiecesCanBeSpoken` is about answers with single spaces: of two
in a row the second may fall behind a cut and make a piece of nothing.

Fairness. `Handle` and `Respond(t)`: the event loop runs what is ready.
`Detect` and again `Respond`: an executor thread returns or raises, and an HTTP
request ends, since the client session has a total timeout of 120 s
(`make_app`). `Arrive("silent")`: the page sends the microphone without a break
for as long as it listens, whoever speaks. Nothing is assumed of the detector's
verdict, of the caller, or of a client that disconnects.

In `CallSystem` (`SystemFairness`): the browser runs its handlers (`Setup`,
`RecorderStops`), a request arrives or is refused, a response that was sent is
received, the page reads what is there, a clip ends or the timer behind it does
(`play`, its `setTimeout`), and each wait of the generator ends, since its three
HTTP clients have timeouts of 90 and 120 s. `WF` of `Setup` lets it fail as
well. Nothing is assumed of the user, of the detector, or of `Noticed`.

In `ModelServices`: the start-up handler returns or raises, and each thread runs what it can
(`WF_vars(Serve(t))`). A lock that is free is taken by some waiter; weak fairness
does not say by which, and `threading.Lock` promises no order either. `Answered`
holds all the same because a behaviour has `MaxRequests` requests, so that a
waiter cannot be overtaken for ever. Nothing is assumed of `Leave`, and `Request`
need not come. In `LivePage`: requests are answered or refused, a clip ends, a
timer fires, the poll is bounded in the code (200 looks), and an answer goes on
or ends; `TurnsEnd` assumes nothing of the person.

`CHECK_DEADLOCK FALSE` is in `clauses` and `llm`, where an answer ends, and in
`live`, where the person may have made all gestures of the bound. A session that
has ended stutters by `Ended`, a pool that has answered everything by `Done`, so
a deadlock elsewhere would be reported.

## 4. Findings

1. `call_late_clip`: `stopSpeaking` leaves the old chain running.
2. `call_after_done`: `speaking` follows the sending, the caller hears the
   playing. After the last clip was sent, voice does not interrupt.
3. `centre_deaf`: `endCall` between `rec.stop()` and `onstop` leaves `busy` set,
   and `startCall` does not reset it.
4. `centre_other`: a turn outlives its call and plays on the context of the next
   one; the recording of that call does not have it.

Disagreements without a run of their own, each found on these models or while
writing them:

- a `reset` that is already buffered when a turn is taken cancels the new task
  before its first step; its `finally` never runs, `self.reply` keeps the dead
  task and the session takes no turn again (`UtteranceAnswered` with resets
  admitted). The page in the repository sends none.
- README.md:45-46 says that a clause goes out as soon as it closes; the lazy
  match always stops at the first closing, so a first sentence of at most eight
  characters holds back all later ones until the stream ends (in `ClauseStream`
  an answer may have a clause of more than `MinClause` characters closed and
  nothing spoken);
- `tts_fast.py` means to verify the weights, because `strict=False` hides what
  did not load (lines 66-68), and raises only below 200 matching tensors,
  whatever is missing or unexpected besides; `tts_f5.py` is stricter. In
  `ModelServices` a request does reach a model with weights "many";
- the docstring of `stream_server.py` promises a backstop at 600 ms (lines
  13-14), `HARD_STOP_MS` is 2500;
- a stream that breaks off leaves the call-centre page busy for good
  (`call.html`, line 191);
- `/health` of the speech servers answers 200 with `"loading"`, for ever when
  the boot failed, and `call.py:106` and `app.py:79` look at the code only;
- on the live page a clip that ends or fails before the next clause closes
  starts the hands-free timer in the middle of an answer; an utterance spoken
  then is dropped (`if (busy) return`, line 655) after `stopListen` has set the
  button to "thinking" (line 527), where it stays until it is tapped.

## 5. Proofs

*The session.* `StreamSessionProofs` proves, for every frame length, thresholds, buffer length,
inbox, number of turns and clauses that satisfy `TimingAssumption` and
`BoundsAssumption`:

- `FloorInvariant`: `Spec => []FloorInv`, the inductive invariant;
- `TypeCorrect`, `OneReply`, `BargeInFindsReply`: its parts;
- `AudioInterruptible`: the action property that no clip leaves while `speaking`
  is down;
- `AsksAtPauses`: `PauseBeforeAsking`. `PauseInv` says that the silence counted is
  silence in the buffer, or that the buffer already ends in a full pause: here
  `PAUSE_MIN_MS <= BufFrames * FrameMs` of `TimingAssumption` is needed.

`OneReplyAtATime` is not inductive: a turn is taken after the detector's answer,
and the test of `reply` was made before it was asked. What carries it over the
wait is the fourth conjunct of `FloorInv`: while the detector decides there is
no reply, and none can appear because only the waiting handler creates one.
`SpeakingHasReply` needs `OneReplyAtATime` (a task that ends lowers the flag of
the only reply there is), and the last conjunct, that an uncancelled answering
reply has the flag up, is what `AudioIsInterruptible` needs. The steps are
grouped as the module's actions are: the caller's (`CallerFloor`), a frame
(`FrameVad`, `FrameFloor`), the detector (`DetectFloor`), the rest of the handler
(`HandleFloor`), and the reply (`RespondWire`, `RespondRecord`, `RespondFloor`,
with `EndFloor` for the steps that end it and `StepFloor` for those that go on).

The second half of the module adds what the session leaves behind: `RecordInvariant`, and
from it `SessionHistoryPaired`, `ResetIsFinal` and `RecordingsKept`. `FloorInv`
says that at most one reply is alive; `RecordInv` says where in the conversation
it is. A reply that has begun carries the session's latest turn number; one that
is being recognised comes behind every line and has no clip yet; one that talks
has its question as the last line, and every clip of its turn is numbered up to
the session's counter. A reset makes the last two empty, because it marks the
one reply there can be (`CancelMoves`). `NothingWritten` and `MovesAside` cover the
steps that write nothing; `StartRecord`, `RecognisedRecord`, `ConcludeRecord`,
`ClipRecord` and `ResetRecord` are the ones that write.

It ends with `ImplementsTurnTaking`: `Spec => TakesTurns`. The floor
before and after a step is read off the reply task (`FloorOf`, `FloorAfter`,
`CancelYields`), `RecordInv` gives that a heard line is new and that an answer
is to the last line, and `CountInv`, that `turn_no` never passes the number of
replies created, that the number of the line is one the abstract module allows.

*Session, wire and page.* `VoiceCallProofs` begins with `CallIsSession`: a
behaviour of `VoiceCall` is one of `StreamSession`, so that every theorem about
the session holds of a call. On it rest `CallInvariant`, the inductive invariant
`CallInv`, and its consequences `BargeEndsAudio`, `ChainFresh` and
`RepliesInOrder`, of which none is inductive. That no clip of an interrupted
turn is on the wire behind its `barge` needs that no reply of that turn can
still run, and that messages come in the order of their turns (`LineInv`); that
the chain is fresh needs that chains left behind belong to turns up to the one
last hushed, and the chain to later ones (`ChainInv`); that clips play in order
needs that every chain is in the order of arrival (`Ordered`), behind what was
started of the same turn (`Behind`), and that no two chains share a turn.

*The call centre.* `CallSystemProofs` proves, for any number of calls, turns and
sentences, any `MAX_TURNS` and any faults of the network (`NamesAssumption`,
`ServerAssumption`; `FaultsAssumption` is not needed):

- `SystemInvariant`: `SystemSpec => []SystemInv`, the inductive invariant;
- `OneTurn`, `NoSelfHearing`, `ListeningRecords`: `OneTurnAtATime`, `NoEcho` and
  `ListeningIsRecording` (the run checks the last one as part of `SystemInv`).

`OneTurnAtATime` is not inductive, for two reasons. A turn whose stream broke is
not under way, yet it must not let go of the detector either, so `PageInv`
speaks of `Held`, turns under way or broken, of which there is at most one. And
a turn may come back into a later call, where `Resume` clears `busy`: it must be
the turn that set it, which follows because no other is held and no recorder is
about to become one. `NoEcho` needs a fact about the other side: the page
listens again at once when it reads `skip`, without looking at its queue, and
that is right only because the server sends `skip` before any sentence of a
turn or not at all. `StreamInv` carries this through server, stream and queue.
`PageKeeps` and `StreamInvOf` are the two halves of the step, `PageTypes` and
`ServerTypes` the types, with lemmas for the parts of each.

The second half of the module adds what is kept of a call: `RecordInvariant`, for
`SystemInv` with `RecordInv`, and from it `HeardAfterRecorded`, `StrayFromOldTurn`,
`HistoryPaired`, `RecordingInOrder` and `HistoryStaysBounded`. History and
segments are written by generators, several of which may be at work in one call,
so the properties speak of `Kept` lines, those of turns that did not fail. The
fact the rest hangs on is `WorkIsLatest`: a turn that is at work and has not
failed at the page is the one that holds the page, the latest. So it writes
behind everything that is kept. `HistoryInv` says besides that the question of a
turn that waits for the LLM is still there, if anything kept is: the window is
cut at the front (`TrimmedSuffix`), and an end of a paired history is paired
(`PairedSuffix`), whether the cut falls between two turns or within one. A turn
that fails takes all its lines out of what is kept at once (`KeptShrinks`), which
leaves the others paired. `SegmentInv` does the same for the recording, which is
never cut. For `HistoryBounded`, `LengthInv` counts the answers still to come
(`Asking`): a question is cut to the window when it is asked, its answer is not,
and all the turns that ask but one have failed (`AskingTurns`). `AudibleIsOnRecord`
compares two counts: an event goes onto the wire in the step that files its
segment (`AudibleAdded`), and reading it only moves it from the wire to the queue
(`AudibleRead`); it needs `TurnInv`, by which page and server agree on the call of
a turn, since the one counts by `flight` and the other by `turn`.
`StrayOnlyFromOldTurn` is about a step (`StrayStep`): with `RecorderInv`, by which
whoever holds the page while a recorder runs belongs to a call that is over, the
only step that arms a recorder over another is the end of such a turn. `Onward` is, in these terms, what every step but
`Remember` does to the turns, and `NextOnward` that each action does.

*The model servers.* `ModelServicesProofs` proves, for any pool, any subset of
the six servers and any number of requests (`ServicesAssumption`):

- `ServicesInvariant`: `Spec => []ServicesInv`, the inductive invariant;
- `LockHeld`, `Exclusion`, `Served`: the lock has a worker, one generation at a
  time, what was checked of a model before a request reaches it;
- `Implements`: `Spec => KeepsContract`, the refinement of `SpeechService`.

`OneAtATime` is not inductive, because nothing in it says that who computes holds
the lock; `ServicesInv` ties the lock to the place in the program (`Holding`).
`ServedWell` needs two facts: a name that is filled was published by a step of
startup, behind the comparison and the warm-up that come before it (`Published`;
`BootKeeps` is its step), and a request that is past a test or a load met what it
tests (`Knows`), which stays true because no name is ever taken back. `Places` and `StepPast` carry out, once
for the six programs, the arithmetic of steps; `StepKeeps`, `AnswerKeeps` and
`MoveKeeps` are the three ways an action may touch the request under way and
`OthersKeep` says that it does not touch the others. The refinement shows, for
each action, the standing of its thread before and after (`StandingsHold`,
`StepSeen`, `AnswerSeen`, `LoadSeen`), and that a computation begins alone
(`Allowed`).

*The live page.* `LivePageProofs` proves, for any number of utterances, clauses
and gestures and any faults (`LiveAssumption`), `LivePageInvariant` and its parts
`OneAnswer`, `LiveHistoryPaired` and `ClipsPlayed`. `HistoryPaired` is not
inductive: an answer is appended behind whatever is last, so `QuestionIsLast`
says what that is while one streams, and `OneAnswerAtATime` that nothing was
appended meanwhile. `NoClipForgotten` needs `ttsBusy => drains # {}`: `speak`
trusts the flag. The invariant falls into three parts that share no variable
but through `Speak` (`TurnInv`, `VoiceInv`, `EarInv`); a step is shown to keep
each (`Begins`, `GoesOn`, `IsOver`, `ConcludeKeeps`; `SpeakKeeps`, `DrainKeeps`,
`Stopped`).

*Texts.* `TextProofs` and `SentenceSplitProofs` prove, for any tokens, answers of
any length and any limits (`ClauseAssumption`; `SplitAssumption`, that the first
limit leaves room for the shortest piece and a space at each end):

- in `TextProofs`, `ClauseInvariant`, and from it `AnswerIsSpoken` and
  `SpokenInSentences`;
- in `SentenceSplitProofs`, `AnswerInPieces`, `PiecesAreSpeakable`, `FirstPieceIsSpokenSoon`: what
  `_sentences` makes of any answer.

`Strip`, `Only` (of which `Ink` is one), `FlattenSeq` and `Scan` compute by
recursion over a text. The
library's induction theorems take an operator, which no prover here can
instantiate; so recursion and induction are stated with sets and functions
instead. `Upward` is induction over a set of numbers, from least elements
(`Least`); `Recursion` says that a sequence of functions can be run from a
start, which is what the `CHOOSE` in a recursive definition needs to mean
anything; `Unique` that two runs agree; `AllSequences` is induction over a set of
sequences by `Append`. Each recursive definition then gets two lemmas, what it is
of the empty text and of one character more (`OnlyAppend`, `FlattenAppend`,
`ScanAppend`), and nothing else is known of it.

`SpeechIsTheAnswer` is inductive once types are added. `InkConcat` moves the
ink of texts past each other, `Stripped` says that `strip` keeps it, and
`CutKeeps`, that the cut leaves out one character of white space and nothing else.
`ClausesEndSentences` needs where `pend` stands in the answer (`Behind`): a clause
that is cut off it ends at a closing of `pend`, which is then one of the answer
(`NewEnd`), and those of earlier clauses stay closings as the answer grows
(`ClosingsStay`, `EarlierEnd`).
For the pieces, `ScanInk`, `ScanLong` and `ScanFirst` are inductions over the
answer: what the loop has cut off and what it holds are the answer so far; no
piece cut off is short, because with single spaces `strip` takes at most one
character from each end; while nothing is cut off there is no space from
the limit on. `TailInk` and `PiecesAre` add what happens to the tail.

*The LLM client.* `LlmStreamProofs` proves, for any tokens, any choice of the
characters that take two bytes, any foreign lines and a wire of any length
(`ClauseAssumption`, `LlmAssumption`):

- `FlowInvariant`: `LlmSpec => []FlowInv`, the inductive invariant;
- `OnlyTornIsLostAlways`, `ClausesOfChunks`, `WholeAnswerIsSpoken`: its
  consequences `OnlyTornIsLost`, `ClauseInv` and `WholeIsSpoken`.

`OnlyTornIsLost` is not inductive: it looks at what was said and at what was sent,
and a step between the two would have to be known not to lose anything on the
way. `FlowInv` follows one sequence, the `Stream`: the lines that wait, each with
its end, the text behind them, and of the bytes under way those that begin a
character or are one. Three facts hold of it. It is `Lawful`: whole lines,
empty or with `data:` in front, and `[DONE]` only in the last. Its bytes come in
`Pairs`: a second byte stands behind its first, or the first came with an
earlier chunk and the character is torn. And it is `Heard`: the numbers of the
characters said, followed by those of the stream (`Ids`), are those of all
characters sent and not torn (`Kept`), in order.

The actions are then what they do to the stream. What is sent is put behind it
(`EmitKeeps`, `JunkKeeps`, `FinishKeeps`, by `SendKeeps`). A chunk moves the
border between text and wire and leaves it as it is, if the chunk ends with a
character (`DecodeWhole`, `ReceiveWhole`); if it tears one, that character goes
out of the stream and out of what is kept in the same step (`DecodeTorn`,
`KeptLess`, `HeardTorn`). Splitting the text into lines does not change it
(`SplitIs`, `StreamSplit`). A line is taken from the front (`HeardLine`), and
because a torn character leaves its line lawful (`LawfulLess`), a line is one of
a few (`LineForms`): its characters are a delta, or it has none. At a close the
rest of `buf` is empty, because a lawful stream ends with a line (`ClosedKeeps`).

`ClausesOfChunks` is `ClauseInvariant` again for another specification: a delta
with a character torn out of it is no member of `Tokens`, so `TokenKeeps` says
what the loop of `respond` does with any text. Together with `OnlyTornIsLost`,
and with `Ink(pend) = <<>>` at the end, it gives `WholeIsSpoken`.

Every invariant and every action property of the passing runs, and both
refinements, are theorems. Only model-checked are the five liveness properties
(`UtteranceAnswered`, `FloorReturns`, `FirstCallListens`, `Answered`, `TurnsEnd`):
fairness and `ENABLED` are out of the prover's reach. The four runs that find a
violation have nothing to prove.

## 6. Left to do

- *Call centre*: a second `startCall` while one waits; an abstract specification
  of a call (listening, answering) that `CallSystem` implements within one call.
- `StreamSession`: the transcript file; where the counted silence was heard.

## 7. Not modelled

- Deployment scripts, probes, benchmarks and tests: straight-line, no state of
  the system.
- The turn harness, `services/app.py`: one generator per request that shares
  nothing with another and keeps nothing afterwards. `call.py`, which asks the same
  services in the same order, is modelled.
- The agent experiment: which frame goes where, who is interrupted and when a
  turn ends is decided by pipecat, whose code is not here.
- The recordings browser and `/health`: they read and answer.
- The tensors of the models, the text of prompts, the chat, the meters and all
  other display, the contents of audio. The services behind HTTP are, in the
  modules of their clients, their answers: what was asked, refused or failed, in
  any order the protocol allows.
