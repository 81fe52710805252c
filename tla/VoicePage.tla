----------------------------- MODULE VoicePage -----------------------------
(***************************************************************************)
(* The playback side of the console page, voice-stream.html: what it does  *)
(* with the clips and the "barge" messages of the WebSocket.               *)
(*                                                                         *)
(* playChunk appends to a chain of promises; each link waits for the links *)
(* before it and then for its own decoding, so only the first clip of a    *)
(* chain can start next.  stopSpeaking stops what plays and begins a new   *)
(* chain; the old one is not cancelled, its clips still decode and start.  *)
(* Clips that were started play one after the other (playHead).            *)
(***************************************************************************)
EXTENDS Integers, Sequences

VARIABLES
    line,       \* messages of the server not yet handled, in order
    chain,      \* playChain: clips of which the first is being decoded
    loose,      \* the chains stopSpeaking left behind
    playing,    \* clips started and not yet over, in order
    arrived,    \* clips that have arrived
    hushed,     \* history variable: the turn of the last barge handled
    started     \* history variable: all clips started, in order

pageVars == <<line, chain, loose, playing, arrived, hushed, started>>

\* a clip: the turn it belongs to and its place in the order of arrival
ClipOf(n, k) == [turn |-> n, no |-> k]

PageInit ==
    /\ line = <<>> /\ chain = <<>> /\ loose = {} /\ playing = <<>>
    /\ arrived = 0 /\ hushed = 0 /\ started = <<>>

StopSpeakingKeepsChain ==   \* mistake: playChain is not reset
    /\ playing' = <<>>
    /\ UNCHANGED <<loose, chain>>

StopSpeaking ==
    /\ playing' = <<>>
    /\ loose' = IF chain = <<>> THEN loose ELSE loose \cup {chain}
    /\ chain' = <<>>

PlayChunkUnchained(n) ==   \* mistake: every clip is decoded on its own
    /\ arrived' = arrived + 1
    /\ loose' = loose \cup {<<ClipOf(n, arrived + 1)>>}
    /\ UNCHANGED <<chain, playing>>

PlayChunk(n) ==
    /\ arrived' = arrived + 1
    /\ chain' = Append(chain, ClipOf(n, arrived + 1))
    /\ UNCHANGED <<loose, playing>>

\* ws.onmessage
OnMessage ==
    /\ line # <<>> /\ line' = Tail(line)
    /\ \/ /\ Head(line).t = "wav"
          /\ PlayChunk(Head(line).turn)
          /\ hushed' = hushed
       \/ /\ Head(line).t = "barge"
          /\ StopSpeaking
          /\ hushed' = Head(line).turn
          /\ arrived' = arrived
    /\ UNCHANGED started

\* The first clip of a chain is decoded and starts after what already plays.
StartClip(c) ==
    /\ playing' = Append(playing, c)
    /\ started' = Append(started, c)

Decoded ==
    /\ chain # <<>> /\ chain' = Tail(chain)
    /\ StartClip(Head(chain))
    /\ UNCHANGED <<line, loose, arrived, hushed>>

DecodedLateKept(old) ==   \* mistake: a chain that has run out is kept
    /\ old \in loose
    /\ loose' = (loose \ {old}) \cup {Tail(old)}
    /\ StartClip(Head(old))
    /\ UNCHANGED <<line, chain, arrived, hushed>>

\* the same in a chain that was left behind
DecodedLate(old) ==
    /\ old \in loose
    /\ loose' = (loose \ {old}) \cup (IF Len(old) = 1 THEN {} ELSE {Tail(old)})
    /\ StartClip(Head(old))
    /\ UNCHANGED <<line, chain, arrived, hushed>>

\* decodeAudioData rejects the bytes: the link ends without a sound.
NotDecodable ==
    /\ chain # <<>> /\ chain' = Tail(chain)
    /\ UNCHANGED <<line, loose, playing, arrived, hushed, started>>

\* ... also in a chain that was left behind
NotDecodableLate(old) ==
    /\ old \in loose
    /\ loose' = (loose \ {old}) \cup (IF Len(old) = 1 THEN {} ELSE {Tail(old)})
    /\ UNCHANGED <<line, chain, playing, arrived, hushed, started>>

\* onended
ClipEnds ==
    /\ playing # <<>> /\ playing' = Tail(playing)
    /\ UNCHANGED <<line, chain, loose, arrived, hushed, started>>

PageStep == \/ OnMessage \/ Decoded \/ NotDecodable \/ ClipEnds
            \/ \E old \in loose : DecodedLate(old) \/ NotDecodableLate(old)
=============================================================================
