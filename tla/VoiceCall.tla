----------------------------- MODULE VoiceCall -----------------------------
(***************************************************************************)
(* A whole call: the session on the server, the WebSocket back to the      *)
(* page, and the page's playback.  Of what the session sends, the page     *)
(* acts on audio and on "barge"; the rest it displays.                     *)
(***************************************************************************)
EXTENDS StreamSession, VoicePage

callVars == <<vars, pageVars>>

CallInit == Init /\ PageInit

Acted(e) == e.t \in {"wav", "barge"}

\* What the page acts on of the messages of one step.  A step sends at most
\* one such message, behind any others (LEMMA ActedLast of VoiceCallProofs).
ForPage(sent) ==
    IF sent # <<>> /\ Acted(sent[Len(sent)]) THEN <<sent[Len(sent)]>> ELSE <<>>

\* stopListen closes the socket and stops the playback; a socket that is
\* closing delivers no more messages.
HangUp ==
    /\ ClientCloses
    /\ StopSpeaking
    /\ line' = <<>>
    /\ UNCHANGED <<arrived, hushed, started>>

\* Any other step of the session: what it sent is on the line, unless the
\* page has hung up.
SessionStep ==
    /\ Next
    /\ peer' = peer
    /\ line' = IF peer = "open" THEN line \o ForPage(out') ELSE line
    /\ UNCHANGED <<chain, loose, playing, arrived, hushed, started>>

PageAlone == PageStep /\ UNCHANGED vars

CallNext == SessionStep \/ HangUp \/ PageAlone

CallSpec == CallInit /\ [][CallNext]_callVars

CallFairness ==
    /\ WF_callVars(Handle /\ SessionStep)
    /\ WF_callVars(Detect /\ SessionStep)
    /\ \A t \in Tasks : WF_callVars(Respond(t) /\ SessionStep)
    /\ WF_callVars(PageAlone)

-----------------------------------------------------------------------------
LineType == [t : {"wav", "barge"}, turn : Nat]
ClipType == [turn : Nat, no : Nat]

PageTypeOK ==
    /\ line \in Seq(LineType)
    /\ chain \in Seq(ClipType) /\ playing \in Seq(ClipType)
    /\ loose \subseteq Seq(ClipType) \ {<<>>}
    /\ started \in Seq(ClipType)
    /\ arrived \in Nat /\ hushed \in Nat

\* Once the server has said "barge", no clip of the interrupted turn follows
\* it on the line: the message overtakes the audio it announces the end of.
NoAudioAfterBarge ==
    \A i, j \in DOMAIN line :
        i < j /\ line[i].t = "barge" /\ line[j].t = "wav" =>
            line[j].turn > line[i].turn

\* ... nor is one still to come when the page has handled the barge: what the
\* page waits to decode in its chain belongs to a later turn.
ChainIsFresh == \A i \in DOMAIN chain : chain[i].turn > hushed

\* The page keeps the order of arrival within a reply, though decoding can
\* finish out of order and chains are left behind (voice-stream.html,
\* playChunk: "keep arrival order").
RepliesPlayInOrder ==
    \A i, j \in DOMAIN started :
        i < j /\ started[i].turn = started[j].turn => started[i].no < started[j].no

-----------------------------------------------------------------------------
(* What the comments promise of the call.                                  *)

\* "the caller does not have to wait us out": what the page starts after a
\* barge is not the interrupted reply.
BargeSilencesReply ==
    [][ started' # started => started'[Len(started')].turn > hushed ]_callVars

\* Voiced audio that is handled while the page plays the agent's last reply,
\* with no barge on the way, is a barge-in.
VoiceWhilePlayingBarges ==
    [][ /\ inbox # <<>> /\ Head(inbox) = "voiced" /\ inbox' = Tail(inbox)
        /\ playing # <<>> /\ playing[1].turn > hushed
        /\ \A i \in DOMAIN line : line[i].t # "barge"
        => \E i \in DOMAIN out' : out'[i].t = "barge" ]_callVars
=============================================================================
