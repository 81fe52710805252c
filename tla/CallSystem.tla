----------------------------- MODULE CallSystem -----------------------------
(***************************************************************************)
(* A call centre with one caller: the page and the server, joined by the   *)
(* requests for turns and the event streams that answer them.              *)
(***************************************************************************)
EXTENDS CallServer, CallPage, FiniteSets

CONSTANT Faults    \* what the network may do: {"lost", "broken"} or less

ASSUME FaultsAssumption == Faults \subseteq {"lost", "broken"}

systemVars == <<serverVars, callPageVars>>

SystemInit == ServerInit /\ CallPageInit

PageStep(A) == A /\ UNCHANGED serverVars

RequestLate(n) ==   \* mistake: the call is read when the request is sent off
    /\ flight[n].pc = "fetch"
    /\ Post(n, call)
    /\ UNCHANGED callPageVars

\* The request reaches the server.
Request(n) ==
    /\ flight[n].pc = "fetch"
    /\ Post(n, flight[n].call)
    /\ UNCHANGED callPageVars

\* It never does.
Unreachable(n) == turn[n].pc = "none" /\ PageStep(FetchFails(n))

\* It did, but the connection is lost before the response has arrived.
ResponseLost(n) ==
    /\ "lost" \in Faults
    /\ turn[n].pc # "none"
    /\ PageStep(FetchFails(n))

Response(n) == turn[n].pc # "none" /\ PageStep(Responded(n))

\* The page reads the next event of the stream, or its end.
Read(n) ==
    \/ /\ stream[n] # <<>>
       /\ Head(stream[n]) = "chunk" /\ ReadChunk(n)
       /\ stream' = [stream EXCEPT ![n] = Tail(@)]
       /\ UNCHANGED <<history, segments, turn>>
    \/ /\ stream[n] # <<>>
       /\ Head(stream[n]) = "skip" /\ ReadSkip(n)
       /\ stream' = [stream EXCEPT ![n] = Tail(@)]
       /\ UNCHANGED <<history, segments, turn>>
    \/ stream[n] = <<>> /\ turn[n].pc = "over" /\ PageStep(ReadEnd(n))

StreamBreaks(n) == "broken" \in Faults /\ PageStep(ReadBreaks(n))

\* The server may notice that the page no longer reads, and may not.
Noticed(n) ==
    /\ flight[n].pc \in {"failed", "broken", "over"}
    /\ Cancelled(n)
    /\ UNCHANGED callPageVars

Serve(n) == Work(n) /\ UNCHANGED callPageVars

\* The user has gone for good.
AtRest ==
    /\ ~live /\ starting = "no" /\ opened = MaxCalls
    /\ UNCHANGED systemVars

SystemNext ==
    \/ PageStep(User) \/ PageStep(Setup) \/ PageStep(RecorderStops) \/ AtRest
    \/ \E n \in Turns :
          \/ Request(n) \/ Unreachable(n) \/ ResponseLost(n) \/ Response(n)
          \/ Read(n) \/ StreamBreaks(n) \/ PageStep(Play(n))
          \/ Serve(n) \/ Noticed(n)

SystemSpec == SystemInit /\ [][SystemNext]_systemVars

(***************************************************************************)
(* The browser runs its event handlers, requests arrive or are refused,    *)
(* the services answer within the client's timeouts or fail, and a clip    *)
(* ends or its timer does.                                                 *)
(***************************************************************************)
SystemFairness ==
    /\ WF_systemVars(PageStep(Setup))
    /\ WF_systemVars(PageStep(RecorderStops))
    /\ \A n \in Turns :
          /\ WF_systemVars(Request(n) \/ Unreachable(n))
          /\ WF_systemVars(Response(n))
          /\ WF_systemVars(Read(n))
          /\ WF_systemVars(PageStep(Play(n)))
          /\ WF_systemVars(Serve(n))

FairSystemSpec == SystemSpec /\ SystemFairness

-----------------------------------------------------------------------------
SystemTypeOK == ServerTypeOK /\ CallPageTypeOK

Held(n) == InFlight(n) \/ flight[n].pc = "broken"

\* What the page relies on when it turns the detector on again: one turn holds
\* it at most, a broken one for ever; a stopped recorder becomes a turn only
\* while nothing holds it.
PageInv ==
    /\ starting # "no" => ~live
    /\ starting \in {"fetch", "resume"} => rec # "stopping"
    /\ live /\ rec = "stopping" => busy
    /\ live /\ ~busy => rec = "on"
    /\ \A n \in Turns : Held(n) => busy /\ ~(live /\ rec = "stopping")
    /\ \A m, n \in Turns : Held(m) /\ Held(n) => m = n

\* ... and what it relies on when it reads "skip": no clip came before it.
StreamInv ==
    \A n \in Turns :
        /\ flight[n].sounding => flight[n].queue > 0
        /\ flight[n].queue > 0 =>
              /\ flight[n].pc \in {"reading", "waiting", "broken"}
              /\ turn[n].clips > 0
        /\ \A i \in DOMAIN stream[n] :
              IF stream[n][i] = "skip" THEN turn[n].clips = 0 /\ turn[n].pc = "over"
                                       ELSE turn[n].clips > 0
        /\ turn[n].pc \in {"none", "asr", "heard", "llm"} => turn[n].clips = 0

\* The inductive invariant of the page and the streams it reads: the detector
\* comes on again only when the one turn that switched it off is over and
\* played.
SystemInv == SystemTypeOK /\ PageInv /\ StreamInv

\* A recorder goes astray (it runs on while no variable holds it) only when a
\* turn that an earlier call left under way ends and listens again in this one,
\* never by what happens within a call (resume and armRecorder of call.html).
StrayOnlyFromOldTurn ==
    [][orphans' > orphans =>
          \E n \in Turns :
             /\ InFlight(n) /\ flight[n].call < call
             /\ flight'[n].pc \in {"failed", "over"}]_systemVars

\* The clips of a turn that are still to be heard, at the page and on the wire,
\* and the agent's segments of it in the recording of the call it was asked in.
ToBeHeard(n) == flight[n].queue + Len(stream[n])
Recorded(n) ==
    {i \in DOMAIN segments[flight[n].call] :
        segments[flight[n].call][i] = Side("agent", n)}

\* Nothing reaches the page that is not yet in the recording of the call that
\* the turn was asked in, whatever call is live by then: the clips queued and
\* those on the wire are all there ("every segment ... is kept").
AudibleIsOnRecord ==
    \A n \in Turns :
        turn[n].clips > 0 => ToBeHeard(n) <= Cardinality(Recorded(n))

\* A turn whose request failed may go on at the server while the page sends the
\* next one, and nothing then keeps the two apart.
Failed(c) == {n \in Turns : flight[n].pc = "failed" /\ flight[n].call = c}
Kept(sides) == {i \in DOMAIN sides : flight[sides[i].turn].pc # "failed"}

\* What the LLM is shown does not grow with the call (the "del" of call_turn):
\* MAX_TURNS lines, the answer being written, and those of turns that failed.
HistoryBounded ==
    \A c \in Calls : Len(history[c]) <= MAX_TURNS + 1 + Cardinality(Failed(c))

\* The history of a call is a conversation, whatever failed turns add to it and
\* wherever its window was cut.
CallHistoryPaired == \A c \in Calls : Paired(history[c], Kept(history[c]))

\* recording: "Both sides, in the order they were spoken", but for failed turns.
SpokenOrder == \A c \in Calls : InOrder(segments[c], Kept(segments[c]))

\* services/call.py: "the caller never presses anything after starting the
\* call".  A caller who waits for the agent is listened to again.
ListenedAgain == live /\ busy ~> ~live \/ ~busy

\* The same of the first call of a page, the only one whose busy is its own: the
\* caller is listened to again whatever fails but a stream that breaks off.
FirstCallListens ==
    live /\ busy /\ call = 1 ~>
        ~live \/ ~busy \/ \E n \in Turns : flight[n].pc = "broken"

\* services/call.py: "every segment, caller and agent alike, is kept in order on
\* the server ... a real call recording".  What the caller of a call hears is
\* in the recording of that call.
HeardIsRecorded == \A h \in heardIn : h.of = h.in
=============================================================================
