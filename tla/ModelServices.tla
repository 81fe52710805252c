--------------------------- MODULE ModelServices ---------------------------
(***************************************************************************)
(* The servers that hold one model each: four generations of the speech    *)
(* server (omni_server, tts_fast, tts_f5, tts_parler), its first sketch    *)
(* (tts_server) and the fallback recogniser (stt_server).  They share a    *)
(* contract, /health and one POST, and differ in when the model is loaded, *)
(* what is checked before it is published and what a lock covers.          *)
(*                                                                         *)
(* A plain "def" endpoint runs on a thread of its own, so requests         *)
(* interleave wherever one of them can stop: at the lock, in a lazy load,  *)
(* while the GPU computes.  A startup handler runs before the first        *)
(* request is accepted, alone, but it may raise between any two of its     *)
(* steps, and then the server opens with what is there.  A client that     *)
(* goes away (a cancelled clause) does not stop the thread that works for  *)
(* it.                                                                     *)
(***************************************************************************)
EXTENDS Integers, Sequences

CONSTANTS
    Threads,      \* of the server's pool
    Servers,      \* which of the programs below are looked at
    MaxRequests,  \* bound: requests of a behaviour
    Free          \* the lock when nobody holds it

Programs == {"omni", "fast", "f5", "parler", "plain", "stt"}

ASSUME ServicesAssumption ==
    /\ Servers \subseteq Programs
    /\ MaxRequests \in Nat /\ Free \notin Threads

VARIABLES
    server,    \* the program that runs
    boot,      \* steps of its startup handler that are done
    open,      \* the handler is over, requests are accepted
    have,      \* the module-level names that are filled
    weights,   \* what the model holds of the checkpoint
    warm,      \* the model has generated something before
    lock,      \* its holder
    thread,    \* what each thread is at
    asked      \* requests so far

vars == <<server, boot, open, have, weights, warm, lock, thread, asked>>

\* the names a server fills, in the order of its assignments
Parts(s) == CASE s = "parler" -> <<"model", "tok", "desc">>
              [] s = "stt"    -> <<"encoder", "joint">>
              [] OTHER        -> <<"model">>
Filled(s, n) == {Parts(s)[i] : i \in 1 .. n}
Complete(s) == Filled(s, Len(Parts(s)))

-----------------------------------------------------------------------------
(* The startup handlers, as steps one of which may raise.  "make" builds   *)
(* the model, "compare" raises unless enough of its tensors are those of   *)
(* the checkpoint, "publish" makes it visible to requests, "warm" lets it  *)
(* speak once.                                                             *)

\* "poor": less than 200 tensors are the checkpoint's; "many": 200 are, others
\* are not; "agreeing": all that the checkpoint has, 200 at least, but the model
\* may have more; "unknown": nobody compares
Weights == {"unknown", "poor", "many", "agreeing", "whole"}

OmniBoot == <<"make", "warm", "publish">>

\* mistake: the exception of the comparison comes after _state.update
FastBootComparesLate == <<"make", "publish", "compare", "warm">>
FastBoot == <<"make", "compare", "publish", "warm">>

F5Boot == <<"make", "compare", "publish", "warm">>

\* Each name is a global as soon as it is assigned.
ParlerBoot == Parts("parler")

Startup == CASE server = "omni"   -> OmniBoot
             [] server = "fast"   -> FastBoot
             [] server = "f5"     -> F5Boot
             [] server = "parler" -> ParlerBoot
             [] OTHER             -> <<>>

\* good >= 200, whatever strict=False has hidden
FastAccepts == {"many", "agreeing", "whole"}
\* no unexpected key and no bad tensor; a missing one is not looked at
F5Accepts == {"agreeing", "whole"}
Accepts == IF server = "fast" THEN FastAccepts ELSE F5Accepts

-----------------------------------------------------------------------------
(* What each server does for a request: "ready" is the test that answers   *)
(* 503, "load" the lazy load, "tok" and "run" use the names, "lock" waits  *)
(* for the lock, which the thread keeps until it answers.                  *)
OmniSynthesizeUnlocked == <<"ready", "run">>     \* mistake: the lock is left out
OmniSynthesize   == <<"ready", "lock", "run">>
FastSynthesize   == <<"ready", "lock", "run">>
F5Synthesize     == <<"ready", "lock", "run">>
ParlerSynthesize == <<"load", "tok", "lock", "run">>
PlainSynthesize  == <<"load", "run">>
\* an async endpoint: what comes after the upload holds the event loop
SttTranscribe    == <<"lock", "encoder", "joint", "run">>

Program == CASE server = "omni"   -> OmniSynthesize
             [] server = "fast"   -> FastSynthesize
             [] server = "f5"     -> F5Synthesize
             [] server = "parler" -> ParlerSynthesize
             [] server = "plain"  -> PlainSynthesize
             [] OTHER             -> SttTranscribe

-----------------------------------------------------------------------------
Codes == {200, 400, 500, 503}
\* at: the step of the program, 0 for a free thread, one past the end when
\* the answer is ready; loads: the next name of a lazy load, or 0; live:
\* somebody waits for the answer
Idle == [at |-> 0, loads |-> 0, code |-> 0, live |-> FALSE]
Taken(at, code) == [at |-> at, loads |-> 0, code |-> code, live |-> TRUE]

Init ==
    /\ server \in Servers
    /\ boot = 0 /\ open = FALSE
    /\ have = {} /\ weights = "unknown" /\ warm = FALSE
    /\ lock = Free /\ asked = 0
    /\ thread = [t \in Threads |-> Idle]

BootStep ==
    /\ ~open /\ boot < Len(Startup) /\ boot' = boot + 1
    /\ LET step == Startup[boot + 1] IN
       /\ step = "compare" => weights \in Accepts
       /\ have' = have \cup IF step = "publish" THEN {"model"}
                            ELSE {step} \cap Complete(server)
       /\ IF step = "make" /\ server \in {"fast", "f5"}
          THEN weights' \in Weights \ {"unknown"} ELSE weights' = weights
       /\ warm' = (warm \/ step = "warm")
    /\ UNCHANGED <<server, open, lock, thread, asked>>

\* The handler returns, or raises at its next step, which is printed.
Opens ==
    /\ ~open /\ open' = TRUE
    /\ UNCHANGED <<server, boot, have, weights, warm, lock, thread, asked>>

Boot == BootStep \/ Opens

At(t, step) == thread[t].at \in DOMAIN Program /\ Program[thread[t].at] = step
Working(t) == thread[t].at \in DOMAIN Program
Step(t) == thread' = [thread EXCEPT ![t].at = @ + 1, ![t].loads = 0]

\* mistake: acquire and release without "with" around what may raise
AnswerKeepsLock(t, code) ==
    /\ thread' = [thread EXCEPT ![t].at = Len(Program) + 1, ![t].loads = 0,
                                ![t].code = code]
    /\ lock' = IF lock = t /\ code = 200 THEN Free ELSE lock

\* Leaving the "with" gives the lock back, whatever the outcome.
Answer(t, code) ==
    /\ thread' = [thread EXCEPT ![t].at = Len(Program) + 1, ![t].loads = 0,
                                ![t].code = code]
    /\ lock' = IF lock = t THEN Free ELSE lock

\* An empty text or upload is answered before anything else.
Request(t) ==
    /\ open /\ thread[t].at = 0 /\ asked < MaxRequests
    /\ asked' = asked + 1
    /\ \E taken \in {Taken(1, 0), Taken(Len(Program) + 1, 400)} :
           thread' = [thread EXCEPT ![t] = taken]
    /\ UNCHANGED <<server, boot, open, have, weights, warm, lock>>

Ready(t) ==
    /\ At(t, "ready")
    /\ IF "model" \in have THEN Step(t) /\ lock' = lock ELSE Answer(t, 503)
    /\ UNCHANGED <<server, boot, open, have, weights, warm, asked>>

\* "if _model is not None: return": only the first name is looked at.
LoadStarts(t) ==
    /\ At(t, "load") /\ thread[t].loads = 0
    /\ IF "model" \in have THEN Step(t)
       ELSE thread' = [thread EXCEPT ![t].loads = 1]
    /\ UNCHANGED <<server, boot, open, have, weights, warm, lock, asked>>

\* One name is assigned; the model of tts_server is whatever from_pretrained
\* made of it.
LoadFills(t) ==
    /\ At(t, "load") /\ thread[t].loads > 0
    /\ LET n == thread[t].loads IN
       /\ have' = have \cup {Parts(server)[n]}
       /\ IF n < Len(Parts(server))
          THEN thread' = [thread EXCEPT ![t].loads = n + 1] ELSE Step(t)
       /\ warm' = (n > 1 /\ warm)
    /\ UNCHANGED <<server, boot, open, weights, lock, asked>>

LoadFails(t) ==
    /\ At(t, "load") /\ thread[t].loads > 0
    /\ Answer(t, 500)
    /\ UNCHANGED <<server, boot, open, have, weights, warm, asked>>

\* _tok(req.text): None is not callable
Tokenise(t) ==
    /\ At(t, "tok")
    /\ IF "tok" \in have THEN Step(t) /\ lock' = lock ELSE Answer(t, 500)
    /\ UNCHANGED <<server, boot, open, have, weights, warm, asked>>

Lock(t) ==
    /\ At(t, "lock") /\ lock = Free
    /\ lock' = t /\ Step(t)
    /\ UNCHANGED <<server, boot, open, have, weights, warm, asked>>

\* _session: cached, created, or its file is missing (400), or broken (500)
Session(t) ==
    \E part \in {"encoder", "joint"} :
        /\ At(t, part)
        /\ \/ have' = have \cup {part} /\ Step(t) /\ lock' = lock
           \/ /\ part \notin have /\ have' = have
              /\ \E code \in {400, 500} : Answer(t, code)
        /\ UNCHANGED <<server, boot, open, weights, warm, asked>>

\* The computation, with every name it uses.
Run(t) ==
    /\ At(t, "run")
    /\ \/ Answer(t, 500) /\ warm' = warm
       \/ Complete(server) \subseteq have /\ Answer(t, 200) /\ warm' = TRUE
    /\ UNCHANGED <<server, boot, open, have, weights, asked>>

\* The client closes the connection; nobody tells the thread.
Leave(t) ==
    /\ Working(t) /\ thread[t].live
    /\ thread' = [thread EXCEPT ![t].live = FALSE]
    /\ UNCHANGED <<server, boot, open, have, weights, warm, lock, asked>>

\* The answer is sent, or dropped, and the thread is free.
Return(t) ==
    /\ thread[t].at > Len(Program)
    /\ thread' = [thread EXCEPT ![t] = Idle]
    /\ UNCHANGED <<server, boot, open, have, weights, warm, lock, asked>>

Serve(t) == \/ Ready(t) \/ LoadStarts(t) \/ LoadFills(t) \/ LoadFails(t)
            \/ Tokenise(t) \/ Lock(t) \/ Session(t) \/ Run(t) \/ Return(t)

\* All requests of the behaviour are answered: nothing more to look at.
Done == asked = MaxRequests /\ (\A t \in Threads : thread[t].at = 0) /\ UNCHANGED vars

Next == Boot \/ Done \/ \E t \in Threads : Request(t) \/ Leave(t) \/ Serve(t)

Spec == Init /\ [][Next]_vars

\* Threads run; a load, a generation and a lock that is free come to an end.
FairSpec == Spec /\ WF_vars(Boot) /\ \A t \in Threads : WF_vars(Serve(t))

-----------------------------------------------------------------------------
TypeOK ==
    /\ server \in Programs /\ boot \in 0 .. 4 /\ open \in BOOLEAN
    /\ have \subseteq Complete(server)
    /\ weights \in Weights /\ warm \in BOOLEAN
    /\ lock \in Threads \cup {Free} /\ asked \in 0 .. MaxRequests
    /\ thread \in [Threads -> [at : 0 .. 5, loads : 0 .. 3,
                               code : Codes \cup {0}, live : BOOLEAN]]

\* between the acquisition and the answer
Past(t, step) == \E i \in DOMAIN Program : Program[i] = step /\ thread[t].at > i
Holding(t) == Working(t) /\ Past(t, "lock")

\* Whoever holds the lock is at work under it, and gives it back when it
\* answers: an exception of the model does not leave the server locked.
LockIsHeld ==
    /\ \A t \in Threads : lock = t <=> Holding(t)
    /\ \A t \in Threads : thread[t].at = 0 => ~thread[t].live

\* The code keeps one generation on the GPU at a time, dead ones included:
\* every server but tts_server holds something while it computes.
OneAtATime ==
    server # "plain" =>
        \A t, u \in Threads : At(t, "run") /\ At(u, "run") => t = u

\* What the servers check before they serve, they have checked when a request
\* reaches the model, wherever startup broke off: every name is there (but for
\* Parler's, which is published name by name), 200 tensors at least are the
\* checkpoint's, for tts_f5 all that the checkpoint has, and OmniVoice has
\* spoken once before.
ServedWell ==
    \A t \in Threads : At(t, "run") =>
        /\ server # "parler" => Complete(server) \subseteq have
        /\ server = "fast" => weights \notin {"unknown", "poor"}
        /\ server = "f5" => weights \in {"agreeing", "whole"}
        /\ server = "omni" => warm

\* What a request knows once it is past a test, a load or a session.
Knows(t) ==
    /\ Past(t, "ready") \/ Past(t, "load") => "model" \in have
    /\ \A part \in {"tok", "encoder", "joint"} : Past(t, part) => part \in have

\* What is published went through the steps before its publication.
Booted(step) == \E i \in 1 .. boot : Startup[i] = step
Published ==
    /\ boot <= Len(Startup)
    /\ Booted("compare") => weights \in Accepts
    /\ Booted("warm") /\ server = "omni" => warm
    /\ server \in {"omni", "fast", "f5"} /\ "model" \in have => Booted("publish")

RequestInv(t) ==
    /\ thread[t].at \in 0 .. Len(Program) + 1
    /\ thread[t].at = 0 => ~thread[t].live
    /\ thread[t].at > 0 => open
    /\ thread[t].at \in 0 .. Len(Program) => thread[t].code = 0
    /\ thread[t].code = 200 => Complete(server) \subseteq have
    /\ lock = t <=> Holding(t)
    /\ thread[t].loads > 0 => At(t, "load") /\ thread[t].loads \in DOMAIN Parts(server)
    /\ thread[t].loads > 1 => "model" \in have
    /\ Working(t) => Knows(t)

\* The inductive invariant: a request that works has met on its way everything
\* its program tests, and holds the lock from there on.
ServicesInv == TypeOK /\ Published /\ \A t \in Threads : RequestInv(t)

\* Every request is answered although its client may be gone, the model may
\* raise and others wait for the same lock; so does a barge-in's dead request.
Answered == \A t \in Threads : thread[t].at > 0 ~> thread[t].at = 0

Whole == Complete(server) \subseteq have
Computing(t) == lock = t \/ (server = "plain" /\ At(t, "run"))
Standing(t) ==
    CASE thread[t].at = 0              -> "none"
      [] Computing(t)                  -> "computing"
      [] Working(t) /\ ~Computing(t)   -> "waiting"
      [] thread[t].code = 200          -> "served"
      [] OTHER                         -> "refused"

Contract == INSTANCE SpeechService WITH
    Requests <- Threads, alone <- (server # "plain"), ready <- Whole,
    req <- [t \in Threads |-> Standing(t)]

\* Whichever server runs, its clients see one that keeps the contract.
KeepsContract == Contract!Spec
=============================================================================
