------------------------ MODULE ModelServicesProofs ------------------------
(***************************************************************************)
(* Proofs about ModelServices, for any number of threads and requests and  *)
(* whichever of the programs run: the invariant of the requests under way, *)
(* mutual exclusion on the GPU, what an answer is made from, and that each *)
(* server implements SpeechService.                                        *)
(***************************************************************************)
EXTENDS ModelServices, TLAPS

\* The programs: each step occurs once, "run" comes last, and behind the lock
\* but in tts_server.
LEMMA Shape ==
    ASSUME server \in Programs
    PROVE  /\ Len(Program) \in 2 .. 4 /\ DOMAIN Program = 1 .. Len(Program)
           /\ \A i, j \in DOMAIN Program : Program[i] = Program[j] => i = j
           /\ \A i \in DOMAIN Program : Program[i] = "run" <=> i = Len(Program)
           /\ server = "plain" <=> \A i \in DOMAIN Program : Program[i] # "lock"
           /\ server \in {"omni", "fast", "f5"} <=> Program[1] = "ready"
           /\ server \in {"parler", "plain"} <=> Program[1] = "load"
           /\ server = "stt" => Len(Program) = 4 /\ Program[2] = "encoder" /\ Program[3] = "joint"
           /\ \A i \in DOMAIN Program :
                 /\ Program[i] = "ready" => server \in {"omni", "fast", "f5"} /\ i = 1
                 /\ Program[i] = "load" => server \in {"parler", "plain"} /\ i = 1
                 /\ Program[i] = "tok" => server = "parler"
                 /\ Program[i] \in {"encoder", "joint"} => server = "stt"
  <1> USE DEF Program, Programs
  <1>a. CASE server = "omni"
    BY <1>a, SMT DEF OmniSynthesize
  <1>b. CASE server = "fast"
    BY <1>b, SMT DEF FastSynthesize
  <1>c. CASE server = "f5"
    BY <1>c, SMT DEF F5Synthesize
  <1>2. CASE server = "parler"
    BY <1>2, SMT DEF ParlerSynthesize
  <1>3. CASE server = "plain"
    BY <1>3, SMT DEF PlainSynthesize
  <1>4. CASE server = "stt"
    BY <1>4, SMT DEF SttTranscribe
  <1> QED
    BY <1>a, <1>b, <1>c, <1>2, <1>3, <1>4

\* The names a server fills.
LEMMA Names ==
    ASSUME server \in Programs
    PROVE  /\ Len(Parts(server)) \in 1 .. 3 /\ DOMAIN Parts(server) = 1 .. Len(Parts(server))
           /\ Complete(server) = {Parts(server)[i] : i \in DOMAIN Parts(server)}
           /\ server # "stt" => Parts(server)[1] = "model" /\ "model" \in Complete(server)
           /\ server \in {"omni", "fast", "f5", "plain"} => Complete(server) = {"model"}
           /\ server = "stt" => Complete(server) = {"encoder", "joint"}
           /\ server = "parler" => Complete(server) = {"model", "tok", "desc"}
  <1> USE DEF Complete, Filled, Programs
  <1>1. CASE server \in {"omni", "fast", "f5", "plain"}
    <2>1. Parts(server) = <<"model">>
      BY <1>1, SMT DEF Parts
    <2> QED
      BY <1>1, <2>1, SMT
  <1>2. CASE server = "parler"
    <2>1. Parts(server) = <<"model", "tok", "desc">>
      BY <1>2, SMT DEF Parts
    <2> QED
      BY <1>2, <2>1, SMT
  <1>3. CASE server = "stt"
    <2>1. Parts(server) = <<"encoder", "joint">>
      BY <1>3, SMT DEF Parts
    <2> QED
      BY <1>3, <2>1, SMT
  <1> QED
    BY <1>1, <1>2, <1>3

\* The startup handlers: what publishes the model comes behind what checks it.
LEMMA Steps ==
    ASSUME server \in Programs
    PROVE  /\ Len(Startup) \in 0 .. 4 /\ DOMAIN Startup = 1 .. Len(Startup)
           /\ server \in {"fast", "f5"} =>
                 /\ \A i \in DOMAIN Startup :
                       /\ Startup[i] = "make" <=> i = 1
                       /\ Startup[i] = "compare" <=> i = 2
                       /\ Startup[i] = "publish" <=> i = 3
           /\ server = "omni" =>
                 /\ \A i \in DOMAIN Startup :
                       /\ Startup[i] = "warm" <=> i = 2
                       /\ Startup[i] = "publish" <=> i = 3
                       /\ Startup[i] # "compare"
           /\ server \in {"parler", "plain", "stt"} =>
                 \A i \in DOMAIN Startup : Startup[i] \notin {"publish", "compare", "warm"}
           /\ server \in {"omni", "fast", "f5"} => \A i \in DOMAIN Startup : Startup[i] # "model"
  <1> USE DEF Startup, Programs
  <1>1. CASE server = "omni"
    BY <1>1, SMT DEF OmniBoot
  <1>2. CASE server = "fast"
    BY <1>2, SMT DEF FastBoot
  <1>3. CASE server = "f5"
    BY <1>3, SMT DEF F5Boot
  <1>4. CASE server = "parler"
    <2>1. Startup = <<"model", "tok", "desc">>
      BY <1>4, SMT DEF ParlerBoot, Parts
    <2> HIDE DEF Startup
    <2> QED
      BY <1>4, <2>1, SMT
  <1>5. CASE server \in {"plain", "stt"}
    <2>1. Startup = <<>>
      BY <1>5, SMT
    <2> QED
      BY <1>5, <2>1, SMT
  <1> QED
    BY <1>1, <1>2, <1>3, <1>4, <1>5

-----------------------------------------------------------------------------
(* One request.                                                            *)

\* A request keeps its invariant while another thread runs: names are only
\* added, and the lock does not change hands behind its back.
LEMMA OthersKeep ==
    ASSUME ServicesInv, NEW u \in Threads, thread'[u] = thread[u],
           server' = server, open => open', have \subseteq have',
           lock = u <=> lock' = u
    PROVE  RequestInv(u)'
  <1>1. Program' = Program
    BY DEF Program
  <1>2. RequestInv(u)
    BY DEF ServicesInv
  <1> QED
    BY <1>1, <1>2, SMT DEF RequestInv, Holding, Working, Past, At, Knows

\* Where a request is.
LEMMA Places ==
    ASSUME ServicesInv, NEW t \in Threads
    PROVE  /\ server \in Programs /\ thread[t].at \in 0 .. 5 /\ thread[t].loads \in 0 .. 3
           /\ Working(t) <=> thread[t].at \in 1 .. Len(Program)
           /\ \A step : At(t, step) => Working(t) /\ ~Past(t, step)
           /\ At(t, "run") /\ server # "plain" => Past(t, "lock")
           /\ At(t, "lock") => server # "plain"
           /\ At(t, "ready") \/ At(t, "load") => ~Past(t, "lock")
  <1>1. server \in Programs /\ thread[t].at \in 0 .. 5 /\ thread[t].loads \in 0 .. 3
    BY SMT DEF ServicesInv, TypeOK
  <1> QED
    BY <1>1, Shape, SMT DEF Working, At, Past

\* Of a request that moves on, its program has one more step behind it.
LEMMA StepPast ==
    ASSUME ServicesInv, NEW t \in Threads, Working(t), Step(t), server' = server, NEW step
    PROVE  Past(t, step)' <=> Past(t, step) \/ At(t, step)
  <1>1. Program' = Program
    BY DEF Program
  <1>2. thread'[t].at = thread[t].at + 1 /\ thread'[t].loads = 0
    BY SMT DEF Step, ServicesInv, TypeOK
  <1> QED
    BY <1>1, <1>2, Places, Shape, SMT DEF Past, At, Working

\* A request that passes a step of its program keeps its invariant if it leaves
\* the step with what the step is for.
LEMMA StepKeeps ==
    ASSUME ServicesInv, NEW t \in Threads, Working(t), ~At(t, "run"), Step(t),
           server' = server, open' = open, have \subseteq have',
           lock' = IF At(t, "lock") THEN t ELSE lock,
           At(t, "ready") \/ At(t, "load") => "model" \in have',
           \A part \in {"tok", "encoder", "joint"} : At(t, part) => part \in have'
    PROVE  RequestInv(t)'
  <1>1. Program' = Program
    BY DEF Program
  <1>2. /\ thread'[t].at = thread[t].at + 1 /\ thread'[t].loads = 0
        /\ thread'[t].code = thread[t].code /\ thread'[t].live = thread[t].live
    BY SMT DEF Step, ServicesInv, TypeOK
  <1>3. thread'[t].at \in 2 .. Len(Program)
    BY <1>2, Places, Shape, SMT DEF Working, At
  <1>4. RequestInv(t)
    BY DEF ServicesInv
  <1>5. Working(t)'
    BY <1>1, <1>3, Places, Shape, SMT DEF Working
  <1>6. Holding(t)' <=> Holding(t) \/ At(t, "lock")
    BY <1>5, StepPast DEF Holding
  <1>7. Knows(t)'
    BY <1>4, StepPast DEF Knows, RequestInv
  <1>8. lock' = t <=> Holding(t)'
    BY <1>4, <1>6 DEF RequestInv
  <1>9. thread[t].at \in 1 .. Len(Program) /\ thread[t].code = 0 /\ open
    BY <1>4, Places, SMT DEF RequestInv
  <1> QED
    BY <1>1, <1>2, <1>3, <1>7, <1>8, <1>9, Places, Shape, SMT DEF RequestInv

\* An answer gives the lock back, and nobody else's.
LEMMA AnswerKeeps ==
    ASSUME ServicesInv, NEW t \in Threads, Working(t), NEW code \in Codes, Answer(t, code),
           server' = server, open' = open, have' = have,
           code = 200 => Complete(server) \subseteq have
    PROVE  \A u \in Threads : RequestInv(u)'
  <1>1. Program' = Program
    BY DEF Program
  <1>2. /\ thread'[t].at = Len(Program) + 1 /\ thread'[t].loads = 0
        /\ thread'[t].code = code
    BY SMT DEF Answer, ServicesInv, TypeOK
  <1>3. lock' # t
    BY ServicesAssumption DEF Answer
  <1>4. ~Working(t)' /\ ~Holding(t)'
    BY <1>1, <1>2, Places, Shape, SMT DEF Working, Holding
  <1>5. open
    BY Places, SMT DEF ServicesInv, RequestInv
  <1>6. RequestInv(t)'
    BY <1>1, <1>2, <1>3, <1>4, <1>5, Places, Shape, SMT DEF RequestInv
  <1>7. ASSUME NEW u \in Threads, u # t
        PROVE  RequestInv(u)'
    <2>1. thread'[u] = thread[u] /\ (lock = u <=> lock' = u)
      BY <1>7, ServicesAssumption DEF Answer, ServicesInv, TypeOK
    <2> QED
      BY <2>1, OthersKeep
  <1> QED
    BY <1>6, <1>7

\* Another thread's move changes nothing else for a request.
LEMMA MoveKeeps ==
    ASSUME ServicesInv, NEW t \in Threads, Working(t), ~At(t, "run"), Step(t),
           server' = server, open' = open, have \subseteq have',
           lock' = lock \/ (At(t, "lock") /\ lock = Free),
           lock' = IF At(t, "lock") THEN t ELSE lock,
           At(t, "ready") \/ At(t, "load") => "model" \in have',
           \A part \in {"tok", "encoder", "joint"} : At(t, part) => part \in have'
    PROVE  \A u \in Threads : RequestInv(u)'
  <1>1. RequestInv(t)'
    BY StepKeeps
  <1>2. ASSUME NEW u \in Threads, u # t
        PROVE  RequestInv(u)'
    <2>1. thread'[u] = thread[u] /\ (lock = u <=> lock' = u)
      BY <1>2, ServicesAssumption DEF Step, ServicesInv, TypeOK
    <2> QED
      BY <2>1, OthersKeep
  <1> QED
    BY <1>1, <1>2

\* A step is only one thing, so a request at a load is at no session.
LEMMA OneStep ==
    ASSUME ServicesInv, NEW t \in Threads, NEW a, NEW b, At(t, a), At(t, b)
    PROVE  a = b
  BY DEF At

-----------------------------------------------------------------------------
(* The invariant, action by action.                                        *)

LEMMA RequestsKept ==
    ASSUME ServicesInv, Next
    PROVE  \A u \in Threads : RequestInv(u)'
  <1>1. CASE Boot
    <2>1. /\ have \subseteq have' /\ thread' = thread /\ lock' = lock
          /\ server' = server /\ (open => open')
      BY <1>1 DEF Boot, BootStep, Opens
    <2> QED
      BY <2>1, OthersKeep
  <1>2. CASE Done
    BY <1>2, OthersKeep DEF Done, vars
  <1>3. ASSUME NEW t \in Threads, Request(t) \/ Leave(t) \/ Return(t)
        PROVE  \A u \in Threads : RequestInv(u)'
    <2>1. /\ server' = server /\ open' = open /\ have' = have /\ lock' = lock
          /\ \A u \in Threads : u # t => thread'[u] = thread[u]
      BY <1>3, SMT DEF Request, Leave, Return, ServicesInv, TypeOK
    <2>2. Program' = Program /\ RequestInv(t)
      BY <2>1 DEF Program, ServicesInv
    <2>3. RequestInv(t)'
      <3>1. CASE Request(t)
        <4>1. /\ thread'[t].at \in {1, Len(Program) + 1} /\ thread'[t].loads = 0
              /\ thread'[t].code # 200 /\ thread'[t].live
              /\ thread'[t].at = 1 => thread'[t].code = 0
          <5>1. DOMAIN thread = Threads /\ server \in Programs
            BY DEF ServicesInv, TypeOK
          <5>2. PICK taken \in {Taken(1, 0), Taken(Len(Program) + 1, 400)} :
                   thread' = [thread EXCEPT ![t] = taken]
            BY <3>1, Zenon DEF Request
          <5>3. CASE taken = Taken(1, 0)
            BY <5>1, <5>2, <5>3, SMT DEF Taken
          <5>4. CASE taken = Taken(Len(Program) + 1, 400)
            BY <5>1, <5>2, <5>4, Shape, SMT DEF Taken
          <5> QED
            BY <5>3, <5>4
        <4>2. lock # t /\ open
          BY <2>2, <3>1, Places, SMT DEF RequestInv, Request, Holding
        <4>3. ~Holding(t)' /\ (Working(t)' => Knows(t)')
          BY <2>1, <2>2, <4>1, Shape, Places, SMT DEF Holding, Working, Past, Knows
        <4> QED
          BY <2>1, <2>2, <4>1, <4>2, <4>3, Shape, Places, SMT DEF RequestInv
      <3>2. CASE Leave(t)
        <4>1. /\ thread'[t].at = thread[t].at /\ thread'[t].loads = thread[t].loads
              /\ thread'[t].code = thread[t].code /\ thread'[t].at # 0
          BY <3>2, Places, SMT DEF Leave, ServicesInv, TypeOK
        <4> QED
          BY <2>1, <2>2, <4>1, SMT DEF RequestInv, Holding, Working, Past, At, Knows
      <3>3. CASE Return(t)
        <4>1. thread'[t] = Idle /\ lock # t
          BY <2>2, <3>3, Places, Shape, SMT
             DEF Return, ServicesInv, TypeOK, RequestInv, Holding
        <4> QED
          BY <2>1, <2>2, <4>1, Shape, Places, SMT DEF RequestInv, Holding, Working, Knows, Idle
      <3> QED
        BY <1>3, <3>1, <3>2, <3>3
    <2> QED
      BY <2>1, <2>3, OthersKeep
  <1>4. ASSUME NEW t \in Threads, Serve(t), ~Return(t)
        PROVE  \A u \in Threads : RequestInv(u)'
    <2>1. CASE Ready(t)
      <3>1. At(t, "ready") /\ Working(t) /\ ~At(t, "run") /\ ~At(t, "lock")
        BY <2>1, Places, OneStep DEF Ready
      <3>2. CASE "model" \in have
        BY <2>1, <3>1, <3>2, MoveKeeps, OneStep DEF Ready
      <3>3. CASE "model" \notin have
        BY <2>1, <3>1, <3>3, AnswerKeeps DEF Ready, Codes
      <3> QED
        BY <3>2, <3>3
    <2>2. CASE LoadStarts(t)
      <3>1. At(t, "load") /\ Working(t) /\ ~At(t, "run") /\ ~At(t, "lock")
        BY <2>2, Places, OneStep DEF LoadStarts
      <3>2. CASE "model" \in have
        BY <2>2, <3>1, <3>2, MoveKeeps, OneStep DEF LoadStarts
      <3>3. CASE "model" \notin have
        <4>1. /\ thread'[t].at = thread[t].at /\ thread'[t].loads = 1
              /\ thread'[t].code = thread[t].code /\ thread'[t].live = thread[t].live
              /\ \A u \in Threads : u # t => thread'[u] = thread[u]
          BY <2>2, <3>3, SMT DEF LoadStarts, ServicesInv, TypeOK
        <4>2. Program' = Program /\ RequestInv(t) /\ 1 \in DOMAIN Parts(server)
          BY <2>2, Places, Names, SMT DEF LoadStarts, Program, ServicesInv
        <4>3. RequestInv(t)'
          BY <2>2, <3>1, <4>1, <4>2, SMT
             DEF LoadStarts, RequestInv, Holding, Working, Past, At, Knows
        <4> QED
          BY <2>2, <4>1, <4>3, OthersKeep DEF LoadStarts
      <3> QED
        BY <3>2, <3>3
    <2>3. CASE LoadFills(t)
      <3>1. At(t, "load") /\ Working(t) /\ ~At(t, "run") /\ ~At(t, "lock")
        BY <2>3, Places, OneStep DEF LoadFills
      <3>2. /\ have \subseteq have' /\ server' = server /\ open' = open /\ lock' = lock
            /\ "model" \in have'
        <4>1. server \in {"parler", "plain"}
          BY <3>1, Places, Shape, SMT DEF At
        <4>2. thread[t].loads > 1 => "model" \in have
          BY DEF ServicesInv, RequestInv
        <4>3. thread[t].loads = 1 => Parts(server)[thread[t].loads] = "model"
          BY <4>1, Names, Places
        <4> QED
          BY <2>3, <4>2, <4>3, Places, SMT DEF LoadFills
      <3>3. CASE thread[t].loads < Len(Parts(server))
        <4>1. /\ thread'[t].at = thread[t].at /\ thread'[t].loads = thread[t].loads + 1
              /\ thread'[t].code = thread[t].code /\ thread'[t].live = thread[t].live
              /\ \A u \in Threads : u # t => thread'[u] = thread[u]
          BY <2>3, <3>3, SMT DEF LoadFills, ServicesInv, TypeOK
        <4>2. /\ Program' = Program /\ RequestInv(t)
              /\ thread[t].loads + 1 \in DOMAIN Parts(server)
          BY <2>3, <3>3, Places, Names, SMT DEF LoadFills, Program, ServicesInv
        <4>3. RequestInv(t)'
          BY <3>1, <3>2, <4>1, <4>2, SMT
             DEF RequestInv, Holding, Working, Past, At, Knows
        <4> QED
          BY <3>2, <4>1, <4>3, OthersKeep
      <3>4. CASE ~(thread[t].loads < Len(Parts(server)))
        <4>1. Step(t)
          BY <2>3, <3>4 DEF LoadFills
        <4> QED
          BY <3>1, <3>2, <4>1, MoveKeeps, OneStep
      <3> QED
        BY <3>3, <3>4
    <2>4. CASE LoadFails(t)
      BY <2>4, Places, AnswerKeeps DEF LoadFails, Codes
    <2>5. CASE Tokenise(t)
      <3>1. At(t, "tok") /\ Working(t) /\ ~At(t, "run") /\ ~At(t, "lock")
        BY <2>5, Places, OneStep DEF Tokenise
      <3>2. CASE "tok" \in have
        BY <2>5, <3>1, <3>2, MoveKeeps, OneStep DEF Tokenise
      <3>3. CASE "tok" \notin have
        BY <2>5, <3>1, <3>3, AnswerKeeps DEF Tokenise, Codes
      <3> QED
        BY <3>2, <3>3
    <2>6. CASE Lock(t)
      <3>1. At(t, "lock") /\ Working(t) /\ ~At(t, "run")
        BY <2>6, Places, OneStep DEF Lock
      <3> QED
        BY <2>6, <3>1, MoveKeeps, OneStep DEF Lock
    <2>7. CASE Session(t)
      <3>1. PICK part \in {"encoder", "joint"} :
                /\ At(t, part)
                /\ \/ have' = have \cup {part} /\ Step(t) /\ lock' = lock
                   \/ /\ part \notin have /\ have' = have
                      /\ \E code \in {400, 500} : Answer(t, code)
                /\ UNCHANGED <<server, boot, open, weights, warm, asked>>
        BY <2>7 DEF Session
      <3>2. Working(t) /\ ~At(t, "run") /\ ~At(t, "lock")
        BY <3>1, Places, OneStep
      <3>3. CASE have' = have \cup {part} /\ Step(t) /\ lock' = lock
        BY <3>1, <3>2, <3>3, MoveKeeps, OneStep
      <3>4. CASE have' = have /\ \E code \in {400, 500} : Answer(t, code)
        BY <3>1, <3>2, <3>4, AnswerKeeps DEF Codes
      <3> QED
        BY <3>1, <3>3, <3>4
    <2>8. CASE Run(t)
      <3>1. Working(t)
        BY <2>8, Places DEF Run
      <3> QED
        BY <2>8, <3>1, AnswerKeeps DEF Run, Codes
    <2> QED
      BY <1>4, <2>1, <2>2, <2>3, <2>4, <2>5, <2>6, <2>7, <2>8 DEF Serve
  <1> QED
    BY <1>1, <1>2, <1>3, <1>4 DEF Next, Serve

LEMMA LastStep ==
    ASSUME ServicesInv
    PROVE  Len(Program) \in 2 .. 4 /\ Len(Program) + 1 \in 0 .. 5
  <1>1. server \in Programs
    BY DEF ServicesInv, TypeOK
  <1>2. Len(Program) \in 2 .. 4
    BY <1>1, Shape
  <1>3. \A n \in 2 .. 4 : n + 1 \in 0 .. 5
    BY SMT
  <1> QED
    BY <1>2, <1>3

\* Threads stay what they are while one moves on, answers or changes its load.
LEMMA ThreadTypes ==
    ASSUME ServicesInv, NEW t \in Threads,
           \/ Working(t) /\ Step(t)
           \/ Working(t) /\ \E code \in Codes : Answer(t, code)
           \/ \E n \in 0 .. 3 : thread' = [thread EXCEPT ![t].loads = n]
           \/ \E b \in BOOLEAN : thread' = [thread EXCEPT ![t].live = b]
    PROVE  thread' \in [Threads -> [at : 0 .. 5, loads : 0 .. 3,
                                    code : Codes \cup {0}, live : BOOLEAN]]
  <1>1. thread \in [Threads -> [at : 0 .. 5, loads : 0 .. 3,
                                code : Codes \cup {0}, live : BOOLEAN]]
    BY DEF ServicesInv, TypeOK
  <1>2. CASE Working(t) /\ Step(t)
    <2>1. thread[t].at \in 1 .. Len(Program)
      BY <1>2, Places
    <2>2. \A n \in 2 .. 4 : \A i \in 1 .. n : i + 1 \in 0 .. 5
      BY SMT
    <2>3. thread[t].at + 1 \in 0 .. 5
      BY <2>1, <2>2, LastStep
    <2>4. thread' = [thread EXCEPT ![t].at = thread[t].at + 1, ![t].loads = 0]
      BY <1>1, <1>2, Zenon DEF Step
    <2> QED
      BY <1>1, <2>3, <2>4, SMT
  <1>3. CASE Working(t) /\ \E code \in Codes : Answer(t, code)
    <2>1. PICK at \in 0 .. 5, code \in Codes :
              thread' = [thread EXCEPT ![t].at = at, ![t].loads = 0, ![t].code = code]
      BY <1>3, LastStep DEF Answer
    <2> QED
      BY <1>1, <2>1, SMT
  <1>4. CASE \E n \in 0 .. 3 : thread' = [thread EXCEPT ![t].loads = n]
    BY <1>1, <1>4, SMT
  <1>5. CASE \E b \in BOOLEAN : thread' = [thread EXCEPT ![t].live = b]
    BY <1>1, <1>5, SMT
  <1> QED
    BY <1>2, <1>3, <1>4, <1>5

\* What is published stays as it was checked while the startup handler is over.
LEMMA PublishedKept ==
    ASSUME ServicesInv, server' = server, boot' = boot, weights' = weights,
           server = "omni" => (warm => warm'),
           server \in {"omni", "fast", "f5"} => have' = have
    PROVE  Published'
  <1>1. Startup' = Startup /\ Accepts' = Accepts
    BY DEF Startup, Accepts
  <1>2. \A step : Booted(step)' = Booted(step)
    BY <1>1 DEF Booted
  <1> QED
    BY <1>1, <1>2 DEF ServicesInv, Published

\* A step of the startup handler.
LEMMA BootKeeps ==
    ASSUME ServicesInv, Boot
    PROVE  TypeOK' /\ Published'
  <1> USE DEF ServicesInv
  <1>0. server \in Programs /\ TypeOK /\ Published
    BY DEF TypeOK
  <1>1. CASE Opens
    BY <1>0, <1>1, PublishedKept DEF Opens, TypeOK
  <1>2. CASE BootStep
    <2> DEFINE n == boot + 1
               step == Startup[n]
    <2>1. /\ server' = server /\ open' = open /\ lock' = lock /\ thread' = thread
          /\ asked' = asked /\ boot' = n
          /\ step = "compare" => weights \in Accepts
          /\ have' = have \cup IF step = "publish" THEN {"model"} ELSE {step} \cap Complete(server)
          /\ IF step = "make" /\ server \in {"fast", "f5"}
             THEN weights' \in Weights \ {"unknown"} ELSE weights' = weights
          /\ warm' = (warm \/ step = "warm")
      BY <1>2 DEF BootStep
    <2>2. Startup' = Startup /\ Accepts' = Accepts
      BY <2>1 DEF Startup, Accepts
    <2>3. /\ boot \in 0 .. 4 /\ n \in DOMAIN Startup /\ n \in 0 .. 4 /\ n <= Len(Startup)
          /\ n = 2 => 1 \in 1 .. n
      BY <1>0, <1>2, Steps, SMT DEF BootStep, TypeOK
    <2>4. \A s : Booted(s)' <=> Booted(s) \/ step = s
      BY <2>1, <2>2, <2>3, SMT DEF Booted
    <2>5. TypeOK'
      <3>1. step = "publish" => "model" \in Complete(server)
        BY <1>0, <2>3, Steps, Names DEF Programs
      <3>2. have' \subseteq Complete(server)
        BY <1>0, <2>1, <3>1 DEF TypeOK
      <3>3. Complete(server)' = Complete(server)
        BY <2>1 DEF Complete
      <3>4. weights' \in Weights /\ warm' \in BOOLEAN
        BY <1>0, <2>1 DEF TypeOK
      <3> QED
        BY <1>0, <2>1, <2>3, <3>2, <3>3, <3>4 DEF TypeOK
    <2>6. Published'
      <3>1. Booted("compare")' => (weights \in Accepts)'
        <4>1. CASE step = "make" /\ server \in {"fast", "f5"}
          <5>1. n = 1
            BY <1>0, <2>3, <4>1, Steps
          <5>2. ~Booted("compare") /\ step # "compare"
            BY <1>0, <4>1, <5>1, SMT DEF Booted, TypeOK
          <5> QED
            BY <2>4, <5>2
        <4>2. CASE ~(step = "make" /\ server \in {"fast", "f5"})
          BY <1>0, <2>1, <2>2, <2>4, <4>2 DEF Published
        <4> QED
          BY <4>1, <4>2
      <3>2. Booted("warm")' /\ server' = "omni" => warm'
        BY <1>0, <2>1, <2>4 DEF Published, TypeOK
      <3>3. server \in {"omni", "fast", "f5"} /\ "model" \in have' => Booted("publish")'
        BY <1>0, <2>1, <2>3, <2>4, Steps DEF Published
      <3> QED
        BY <2>1, <2>2, <2>3, <3>1, <3>2, <3>3 DEF Published
    <2> QED
      BY <2>5, <2>6
  <1> QED
    BY <1>1, <1>2 DEF Boot

LEMMA TypesKept ==
    ASSUME ServicesInv, Next
    PROVE  TypeOK' /\ Published'
  <1> USE DEF ServicesInv
  <1>1. CASE Boot
    BY <1>1, BootKeeps
  <1>2. CASE Done
    BY <1>2, PublishedKept DEF Done, vars, TypeOK
  <1>3. ASSUME NEW t \in Threads, Request(t) \/ Leave(t) \/ Return(t)
        PROVE  TypeOK' /\ Published'
    <2>1. /\ UNCHANGED <<server, boot, open, have, weights, warm, lock>>
          /\ asked' \in 0 .. MaxRequests
      BY <1>3, ServicesAssumption, SMT DEF Request, Leave, Return, TypeOK
    <2>2. thread' \in [Threads -> [at : 0 .. 5, loads : 0 .. 3,
                                   code : Codes \cup {0}, live : BOOLEAN]]
      <3>1. CASE Request(t)
        <4>1. Taken(1, 0) \in [at : 0 .. 5, loads : 0 .. 3, code : Codes \cup {0}, live : BOOLEAN]
          BY SMT DEF Taken
        <4>2. Taken(Len(Program) + 1, 400)
                  \in [at : 0 .. 5, loads : 0 .. 3, code : Codes \cup {0}, live : BOOLEAN]
          BY LastStep, SMT DEF Taken, Codes
        <4>3. PICK taken \in {Taken(1, 0), Taken(Len(Program) + 1, 400)} :
                  thread' = [thread EXCEPT ![t] = taken]
          BY <3>1 DEF Request
        <4>4. taken \in [at : 0 .. 5, loads : 0 .. 3, code : Codes \cup {0}, live : BOOLEAN]
          BY <4>1, <4>2
        <4> QED
          BY <4>3, <4>4 DEF TypeOK
      <3>2. CASE Leave(t)
        BY <3>2, ThreadTypes DEF Leave
      <3>3. CASE Return(t)
        BY <3>3, SMT DEF Return, Idle, TypeOK
      <3> QED
        BY <1>3, <3>1, <3>2, <3>3
    <2> QED
      BY <2>1, <2>2, PublishedKept DEF TypeOK
  <1>4. ASSUME NEW t \in Threads, Serve(t), ~Return(t)
        PROVE  TypeOK' /\ Published'
    <2>0. server \in Programs
      BY DEF TypeOK
    <2>1. thread' \in [Threads -> [at : 0 .. 5, loads : 0 .. 3,
                                   code : Codes \cup {0}, live : BOOLEAN]]
      <3>1. Working(t)
        <4>1. \/ At(t, "ready") \/ At(t, "load") \/ At(t, "tok") \/ At(t, "lock")
              \/ At(t, "run") \/ Session(t)
          BY <1>4 DEF Serve, Ready, LoadStarts, LoadFills, LoadFails, Tokenise, Lock, Run
        <4>2. Session(t) => \E part : At(t, part)
          BY Zenon DEF Session
        <4> QED
          BY <4>1, <4>2, Places, Zenon
      <3>2. thread[t].loads < Len(Parts(server)) => thread[t].loads + 1 \in 0 .. 3
        BY <2>0, Places, Names, SMT
      <3>3. {200, 400, 500, 503} \subseteq Codes
        BY DEF Codes
      <3>4. CASE Ready(t) \/ LoadFails(t) \/ Tokenise(t) \/ Lock(t)
        BY <3>1, <3>3, <3>4, ThreadTypes DEF Ready, LoadFails, Tokenise, Lock
      <3>5. CASE Session(t) \/ Run(t)
        BY <3>1, <3>3, <3>5, ThreadTypes DEF Session, Run
      <3>6. CASE LoadStarts(t)
        <4>1. 1 \in 0 .. 3
          BY SMT
        <4> QED
          BY <3>1, <3>6, <4>1, ThreadTypes DEF LoadStarts
      <3>7. CASE LoadFills(t)
        <4>1. CASE thread[t].loads < Len(Parts(server))
          BY <3>2, <3>7, <4>1, ThreadTypes DEF LoadFills
        <4>2. CASE ~(thread[t].loads < Len(Parts(server)))
          BY <3>1, <3>7, <4>2, ThreadTypes DEF LoadFills
        <4> QED
          BY <4>1, <4>2
      <3> QED
        BY <1>4, <3>4, <3>5, <3>6, <3>7 DEF Serve
    <2>2. CASE LoadFills(t)
      <3>1. server \in {"parler", "plain"}
        BY <2>2, <2>0, Shape, SMT DEF LoadFills, At
      <3>2. Parts(server)[thread[t].loads] \in Complete(server)
        BY <2>0, <2>2, Names DEF LoadFills, RequestInv
      <3>3. warm' \in BOOLEAN
        BY <2>2 DEF LoadFills, TypeOK
      <3> QED
        BY <2>1, <2>2, <3>1, <3>2, <3>3, PublishedKept DEF LoadFills, TypeOK
    <2>3. CASE Session(t)
      <3>1. PICK part \in {"encoder", "joint"} :
                /\ At(t, part) /\ have' \in {have, have \cup {part}}
                /\ lock' \in {lock, Free}
                /\ UNCHANGED <<server, boot, open, weights, warm, asked>>
        BY <2>3 DEF Session, Answer
      <3>2. server = "stt"
        BY <2>0, <3>1, Shape, SMT DEF At
      <3> QED
        BY <2>0, <2>1, <3>1, <3>2, Names, PublishedKept DEF TypeOK
    <2>4. CASE ~LoadFills(t) /\ ~Session(t)
      <3>1. /\ UNCHANGED <<server, boot, open, have, weights, asked>>
            /\ warm' = warm \/ warm' = TRUE
            /\ lock' = lock \/ lock' = Free \/ lock' = t
        BY <1>4, <2>4, Zenon
           DEF Serve, Ready, LoadStarts, LoadFails, Tokenise, Lock, Run, Answer
      <3>2. warm' \in BOOLEAN /\ (warm => warm') /\ lock' \in Threads \cup {Free}
        <4>1. CASE warm' = warm
          BY <3>1, <4>1 DEF TypeOK
        <4>2. CASE warm' = TRUE
          BY <3>1, <4>2 DEF TypeOK
        <4> QED
          BY <3>1, <4>1, <4>2
      <3> QED
        BY <2>1, <3>1, <3>2, PublishedKept DEF TypeOK
    <2> QED
      BY <2>2, <2>3, <2>4
  <1> QED
    BY <1>1, <1>2, <1>3, <1>4 DEF Next, Serve

-----------------------------------------------------------------------------
LEMMA InvInit == Init => ServicesInv
  <1> SUFFICES ASSUME Init PROVE ServicesInv
    OBVIOUS
  <1>1. server \in Programs
    BY ServicesAssumption DEF Init
  <1>2. TypeOK /\ Published
    <2>1. thread \in [Threads -> [at : 0 .. 5, loads : 0 .. 3,
                                  code : Codes \cup {0}, live : BOOLEAN]]
      BY SMT DEF Init, Idle, Codes
    <2>2. asked \in 0 .. MaxRequests
      BY ServicesAssumption, SMT DEF Init
    <2>3. Published
      <3>1. boot = 0 /\ have = {} /\ Len(Startup) \in 0 .. 4
        BY <1>1, Steps DEF Init
      <3>2. boot <= Len(Startup) /\ \A step : ~Booted(step)
        BY <3>1, SMT DEF Booted
      <3> QED
        BY <3>1, <3>2 DEF Published
    <2>4. boot \in 0 .. 4
      BY SMT DEF Init
    <2> QED
      BY <1>1, <2>1, <2>2, <2>3, <2>4, ServicesAssumption DEF Init, TypeOK, Weights
  <1>3. ASSUME NEW t \in Threads
        PROVE  RequestInv(t)
    BY <1>1, ServicesAssumption, Shape, SMT
       DEF Init, RequestInv, Idle, Holding, Working, Knows
  <1> QED
    BY <1>2, <1>3 DEF ServicesInv

LEMMA InvStep == ServicesInv /\ [Next]_vars => ServicesInv'
  <1> SUFFICES ASSUME ServicesInv, [Next]_vars PROVE ServicesInv'
    OBVIOUS
  <1>1. CASE Next
    BY <1>1, RequestsKept, TypesKept DEF ServicesInv
  <1>2. CASE UNCHANGED vars
    <2>1. \A t \in Threads : RequestInv(t)'
      BY <1>2, OthersKeep DEF vars
    <2> QED
      BY <1>2, <2>1, PublishedKept DEF vars, ServicesInv, TypeOK
  <1> QED
    BY <1>1, <1>2

\* The invariant of the requests under way holds of every behaviour.
THEOREM ServicesInvariant == Spec => []ServicesInv
  BY InvInit, InvStep, PTL DEF Spec

\* Whoever holds the lock is at work under it.
THEOREM LockHeld == Spec => []LockIsHeld
  <1>1. ServicesInv => LockIsHeld
    BY DEF ServicesInv, RequestInv, LockIsHeld
  <1> QED
    BY <1>1, ServicesInvariant, PTL

\* One generation at a time: "run" comes behind the lock in every program but
\* tts_server's.
THEOREM Exclusion == Spec => []OneAtATime
  <1>1. ServicesInv => OneAtATime
    <2> SUFFICES ASSUME ServicesInv, server # "plain", NEW t \in Threads, NEW u \in Threads,
                        At(t, "run"), At(u, "run")
                 PROVE  t = u
      BY DEF OneAtATime
    <2>1. Holding(t) /\ Holding(u)
      BY Places DEF Holding
    <2> QED
      BY <2>1 DEF ServicesInv, RequestInv
  <1> QED
    BY <1>1, ServicesInvariant, PTL

\* What the servers check before they serve, they have checked when a request
\* reaches the model: it is there since a publication that comes behind the checks.
THEOREM Served == Spec => []ServedWell
  <1>1. ServicesInv => ServedWell
    <2> SUFFICES ASSUME ServicesInv, NEW t \in Threads, At(t, "run")
                 PROVE  /\ server # "parler" => Complete(server) \subseteq have
                        /\ server = "fast" => weights \notin {"unknown", "poor"}
                        /\ server = "f5" => weights \in {"agreeing", "whole"}
                        /\ server = "omni" => warm
      BY DEF ServedWell
    <2>1. server \in Programs /\ RequestInv(t) /\ Published
      BY DEF ServicesInv, TypeOK
    <2>2. Working(t) /\ Knows(t) /\ thread[t].at = Len(Program)
      BY <2>1, Places, Shape, SMT DEF At, RequestInv
    <2>3. CASE server \in {"omni", "fast", "f5", "plain"}
      <3>1. Past(t, "ready") \/ Past(t, "load")
        BY <2>1, <2>2, <2>3, Shape, SMT DEF Past
      <3>2. "model" \in have /\ Complete(server) \subseteq have
        BY <2>1, <2>2, <2>3, <3>1, Names DEF Knows
      <3>3. CASE server = "plain"
        BY <3>2, <3>3
      <3>4. CASE server # "plain"
        <4>1. Booted("publish")
          BY <2>1, <2>3, <3>2, <3>4 DEF Published
        <4>2. 3 \in 1 .. boot /\ 3 \in DOMAIN Startup
          <5>1. PICK i \in 1 .. boot : Startup[i] = "publish"
            BY <4>1 DEF Booted
          <5>2. i \in DOMAIN Startup
            BY <2>1, <5>1, Steps, SMT DEF Published, ServicesInv, TypeOK
          <5>3. i = 3
            BY <2>1, <2>3, <3>4, <5>1, <5>2, Steps
          <5> QED
            BY <5>1, <5>2, <5>3
        <4>3. 2 \in 1 .. boot /\ 2 \in DOMAIN Startup
          BY <2>1, <4>2, Steps, SMT DEF ServicesInv, TypeOK
        <4>4. CASE server \in {"fast", "f5"}
          <5>1. Booted("compare")
            BY <2>1, <4>3, <4>4, Steps DEF Booted
          <5> QED
            BY <2>1, <3>2, <4>4, <5>1 DEF Published, Accepts, FastAccepts, F5Accepts
        <4>5. CASE server = "omni"
          <5>1. Booted("warm")
            BY <2>1, <4>3, <4>5, Steps DEF Booted
          <5> QED
            BY <2>1, <3>2, <4>5, <5>1 DEF Published
        <4> QED
          BY <2>3, <3>4, <4>4, <4>5
      <3> QED
        BY <3>3, <3>4
    <2>4. CASE server = "stt"
      <3>1. Past(t, "encoder") /\ Past(t, "joint")
        BY <2>1, <2>2, <2>4, Shape, SMT DEF Past
      <3> QED
        BY <2>1, <2>2, <2>4, <3>1, Names DEF Knows
    <2> QED
      BY <2>1, <2>3, <2>4 DEF Programs
  <1> QED
    BY <1>1, ServicesInvariant, PTL

-----------------------------------------------------------------------------
(* Every server implements SpeechService.                                  *)

\* The four places a request can be at, and how its client sees it there.
Standings ==
    \A t \in Threads :
        /\ thread[t].at = 0 => Standing(t) = "none"
        /\ Working(t) /\ ~Computing(t) => Standing(t) = "waiting"
        /\ Working(t) /\ Computing(t) => Standing(t) = "computing"
        /\ thread[t].at > Len(Program) =>
              Standing(t) = IF thread[t].code = 200 THEN "served" ELSE "refused"
        /\ Standing(t) = "computing" => Computing(t) /\ Working(t)

LEMMA StandingsHold == ServicesInv => Standings
  <1> SUFFICES ASSUME ServicesInv, NEW t \in Threads
               PROVE  /\ thread[t].at = 0 => Standing(t) = "none"
                      /\ Working(t) /\ ~Computing(t) => Standing(t) = "waiting"
                      /\ Working(t) /\ Computing(t) => Standing(t) = "computing"
                      /\ thread[t].at > Len(Program) =>
                            Standing(t) = IF thread[t].code = 200 THEN "served" ELSE "refused"
                      /\ Standing(t) = "computing" => Computing(t) /\ Working(t)
    BY DEF Standings
  <1>1. RequestInv(t)
    BY DEF ServicesInv
  <1>2. Computing(t) => Working(t)
    BY <1>1, Places DEF Computing, RequestInv, Holding
  <1>3. Working(t) => thread[t].at \in 1 .. Len(Program) /\ thread[t].code # 200
    BY <1>1, Places, LastStep, SMT DEF RequestInv
  <1>4. /\ thread[t].at \in 1 .. Len(Program) => Working(t) /\ ~(thread[t].at > Len(Program))
                                                           /\ thread[t].at # 0
        /\ thread[t].at = 0 => ~(thread[t].at > Len(Program))
        /\ thread[t].at = 0 \/ thread[t].at > Len(Program) => ~Working(t)
    BY Places, LastStep, SMT
  <1>5. thread[t].at = 0 => thread[t].code # 200
    BY <1>1, LastStep, SMT DEF RequestInv
  <1> QED
    BY <1>2, <1>3, <1>4, <1>5 DEF Standing

LEMMA StandingsNext == ServicesInv' => Standings'
  BY StandingsHold, PTL

Same(t, a, b) == Standing(t) = a /\ Standing(t)' = b

\* No client sees anything, but the model may be there now.
LEMMA Unseen ==
    ASSUME server' = server, \A u \in Threads : Standing(u)' = Standing(u), Whole => Whole'
    PROVE  [Contract!Next]_(Contract!vars)
  <1>1. [u \in Threads |-> Standing(u)]' = [u \in Threads |-> Standing(u)]
    OBVIOUS
  <1>2. CASE Whole' = Whole
    BY <1>1, <1>2 DEF Contract!vars
  <1>3. CASE ~Whole /\ Whole'
    BY <1>1, <1>3 DEF Contract!Next, Contract!GetReady
  <1> QED
    BY <1>2, <1>3 DEF Whole

\* The steps of SpeechService, in terms of one request and the model.
LEMMA Allowed ==
    ASSUME Standings, NEW t \in Threads, server' = server,
           \A u \in Threads : u # t => Standing(u)' = Standing(u),
           \/ Standing(t)' = Standing(t) /\ (Whole => Whole')
           \/ /\ Same(t, "none", "waiting") \/ Same(t, "none", "refused")
              /\ Whole' = Whole
           \/ /\ Same(t, "waiting", "computing") /\ (Whole => Whole')
              /\ server # "plain" => \A u \in Threads : ~Computing(u)
           \/ Same(t, "computing", "served") /\ Whole /\ Whole' = Whole
           \/ /\ Same(t, "waiting", "refused") \/ Same(t, "computing", "refused")
              /\ Whole' = Whole
           \/ /\ Same(t, "served", "none") \/ Same(t, "refused", "none")
              /\ Whole' = Whole
    PROVE  [Contract!Next]_(Contract!vars)
  <1> DEFINE req == [u \in Threads |-> Standing(u)]
             next == [u \in Threads |-> Standing(u)']
  <1>0. (server # "plain")' = (server # "plain")
    OBVIOUS
  <1>1. next = [req EXCEPT ![t] = Standing(t)'] /\ req[t] = Standing(t)
    OBVIOUS
  <1>2. CASE Standing(t)' = Standing(t) /\ (Whole => Whole')
    BY <1>2, Unseen
  <1>3. CASE /\ Same(t, "none", "waiting") \/ Same(t, "none", "refused")
             /\ Whole' = Whole
    <2>1. Contract!Ask(t)
      BY <1>0, <1>1, <1>3 DEF Contract!Ask, Contract!Becomes, Same
    <2> QED
      BY <2>1 DEF Contract!Next
  <1>4. CASE /\ Same(t, "waiting", "computing") /\ (Whole => Whole')
             /\ server # "plain" => \A u \in Threads : ~Computing(u)
    <2>1. server # "plain" => \A u \in Threads : req[u] # "computing"
      BY <1>4 DEF Standings
    <2>2. Contract!Compute(t)
      <3>1. Whole' \in {Whole, TRUE}
        BY <1>4 DEF Whole
      <3>2. req[t] = "waiting" /\ next = [req EXCEPT ![t] = "computing"]
        BY <1>1, <1>4 DEF Same
      <3> QED
        BY <1>0, <2>1, <3>1, <3>2, Zenon DEF Contract!Compute, Contract!Becomes
    <2> QED
      BY <2>2 DEF Contract!Next
  <1>5. CASE Same(t, "computing", "served") /\ Whole /\ Whole' = Whole
    <2>1. Contract!Serve(t)
      BY <1>0, <1>1, <1>5 DEF Contract!Serve, Contract!Becomes, Same
    <2> QED
      BY <2>1 DEF Contract!Next
  <1>6. CASE /\ Same(t, "waiting", "refused") \/ Same(t, "computing", "refused")
             /\ Whole' = Whole
    <2>1. Contract!Refuse(t)
      BY <1>0, <1>1, <1>6 DEF Contract!Refuse, Contract!Becomes, Same
    <2> QED
      BY <2>1 DEF Contract!Next
  <1>7. CASE /\ Same(t, "served", "none") \/ Same(t, "refused", "none")
             /\ Whole' = Whole
    <2>1. Contract!Collect(t)
      BY <1>0, <1>1, <1>7 DEF Contract!Collect, Contract!Becomes, Contract!Outcomes, Same
    <2> QED
      BY <2>1 DEF Contract!Next
  <1> QED
    BY <1>2, <1>3, <1>4, <1>5, <1>6, <1>7

LEMMA Unmoved ==
    ASSUME NEW u \in Threads, server' = server, thread'[u] = thread[u], lock' = u <=> lock = u
    PROVE  Standing(u)' = Standing(u)
  <1>1. Program' = Program
    BY DEF Program
  <1> QED
    BY <1>1 DEF Standing, Computing, Working, At

\* What an answer looks like from outside.
LEMMA AnswerSeen ==
    ASSUME ServicesInv, Standings, Standings', NEW t \in Threads, Working(t),
           NEW code \in Codes, Answer(t, code), server' = server, have' = have,
           code = 200 => Computing(t) /\ Whole
    PROVE  [Contract!Next]_(Contract!vars)
  <1>1. \A u \in Threads : u # t => Standing(u)' = Standing(u)
    BY ServicesAssumption, Unmoved DEF Answer, ServicesInv, TypeOK
  <1>2. thread'[t].at > Len(Program)' /\ thread'[t].code = code
    <2>1. Program' = Program
      BY DEF Program
    <2>2. thread'[t].at = Len(Program) + 1 /\ thread'[t].code = code
      BY SMT DEF Answer, ServicesInv, TypeOK
    <2> QED
      BY <2>1, <2>2, LastStep, SMT
  <1>3. Standing(t)' = IF code = 200 THEN "served" ELSE "refused"
    BY <1>2 DEF Standings
  <1>4. Standing(t) = IF Computing(t) THEN "computing" ELSE "waiting"
    BY DEF Standings
  <1>5. Whole' = Whole
    BY DEF Whole
  <1> QED
    BY <1>1, <1>3, <1>4, <1>5, Allowed DEF Same

\* ... and a move.
LEMMA MoveSeen ==
    ASSUME ServicesInv, Standings, Standings', NEW t \in Threads, Working(t), Working(t)',
           server' = server, have \subseteq have',
           \A u \in Threads : u # t => thread'[u] = thread[u] /\ (lock' = u <=> lock = u),
           \/ Computing(t)' = Computing(t)
           \/ /\ ~Computing(t) /\ Computing(t)'
              /\ server # "plain" => \A u \in Threads : ~Computing(u)
    PROVE  [Contract!Next]_(Contract!vars)
  <1>1. \A u \in Threads : u # t => Standing(u)' = Standing(u)
    BY Unmoved
  <1>2. Whole => Whole'
    BY DEF Whole
  <1>3. /\ Standing(t) = IF Computing(t) THEN "computing" ELSE "waiting"
        /\ Standing(t)' = IF Computing(t)' THEN "computing" ELSE "waiting"
    BY DEF Standings
  <1> QED
    BY <1>1, <1>2, <1>3, Allowed DEF Same

LEMMA StepSeen ==
    ASSUME ServicesInv, Standings, Standings', NEW t \in Threads, Working(t), ~At(t, "run"),
           Step(t), server' = server, have \subseteq have',
           lock' = lock \/ (lock = Free /\ lock' = t /\ server # "plain")
    PROVE  [Contract!Next]_(Contract!vars)
  <1>1. Program' = Program
    BY DEF Program
  <1>2. /\ thread'[t].at = thread[t].at + 1
        /\ \A u \in Threads : u # t => thread'[u] = thread[u]
    BY SMT DEF Step, ServicesInv, TypeOK
  <1>3. Working(t)'
    BY <1>1, <1>2, Places, Shape, SMT DEF Working, At
  <1>4. \A u \in Threads : u # t => (lock' = u <=> lock = u)
    BY ServicesAssumption
  <1>5. CASE lock' = lock
    <2>1. Computing(t) <=> lock = t
      BY DEF Computing
    <2>2. Computing(t)' => lock = t \/ server = "plain"
      BY <1>5 DEF Computing
    <2>3. lock = t => Computing(t)'
      BY <1>5 DEF Computing
    <2>4. CASE lock = t
      <3>1. Computing(t)' = Computing(t)
        BY <2>1, <2>3, <2>4 DEF Computing
      <3> QED
        BY <1>2, <1>3, <1>4, <3>1, MoveSeen
    <2>5. CASE lock # t /\ Computing(t)'
      BY <1>2, <1>3, <1>4, <2>1, <2>2, <2>5, MoveSeen
    <2>6. CASE lock # t /\ ~Computing(t)'
      <3>1. Computing(t)' = Computing(t)
        BY <2>1, <2>6 DEF Computing
      <3> QED
        BY <1>2, <1>3, <1>4, <3>1, MoveSeen
    <2> QED
      BY <2>4, <2>5, <2>6
  <1>6. CASE lock = Free /\ lock' = t /\ server # "plain"
    <2>1. (\A u \in Threads : ~Computing(u)) /\ Computing(t)'
      BY <1>6, ServicesAssumption DEF Computing
    <2> QED
      BY <1>2, <1>3, <1>4, <2>1, MoveSeen
  <1> QED
    BY <1>5, <1>6

\* A lazy load that goes on.
LEMMA LoadSeen ==
    ASSUME ServicesInv, Standings, Standings', NEW t \in Threads, Working(t),
           NEW n, thread' = [thread EXCEPT ![t].loads = n],
           server' = server, lock' = lock, have \subseteq have'
    PROVE  [Contract!Next]_(Contract!vars)
  <1>1. \A u \in Threads : thread'[u].at = thread[u].at /\ (u # t => thread'[u] = thread[u])
    BY SMT DEF ServicesInv, TypeOK
  <1>2. Program' = Program
    BY DEF Program
  <1>3. Working(t)' /\ Computing(t)' = Computing(t)
    BY <1>1, <1>2 DEF Working, Computing, At
  <1> QED
    BY <1>1, <1>3, MoveSeen

LEMMA StepImplements ==
    ASSUME ServicesInv, ServicesInv', Next
    PROVE  [Contract!Next]_(Contract!vars)
  <1>0. Standings /\ Standings' /\ server \in Programs
    BY StandingsHold, StandingsNext DEF ServicesInv, TypeOK
  <1>1. CASE Boot
    <2>1. UNCHANGED <<server, thread, lock>> /\ have \subseteq have'
      BY <1>1 DEF Boot, BootStep, Opens
    <2>2. (Whole => Whole') /\ \A u \in Threads : Standing(u)' = Standing(u)
      BY <2>1, Unmoved DEF Whole
    <2> QED
      BY <2>1, <2>2, Unseen
  <1>2. CASE Done
    BY <1>2, Unmoved, Unseen DEF Done, vars, Whole
  <1>3. ASSUME NEW t \in Threads, Request(t)
        PROVE  [Contract!Next]_(Contract!vars)
    <2>1. /\ UNCHANGED <<server, have, lock>> /\ thread[t].at = 0
          /\ \A u \in Threads : u # t => thread'[u] = thread[u]
      BY <1>3, SMT DEF Request, ServicesInv, TypeOK
    <2>2. PICK taken \in {Taken(1, 0), Taken(Len(Program) + 1, 400)} : thread'[t] = taken
      <3>1. PICK taken \in {Taken(1, 0), Taken(Len(Program) + 1, 400)} :
                thread' = [thread EXCEPT ![t] = taken]
        BY <1>3 DEF Request
      <3> QED
        BY <3>1, ZenonT(30) DEF ServicesInv, TypeOK
    <2>3. Program' = Program
      BY <2>1 DEF Program
    <2>4. Standing(t) = "none" /\ Whole' = Whole
      BY <1>0, <2>1 DEF Standings, Whole
    <2>5. \A u \in Threads : u # t => Standing(u)' = Standing(u)
      BY <2>1, Unmoved
    <2>6. CASE taken = Taken(1, 0)
      <3>1. thread'[t].at = 1
        BY <2>2, <2>6, SMT DEF Taken
      <3>2. lock # t
        BY <2>1, Places, SMT DEF ServicesInv, RequestInv, Holding
      <3>3. Working(t)' /\ ~Computing(t)'
        BY <1>0, <2>1, <2>3, <3>1, <3>2, Shape, SMT DEF Working, Computing, At
      <3> QED
        BY <1>0, <2>1, <2>4, <2>5, <3>3, Allowed DEF Standings, Same
    <2>7. CASE taken = Taken(Len(Program) + 1, 400)
      <3>1. thread'[t].at = Len(Program) + 1 /\ thread'[t].code = 400
        BY <2>2, <2>7, SMT DEF Taken
      <3>2. thread'[t].at > Len(Program)' /\ thread'[t].code # 200
        BY <2>3, <3>1, LastStep, SMT
      <3>3. Standing(t)' = "refused"
        BY <1>0, <3>2 DEF Standings
      <3> QED
        BY <1>0, <2>1, <2>4, <2>5, <3>3, Allowed DEF Same
    <2> QED
      BY <2>6, <2>7
  <1>4. ASSUME NEW t \in Threads, Leave(t)
        PROVE  [Contract!Next]_(Contract!vars)
    <2>1. /\ UNCHANGED <<server, have, lock>>
          /\ \A u \in Threads : thread'[u].at = thread[u].at /\ thread'[u].code = thread[u].code
      BY <1>4, SMT DEF Leave, ServicesInv, TypeOK
    <2>2. Program' = Program /\ (Whole => Whole')
      BY <2>1 DEF Program, Whole
    <2>3. \A u \in Threads : Standing(u)' = Standing(u)
      BY <2>1, <2>2 DEF Standing, Computing, Working, At
    <2> QED
      BY <2>1, <2>2, <2>3, Unseen
  <1>5. ASSUME NEW t \in Threads, Return(t)
        PROVE  [Contract!Next]_(Contract!vars)
    <2>1. /\ UNCHANGED <<server, have, lock>> /\ thread[t].at > Len(Program)
          /\ thread'[t].at = 0 /\ \A u \in Threads : u # t => thread'[u] = thread[u]
      BY <1>5, SMT DEF Return, Idle, ServicesInv, TypeOK
    <2>2. Standing(t)' = "none" /\ Standing(t) \in {"served", "refused"} /\ Whole' = Whole
      BY <1>0, <2>1 DEF Standings, Whole
    <2>3. \A u \in Threads : u # t => Standing(u)' = Standing(u)
      BY <2>1, Unmoved
    <2> QED
      BY <1>0, <2>1, <2>2, <2>3, Allowed DEF Same
  <1>6. ASSUME NEW t \in Threads, Serve(t), ~Return(t)
        PROVE  [Contract!Next]_(Contract!vars)
    <2>0. Codes = {200, 400, 500, 503}
      BY DEF Codes
    <2>1. CASE Ready(t) \/ Tokenise(t)
      <3>1. Working(t) /\ ~At(t, "run") /\ server' = server /\ have' = have
        BY <2>1, Places, OneStep DEF Ready, Tokenise
      <3>2. CASE Step(t) /\ lock' = lock
        BY <1>0, <3>1, <3>2, StepSeen
      <3>3. CASE \E code \in {500, 503} : Answer(t, code)
        BY <1>0, <2>0, <3>1, <3>3, AnswerSeen
      <3> QED
        BY <2>1, <3>2, <3>3 DEF Ready, Tokenise
    <2>2. CASE LoadStarts(t) \/ LoadFills(t)
      <3>1. Working(t) /\ ~At(t, "run") /\ server' = server /\ lock' = lock
        BY <2>2, Places, OneStep DEF LoadStarts, LoadFills
      <3>2. have \subseteq have'
        BY <2>2 DEF LoadStarts, LoadFills
      <3>3. CASE Step(t)
        BY <1>0, <3>1, <3>2, <3>3, StepSeen
      <3>4. CASE \E n \in Int : thread' = [thread EXCEPT ![t].loads = n]
        BY <1>0, <3>1, <3>2, <3>4, LoadSeen
      <3>5. 1 \in Int /\ thread[t].loads + 1 \in Int
        BY Places, SMT
      <3>6. Step(t) \/ \E n \in {1, thread[t].loads + 1} : thread' = [thread EXCEPT ![t].loads = n]
        BY <2>2 DEF LoadStarts, LoadFills
      <3> QED
        BY <3>3, <3>4, <3>5, <3>6
    <2>3. CASE LoadFails(t)
      BY <1>0, <2>0, <2>3, Places, AnswerSeen DEF LoadFails
    <2>4. CASE Lock(t)
      BY <1>0, <2>4, Places, OneStep, StepSeen DEF Lock
    <2>5. CASE Session(t)
      <3>1. PICK part \in {"encoder", "joint"} :
                /\ At(t, part)
                /\ \/ have' = have \cup {part} /\ Step(t) /\ lock' = lock
                   \/ /\ part \notin have /\ have' = have
                      /\ \E code \in {400, 500} : Answer(t, code)
                /\ UNCHANGED <<server, boot, open, weights, warm, asked>>
        BY <2>5 DEF Session
      <3>2. Working(t) /\ ~At(t, "run")
        BY <3>1, Places, OneStep
      <3>3. CASE have' = have \cup {part} /\ Step(t) /\ lock' = lock
        BY <1>0, <3>1, <3>2, <3>3, StepSeen
      <3>4. CASE have' = have /\ \E code \in {400, 500} : Answer(t, code)
        BY <1>0, <2>0, <3>1, <3>2, <3>4, AnswerSeen
      <3> QED
        BY <3>1, <3>3, <3>4
    <2>6. CASE Run(t)
      <3>1. Working(t) /\ server' = server /\ have' = have
        BY <2>6, Places DEF Run
      <3>2. Computing(t)
        BY <2>6, <3>1, Places DEF Run, Computing, ServicesInv, RequestInv, Holding
      <3>3. CASE Answer(t, 500)
        BY <1>0, <2>0, <3>1, <3>3, AnswerSeen
      <3>4. CASE Whole /\ Answer(t, 200)
        BY <1>0, <2>0, <3>1, <3>2, <3>4, AnswerSeen
      <3> QED
        BY <2>6, <3>3, <3>4 DEF Run, Whole
    <2> QED
      BY <1>6, <2>1, <2>2, <2>3, <2>4, <2>5, <2>6 DEF Serve
  <1> QED
    BY <1>1, <1>2, <1>3, <1>4, <1>5, <1>6 DEF Next, Serve

LEMMA InitImplements == Init => Contract!Init
  <1> SUFFICES ASSUME Init PROVE Contract!Init
    OBVIOUS
  <1>1. ServicesInv /\ server \in Programs
    BY InvInit DEF ServicesInv, TypeOK
  <1>2. ~Whole
    BY <1>1, Names DEF Init, Whole
  <1>3. \A t \in Threads : thread[t].at = 0
    BY DEF Init, Idle
  <1>4. \A t \in Threads : Standing(t) = "none"
    BY <1>1, <1>3, StandingsHold DEF Standings
  <1> QED
    BY <1>2, <1>4 DEF Contract!Init, Whole

\* Whichever server runs, its clients see one that keeps the contract.
THEOREM Implements == Spec => KeepsContract
  <1>1. ServicesInv /\ ServicesInv' /\ [Next]_vars => [Contract!Next]_(Contract!vars)
    <2> SUFFICES ASSUME ServicesInv, ServicesInv', [Next]_vars
                 PROVE  [Contract!Next]_(Contract!vars)
      OBVIOUS
    <2>1. CASE UNCHANGED vars
      BY <2>1, Unmoved, Unseen DEF vars, Whole
    <2> QED
      BY <2>1, StepImplements
  <1> QED
    BY <1>1, InitImplements, ServicesInvariant, PTL DEF Spec, KeepsContract, Contract!Spec
=============================================================================
