------------------------- MODULE SimplePirateProofs -------------------------
(***************************************************************************)
(* The queue of the Simple Pirate has only idle workers on it and stays    *)
(* within its bounds, and no late reply is taken for another, for any      *)
(* numbers of clients, workers and tries.                                  *)
(***************************************************************************)
EXTENDS SimplePirate, QueueLemmas, FiniteSetTheorems

\* A worker is in one place at most: queued, with a message to the queue, with
\* one from the queue, or at work; and it has a job only while at work.
WorkerInOnePlace(w) ==
    /\ wpc[w] # "waiting" => w \notin Range(worker_queue)
    /\ wpc[w] # "waiting" \/ w \in Range(worker_queue) =>
           toQueue[w] = << >> /\ toWorker[w] = << >>
    /\ toQueue[w] # << >> => toWorker[w] = << >>
    /\ Len(toQueue[w]) <= 1
    /\ Len(toWorker[w]) <= 1
    /\ IF wpc[w] = "working" THEN job[w] \in Message ELSE job[w] = NoJob

OnePlace == \A w \in Worker : WorkerInOnePlace(w)

\* The request or reply that worker w has, or that is on its way to or from it.
Held(w) == (Range(toQueue[w]) \cup Range(toWorker[w]) \cup {job[w]}) \ {NoJob}

\* The try that client c waits for, as the queue and the workers know it.
Try(c) == <<c, socket[c], sequence[c]>>

\* What is not that try has come over a socket that is closed.
Outdated(c, m) == m[1] = c => m[2] < socket[c] \/ m = Try(c)

\* The try of a client is in one place at most: on its way to the queue, at the
\* frontend, with one of the workers, or answered; a client that is not polling
\* has none on its own side, and one that is about to send none anywhere.
TryInOnePlace(c) ==
    /\ cpc[c] # "ended" => retries_left[c] >= 1
    /\ sent[c] \in {Nothing, sequence[c]}
    /\ inbox[c] \in {Nothing, sequence[c]}
    /\ cpc[c] # "polling" \/ inbox[c] # Nothing => sent[c] = Nothing
    /\ cpc[c] # "polling" => inbox[c] = Nothing
    /\ \A m \in frontend : Outdated(c, m)
    /\ \A w \in Worker : \A m \in Held(w) : Outdated(c, m)
    /\ cpc[c] = "sending" \/ sent[c] # Nothing \/ inbox[c] # Nothing =>
           Try(c) \notin frontend /\ \A w \in Worker : Try(c) \notin Held(w)
    /\ Try(c) \in frontend => \A w \in Worker : Try(c) \notin Held(w)
    /\ \A v, w \in Worker : Try(c) \in Held(v) /\ Try(c) \in Held(w) => v = w

TriesInOnePlace == \A c \in Client : TryInOnePlace(c)

\* Main goes on to the frontend with a request and a worker there.
FrontThere == qpc = "frontend" /\ revents => frontend # {} /\ worker_queue # << >>

FewRun == Cardinality(Running) <= MaxRunning

\* What every step keeps.  OwnReplies is part of TriesInOnePlace: that a reply
\* over the current socket is to the current request takes that there is no
\* other message of that socket once the client goes on to its next request.
IInv ==
    /\ TypeOK
    /\ IsInjective(worker_queue)
    /\ OnePlace
    /\ TriesInOnePlace
    /\ FrontThere
    /\ FewRun

LEMMA MessageIsNotEmpty == ASSUME NEW m \in Message PROVE m # << >>
  BY DEF Message

LEMMA RunningIsFinite ==
    /\ IsFiniteSet(Running)
    /\ Cardinality(Running) \in Nat
  <1>1. Running \in SUBSET Worker
    BY DEF Running
  <1> QED
    BY <1>1, FS_Subset, FS_CardinalityType, LimitsAssumption

LEMMA InitIInv == Init => IInv
  <1> SUFFICES ASSUME Init PROVE IInv
    OBVIOUS
  <1>1. /\ << >> \in Seq(Worker) /\ << >> \in Seq(Message)
        /\ << >> \in Seq({READY} \cup Message)
    OBVIOUS
  <1>2. TypeOK
    <2>1. /\ toQueue \in [Worker -> Seq({READY} \cup Message)]
          /\ toWorker \in [Worker -> Seq(Message)]
          /\ worker_queue \in Seq(Worker)
      BY <1>1 DEF Init
    <2>2. /\ sequence \in [Client -> 0 .. MaxRequests]
          /\ retries_left \in [Client -> 0 .. retries_allowed]
          /\ cycles \in [Worker -> 0 .. CRASH_FREE + 1]
      BY LimitsAssumption DEF Init
    <2>3. /\ cpc \in [Client -> {"sending", "polling", "ended"}]
          /\ socket \in [Client -> Nat \ {0}]
          /\ sent \in [Client -> Nat]
          /\ inbox \in [Client -> Nat]
      BY DEF Init, Nothing
    <2>4. /\ wpc \in [Worker -> {"new", "waiting", "working", "crashed"}]
          /\ job \in [Worker -> Message \cup {NoJob}]
      BY DEF Init
    <2>5. qpc \in {"poll", "frontend"} /\ revents \in BOOLEAN /\ frontend \subseteq Message
      BY DEF Init
    <2> QED
      BY <2>1, <2>2, <2>3, <2>4, <2>5 DEF TypeOK
  <1>3. IsInjective(worker_queue) /\ OnePlace
    BY DEF Init, IsInjective, OnePlace, WorkerInOnePlace, Range
  <1>4. \A w \in Worker : Held(w) = {}
    BY DEF Init, Held, Range
  <1>5. TriesInOnePlace
    BY <1>4, LimitsAssumption DEF Init, TriesInOnePlace, TryInOnePlace, Nothing
  <1>6. FrontThere
    BY DEF Init, FrontThere
  <1>7. FewRun
    <2>1. Running = {}
      BY DEF Init, Running
    <2> QED
      BY <2>1, FS_EmptySet, LimitsAssumption DEF FewRun
  <1> QED
    BY <1>2, <1>3, <1>5, <1>6, <1>7 DEF IInv

----------------------------------------------------------------------------
(***************************************************************************)
(* What a worker holds.                                                    *)
(***************************************************************************)

\* It holds one message at most.
LEMMA HeldIsOne ==
    ASSUME TypeOK, OnePlace, NEW w \in Worker
    PROVE  /\ Held(w) \subseteq Message
           /\ \A m, n \in Held(w) : m = n
           /\ toQueue[w] # << >> => Held(w) = {Head(toQueue[w])} \ {NoJob}
           /\ toWorker[w] # << >> => Held(w) = {Head(toWorker[w])}
           /\ wpc[w] = "working" => Held(w) = {job[w]}
           /\ wpc[w] # "working" /\ toQueue[w] = << >> /\ toWorker[w] = << >> => Held(w) = {}
  <1>1. /\ toQueue[w] \in Seq({READY} \cup Message)
        /\ toWorker[w] \in Seq(Message)
        /\ WorkerInOnePlace(w)
    BY DEF TypeOK, OnePlace
  <1>2. \A S : \A q \in Seq(S) : Len(q) <= 1 /\ q # << >> => Range(q) = {Head(q)} /\ Head(q) \in S
    <2>1. ASSUME NEW S, NEW q \in Seq(S), Len(q) <= 1, q # << >>
          PROVE  Range(q) = {Head(q)} /\ Head(q) \in S
      <3>1. Len(q) = 1 /\ DOMAIN q = {1} /\ Head(q) = q[1] /\ Head(q) \in S
        BY <2>1, OnlyMessage, TailPositions
      <3> QED
        BY <3>1 DEF Range
    <2> QED
      BY <2>1
  <1>3. Range(<< >>) = {}
    BY DEF Range
  <1>4. toQueue[w] # << >> =>
            Range(toQueue[w]) = {Head(toQueue[w])} /\ Head(toQueue[w]) \in {READY} \cup Message
    BY <1>1, <1>2 DEF WorkerInOnePlace
  <1>5. toWorker[w] # << >> =>
            Range(toWorker[w]) = {Head(toWorker[w])} /\ Head(toWorker[w]) \in Message
    BY <1>1, <1>2 DEF WorkerInOnePlace
  <1>6. NoJob \notin Message /\ READY = NoJob
    BY MessageIsNotEmpty DEF NoJob, READY
  <1>7. CASE toQueue[w] # << >>
    BY <1>1, <1>3, <1>4, <1>6, <1>7 DEF WorkerInOnePlace, Held
  <1>8. CASE toWorker[w] # << >>
    BY <1>1, <1>3, <1>5, <1>6, <1>8 DEF WorkerInOnePlace, Held
  <1>9. CASE toQueue[w] = << >> /\ toWorker[w] = << >>
    BY <1>1, <1>3, <1>6, <1>9 DEF WorkerInOnePlace, Held
  <1> QED
    BY <1>7, <1>8, <1>9

\* A step that changes nothing for the clients, and by which no worker gets
\* anything, keeps their tries where they are.
LEMMA TriesStay ==
    ASSUME TriesInOnePlace,
           UNCHANGED <<clientVars, frontend>>,
           \A w \in Worker : Held(w)' \subseteq Held(w)
    PROVE  TriesInOnePlace'
  BY DEF TriesInOnePlace, TryInOnePlace, Outdated, Try, clientVars

----------------------------------------------------------------------------
(***************************************************************************)
(* The steps of a client.                                                  *)
(***************************************************************************)

\* A client leaves the workers and the other clients alone.
LEMMA ClientLeaves ==
    ASSUME IInv, NEW c \in Client, ClientLoop(c)
    PROVE  /\ UNCHANGED <<queueVars, toQueue, toWorker, workerVars>>
           /\ OnePlace' /\ FrontThere' /\ FewRun' /\ IsInjective(worker_queue)'
           /\ \A w \in Worker : Held(w)' = Held(w)
           /\ \A d \in Client \ {c} : TryInOnePlace(d)'
  <1>1. UNCHANGED <<queueVars, toQueue, toWorker, workerVars>>
    BY DEF ClientLoop, Send, Receive, TryAgain, Abandon
  <1>2. OnePlace' /\ FrontThere' /\ FewRun' /\ IsInjective(worker_queue)'
    BY <1>1 DEF IInv, OnePlace, WorkerInOnePlace, FrontThere, FewRun, Running,
                queueVars, workerVars
  <1>3. \A w \in Worker : Held(w)' = Held(w)
    BY <1>1 DEF Held, workerVars
  <1>4. \A d \in Client \ {c} :
            /\ cpc'[d] = cpc[d] /\ sequence'[d] = sequence[d] /\ socket'[d] = socket[d]
            /\ retries_left'[d] = retries_left[d]
            /\ sent'[d] = sent[d] /\ inbox'[d] = inbox[d]
    BY DEF IInv, TypeOK, ClientLoop, Send, Receive, TryAgain, Abandon, MakeSocket
  <1>5. \A d \in Client \ {c} : TryInOnePlace(d)'
    <2>1. ASSUME NEW d \in Client \ {c} PROVE TryInOnePlace(d)'
      <3>1. TryInOnePlace(d)
        BY DEF IInv, TriesInOnePlace
      <3>2. Try(d)' = Try(d)
        BY <1>4 DEF Try
      <3>3. \A m : Outdated(d, m)' <=> Outdated(d, m)
        BY <1>4, <3>2 DEF Outdated
      <3> QED
        BY <1>1, <1>3, <1>4, <3>1, <3>2, <3>3 DEF TryInOnePlace, queueVars
    <2> QED
      BY <2>1
  <1> QED
    BY <1>1, <1>2, <1>3, <1>5

\* The next request goes over a socket on which there is nothing else.
LEMMA SendStep ==
    ASSUME IInv, NEW c \in Client, Send(c)
    PROVE  IInv'
  <1>1. ClientLoop(c)
    BY DEF ClientLoop
  <1>2. TypeOK /\ TryInOnePlace(c) /\ cpc[c] = "sending"
    BY DEF IInv, TriesInOnePlace, Send
  <1>3. /\ sequence' = [sequence EXCEPT ![c] = @ + 1]
        /\ sequence[c] \in 0 .. MaxRequests /\ sequence[c] < MaxRequests
        /\ sent' = [sent EXCEPT ![c] = sequence'[c]]
        /\ cpc' = [cpc EXCEPT ![c] = "polling"]
        /\ UNCHANGED <<retries_left, socket, inbox, frontend>>
    BY <1>2 DEF Send, TypeOK, queueVars
  <1>4. /\ sequence' \in [Client -> 0 .. MaxRequests]
        /\ sequence'[c] = sequence[c] + 1 /\ sequence'[c] # Nothing
        /\ sent' \in [Client -> Nat] /\ sent'[c] = sequence'[c]
        /\ cpc' \in [Client -> {"sending", "polling", "ended"}] /\ cpc'[c] = "polling"
    BY <1>2, <1>3, LimitsAssumption DEF TypeOK, Nothing
  <1>5. TypeOK'
    BY <1>2, <1>3, <1>4, <1>1, ClientLeaves DEF TypeOK, queueVars, workerVars
  <1>6. inbox'[c] = Nothing /\ socket'[c] = socket[c] /\ socket[c] \in Nat
    BY <1>2, <1>3 DEF TryInOnePlace, TypeOK
  <1>7. ASSUME NEW m, Outdated(c, m), m # Try(c)
        PROVE  Outdated(c, m)' /\ m # Try(c)'
    BY <1>6, <1>7 DEF Outdated, Try
  <1>8. TryInOnePlace(c)'
    BY <1>1, <1>2, <1>3, <1>4, <1>6, <1>7, ClientLeaves DEF TryInOnePlace
  <1> QED
    BY <1>1, <1>5, <1>8, ClientLeaves DEF IInv, TriesInOnePlace

\* A reply is to the current request, and nothing else is left of it.
LEMMA ReceiveStep ==
    ASSUME IInv, NEW c \in Client, Receive(c)
    PROVE  IInv'
  <1>1. ClientLoop(c)
    BY DEF ClientLoop
  <1>2. TypeOK /\ TryInOnePlace(c) /\ cpc[c] = "polling" /\ inbox[c] # Nothing
    BY DEF IInv, TriesInOnePlace, Receive
  <1>3. inbox[c] = sequence[c]
    BY <1>2 DEF TryInOnePlace
  <1>4. /\ inbox' = [inbox EXCEPT ![c] = Nothing]
        /\ retries_left' = [retries_left EXCEPT ![c] = retries_allowed]
        /\ cpc' = [cpc EXCEPT ![c] = "sending"]
        /\ UNCHANGED <<sequence, socket, sent, frontend>>
    BY <1>3 DEF Receive, queueVars
  <1>5. /\ inbox' \in [Client -> Nat] /\ inbox'[c] = Nothing
        /\ retries_left' \in [Client -> 0 .. retries_allowed]
        /\ retries_left'[c] >= 1
        /\ cpc' \in [Client -> {"sending", "polling", "ended"}] /\ cpc'[c] = "sending"
    BY <1>2, <1>4, LimitsAssumption DEF TypeOK, Nothing
  <1>6. TypeOK'
    BY <1>2, <1>4, <1>5, <1>1, ClientLeaves DEF TypeOK, queueVars, workerVars
  <1>7. Try(c)' = Try(c) /\ \A m : Outdated(c, m)' <=> Outdated(c, m)
    BY <1>4 DEF Try, Outdated
  <1>8. TryInOnePlace(c)'
    BY <1>1, <1>2, <1>4, <1>5, <1>7, ClientLeaves DEF TryInOnePlace
  <1> QED
    BY <1>1, <1>6, <1>8, ClientLeaves DEF IInv, TriesInOnePlace

\* With the new socket everything that came over the old one is outdated.
LEMMA TryAgainStep ==
    ASSUME IInv, NEW c \in Client, TryAgain(c)
    PROVE  IInv'
  <1>1. ClientLoop(c)
    BY DEF ClientLoop
  <1>2. TypeOK /\ TryInOnePlace(c) /\ cpc[c] = "polling" /\ retries_left[c] - 1 # 0
    BY DEF IInv, TriesInOnePlace, TryAgain, TimesOut, NoneLeft
  <1>3. /\ retries_left' = [retries_left EXCEPT ![c] = @ - 1]
        /\ socket' = [socket EXCEPT ![c] = @ + 1]
        /\ inbox' = [inbox EXCEPT ![c] = Nothing]
        /\ sent' = [sent EXCEPT ![c] = sequence[c]]
        /\ UNCHANGED <<cpc, sequence, frontend>>
    BY DEF TryAgain, MakeSocket, queueVars
  <1>4. retries_left[c] >= 2 /\ retries_left[c] \in 0 .. retries_allowed
    BY <1>2 DEF TypeOK, TryInOnePlace
  <1>5. /\ retries_left' \in [Client -> 0 .. retries_allowed] /\ retries_left'[c] >= 1
        /\ socket' \in [Client -> Nat \ {0}] /\ socket'[c] = socket[c] + 1
        /\ inbox' \in [Client -> Nat] /\ inbox'[c] = Nothing
        /\ sent' \in [Client -> Nat] /\ sent'[c] = sequence[c]
    <2>1. /\ retries_left \in [Client -> 0 .. retries_allowed] /\ retries_allowed \in Nat
          /\ socket \in [Client -> Nat \ {0}]
          /\ inbox \in [Client -> Nat] /\ Nothing \in Nat
          /\ sent \in [Client -> Nat] /\ sequence[c] \in Nat
      BY <1>2, LimitsAssumption DEF TypeOK, Nothing
    <2>2. /\ retries_left[c] - 1 \in 0 .. retries_allowed /\ retries_left[c] - 1 >= 1
          /\ socket[c] + 1 \in Nat \ {0}
      BY <1>4, <2>1
    <2> QED
      BY <1>3, <2>1, <2>2
  <1>6. TypeOK'
    BY <1>2, <1>3, <1>5, <1>1, ClientLeaves DEF TypeOK, queueVars, workerVars
  <1>7. ASSUME NEW m \in Message, Outdated(c, m)
        PROVE  Outdated(c, m)' /\ m # Try(c)'
    <2>1. m[1] = c => m[2] <= socket[c]
      BY <1>2, <1>7 DEF Outdated, Try, TypeOK, Message
    <2>2. m[2] \in Nat /\ socket[c] \in Nat
      BY <1>2 DEF Message, TypeOK
    <2>3. m[1] = c => m[2] < socket'[c]
      BY <1>5, <2>1, <2>2
    <2> QED
      BY <1>5, <2>2, <2>3 DEF Outdated, Try
  <1>8. frontend \subseteq Message /\ \A w \in Worker : Held(w) \subseteq Message
    BY <1>2, HeldIsOne DEF IInv, TypeOK
  <1>9. TryInOnePlace(c)'
    BY <1>1, <1>2, <1>3, <1>5, <1>7, <1>8, ClientLeaves DEF TryInOnePlace
  <1> QED
    BY <1>1, <1>6, <1>9, ClientLeaves DEF IInv, TriesInOnePlace

LEMMA AbandonStep ==
    ASSUME IInv, NEW c \in Client, Abandon(c)
    PROVE  IInv'
  <1>1. ClientLoop(c)
    BY DEF ClientLoop
  <1>2. TypeOK /\ TryInOnePlace(c) /\ cpc[c] = "polling" /\ retries_left[c] - 1 = 0
    BY DEF IInv, TriesInOnePlace, Abandon, TimesOut, NoneLeft
  <1>3. /\ retries_left' = [retries_left EXCEPT ![c] = @ - 1]
        /\ cpc' = [cpc EXCEPT ![c] = "ended"]
        /\ sent' = [sent EXCEPT ![c] = Nothing]
        /\ inbox' = [inbox EXCEPT ![c] = Nothing]
        /\ UNCHANGED <<sequence, socket, frontend>>
    BY DEF Abandon, queueVars
  <1>4. /\ retries_left' \in [Client -> 0 .. retries_allowed]
        /\ cpc' \in [Client -> {"sending", "polling", "ended"}] /\ cpc'[c] = "ended"
        /\ sent' \in [Client -> Nat] /\ sent'[c] = Nothing
        /\ inbox' \in [Client -> Nat] /\ inbox'[c] = Nothing
    BY <1>2, <1>3, LimitsAssumption DEF TypeOK, Nothing
  <1>5. TypeOK'
    BY <1>2, <1>3, <1>4, <1>1, ClientLeaves DEF TypeOK, queueVars, workerVars
  <1>6. Try(c)' = Try(c) /\ \A m : Outdated(c, m)' <=> Outdated(c, m)
    BY <1>3 DEF Try, Outdated
  <1>7. TryInOnePlace(c)'
    BY <1>1, <1>2, <1>3, <1>4, <1>6, ClientLeaves DEF TryInOnePlace
  <1> QED
    BY <1>1, <1>5, <1>7, ClientLeaves DEF IInv, TriesInOnePlace

\* The try moves on to the frontend.
LEMMA ArriveStep ==
    ASSUME IInv, NEW c \in Client, Arrive(c)
    PROVE  IInv'
  <1>1. TypeOK /\ TryInOnePlace(c) /\ sent[c] # Nothing
    BY DEF IInv, TriesInOnePlace, Arrive
  <1>2. /\ frontend' = frontend \cup {<<c, socket[c], sent[c]>>}
        /\ sent' = [sent EXCEPT ![c] = Nothing]
        /\ UNCHANGED <<cpc, sequence, retries_left, socket, inbox, qpc, worker_queue,
                       revents, toQueue, toWorker, wpc, job, cycles>>
    BY DEF Arrive, workerVars
  <1>3. sent[c] = sequence[c] /\ cpc[c] = "polling" /\ inbox[c] = Nothing
    BY <1>1 DEF TryInOnePlace
  <1>4. Try(c) \in Message /\ frontend' = frontend \cup {Try(c)}
    BY <1>1, <1>2, <1>3 DEF Try, Message, TypeOK, Nothing
  <1>5. sent' \in [Client -> Nat] /\ sent'[c] = Nothing
    BY <1>1, <1>2 DEF TypeOK, Nothing
  <1>6. TypeOK'
    BY <1>1, <1>2, <1>4, <1>5 DEF TypeOK
  <1>7. OnePlace' /\ FrontThere' /\ FewRun' /\ IsInjective(worker_queue)'
    BY <1>2, <1>4 DEF IInv, OnePlace, WorkerInOnePlace, FrontThere, FewRun, Running
  <1>8. \A w \in Worker : Held(w)' = Held(w)
    BY <1>2 DEF Held
  <1>9. /\ \A d \in Client : Try(d)' = Try(d)
        /\ \A d \in Client : \A m : Outdated(d, m)' <=> Outdated(d, m)
    BY <1>2 DEF Try, Outdated
  <1>10. ASSUME NEW d \in Client PROVE TryInOnePlace(d)'
    <2>1. TryInOnePlace(d)
      BY DEF IInv, TriesInOnePlace
    <2>2. CASE d = c
      <3>1. Outdated(c, Try(c))
        BY DEF Outdated
      <3> QED
        BY <1>1, <1>2, <1>3, <1>4, <1>5, <1>8, <1>9, <2>2, <3>1 DEF TryInOnePlace
    <2>3. CASE d # c
      <3>1. sent'[d] = sent[d] /\ Try(c) # Try(d) /\ Outdated(d, Try(c))
        BY <1>1, <1>2, <2>3 DEF TypeOK, Try, Outdated
      <3> QED
        BY <1>2, <1>4, <1>8, <1>9, <2>1, <3>1 DEF TryInOnePlace
    <2> QED
      BY <2>2, <2>3
  <1> QED
    BY <1>6, <1>7, <1>10 DEF IInv, TriesInOnePlace

----------------------------------------------------------------------------
(***************************************************************************)
(* The steps of the queue.                                                 *)
(***************************************************************************)

\* A worker whose message is read is queued, and holds nothing any more.
LEMMA FromWorkerMoves ==
    ASSUME IInv, NEW w \in Worker, FromWorker(w)
    PROVE  /\ worker_queue' \in Seq(Worker) /\ worker_queue' # << >>
           /\ IsInjective(worker_queue')
           /\ toQueue' \in [Worker -> Seq({READY} \cup Message)]
           /\ OnePlace'
           /\ Held(w)' = {}
           /\ \A v \in Worker \ {w} : Held(v)' = Held(v)
  <1>1. /\ TypeOK /\ OnePlace /\ IsInjective(worker_queue)
        /\ toQueue[w] \in Seq({READY} \cup Message) /\ toQueue[w] # << >>
        /\ worker_queue \in Seq(Worker)
    BY DEF IInv, TypeOK, FromWorker
  <1>2. /\ wpc[w] = "waiting" /\ w \notin Range(worker_queue) /\ toWorker[w] = << >>
        /\ Len(toQueue[w]) <= 1
    BY <1>1 DEF OnePlace, WorkerInOnePlace
  <1>3. Tail(toQueue[w]) \in Seq({READY} \cup Message) /\ Tail(toQueue[w]) = << >>
    BY <1>1, <1>2, OnlyMessage
  <1>4. /\ worker_queue' \in Seq(Worker) /\ worker_queue' # << >>
        /\ IsInjective(worker_queue')
        /\ Range(worker_queue') = Range(worker_queue) \cup {w}
    <2>1. worker_queue' = Append(worker_queue, w)
      BY DEF FromWorker
    <2>2. Append(worker_queue, w) \in Seq(Worker) /\ Append(worker_queue, w) # << >>
      BY <1>1, AppendPositions
    <2>3. /\ IsInjective(Append(worker_queue, w))
          /\ Range(Append(worker_queue, w)) = Range(worker_queue) \cup {w}
      BY <1>1, <1>2, PushMembers
    <2> QED
      BY <2>1, <2>2, <2>3
  <1>5. /\ toQueue' \in [Worker -> Seq({READY} \cup Message)]
        /\ toQueue'[w] = << >>
        /\ \A v \in Worker \ {w} : toQueue'[v] = toQueue[v]
    BY <1>1, <1>3 DEF FromWorker, TypeOK
  <1>6. toWorker' = toWorker /\ wpc' = wpc /\ job' = job
    BY DEF FromWorker, workerVars
  <1>7. OnePlace'
    BY <1>1, <1>2, <1>4, <1>5, <1>6 DEF OnePlace, WorkerInOnePlace
  <1>8. Held(w)' = {}
    <2>1. job[w] = NoJob
      BY <1>1, <1>2 DEF OnePlace, WorkerInOnePlace
    <2>2. Range(<< >>) = {}
      BY DEF Range
    <2> QED
      BY <1>2, <1>5, <1>6, <2>1, <2>2 DEF Held
  <1>9. \A v \in Worker \ {w} : Held(v)' = Held(v)
    BY <1>5, <1>6 DEF Held
  <1> QED
    BY <1>4, <1>5, <1>7, <1>8, <1>9

\* The reply over the current socket is the try itself.
LEMMA FromWorkerStep ==
    ASSUME IInv, NEW w \in Worker, FromWorker(w)
    PROVE  IInv'
  <1> DEFINE m == Head(toQueue[w])
  <1>1. /\ TypeOK /\ OnePlace /\ TriesInOnePlace
        /\ toQueue[w] \in Seq({READY} \cup Message) /\ toQueue[w] # << >>
    BY DEF IInv, TypeOK, FromWorker
  <1>2. UNCHANGED <<cpc, sequence, retries_left, socket, sent, frontend, toWorker,
                   wpc, job, cycles>>
    BY DEF FromWorker, workerVars
  <1>3. m \in {READY} \cup Message /\ Held(w) = {m} \ {NoJob}
    BY <1>1, TailPositions, HeldIsOne
  <1>4. /\ \A d \in Client : Try(d)' = Try(d)
        /\ \A d \in Client : \A n : Outdated(d, n)' <=> Outdated(d, n)
    BY <1>2 DEF Try, Outdated
  <1>5. FrontThere' /\ FewRun' /\ revents' \in BOOLEAN /\ qpc' \in {"poll", "frontend"}
    BY <1>2, FromWorkerMoves DEF IInv, FromWorker, FrontendReady, FrontThere, FewRun, Running
  <1>6. CASE m = READY \/ socket[m[1]] # m[2] \/ cpc[m[1]] = "ended"
    <2>1. inbox' = inbox
      BY <1>6 DEF FromWorker, Forward
    <2>2. TypeOK'
      BY <1>1, <1>2, <1>5, <2>1, FromWorkerMoves DEF TypeOK
    <2>3. \A v \in Worker : Held(v)' \subseteq Held(v)
      BY FromWorkerMoves
    <2>4. TriesInOnePlace'
      <3>1. UNCHANGED <<clientVars, frontend>>
        BY <1>2, <2>1 DEF clientVars
      <3> QED
        BY <1>1, <2>3, <3>1, TriesStay
    <2> QED
      BY <1>5, <2>2, <2>4, FromWorkerMoves DEF IInv
  <1>7. CASE m # READY /\ socket[m[1]] = m[2] /\ cpc[m[1]] # "ended"
    <2> DEFINE c == m[1]
    <2>1. m \in Message /\ c \in Client /\ m \in Held(w)
      BY <1>3, <1>7 DEF Message, READY, NoJob
    <2>2. m = Try(c)
      <3>1. Outdated(c, m)
        BY <1>1, <2>1 DEF TriesInOnePlace, TryInOnePlace
      <3>2. socket[c] \in Nat
        BY <1>1, <2>1 DEF TypeOK
      <3> QED
        BY <1>7, <3>1, <3>2 DEF Outdated
    <2>3. m[3] = sequence[c] /\ m[3] \in Nat \ {0}
      <3>1. Try(c)[3] = sequence[c]
        BY DEF Try
      <3> QED
        BY <2>1, <2>2, <3>1 DEF Message
    <2>4. /\ TryInOnePlace(c)
          /\ cpc[c] = "polling" /\ sent[c] = Nothing /\ inbox[c] = Nothing
          /\ Try(c) \notin frontend
          /\ \A v \in Worker \ {w} : Try(c) \notin Held(v)
      <3>1. TryInOnePlace(c) /\ Try(c) \in Held(w)
        BY <1>1, <2>1, <2>2 DEF TriesInOnePlace
      <3>2. cpc[c] \in {"sending", "polling", "ended"}
        BY <1>1, <2>1 DEF TypeOK
      <3> QED
        BY <1>7, <3>1, <3>2 DEF TryInOnePlace
    <2>5. inbox' = [inbox EXCEPT ![c] = m[3]]
      BY <1>7 DEF FromWorker, Forward
    <2> HIDE DEF m, c
    <2>6. inbox' \in [Client -> Nat] /\ inbox'[c] = sequence[c]
      BY <1>1, <2>1, <2>3, <2>5 DEF TypeOK
    <2>7. TypeOK'
      BY <1>1, <1>2, <1>5, <2>6, FromWorkerMoves DEF TypeOK
    <2>8. ASSUME NEW d \in Client PROVE TryInOnePlace(d)'
      <3>1. TryInOnePlace(d) /\ \A v \in Worker : Held(v)' \subseteq Held(v)
        BY <1>1, FromWorkerMoves DEF TriesInOnePlace
      <3>2. CASE d = c
        <4>1. \A v \in Worker : Try(c) \notin Held(v)'
          BY <2>4, FromWorkerMoves
        <4> QED
          BY <1>2, <1>4, <2>4, <2>6, <3>1, <3>2, <4>1 DEF TryInOnePlace
      <3>3. CASE d # c
        <4>1. inbox'[d] = inbox[d]
          BY <1>1, <2>5, <3>3 DEF TypeOK
        <4> QED
          BY <1>2, <1>4, <3>1, <4>1 DEF TryInOnePlace
      <3> QED
        BY <3>2, <3>3
    <2> QED
      BY <1>5, <2>7, <2>8, FromWorkerMoves DEF IInv, TriesInOnePlace
  <1> QED
    BY <1>6, <1>7

LEMMA OnlyFrontendStep ==
    ASSUME IInv, OnlyFrontend \/ NoRequest
    PROVE  IInv'
  <1>1. UNCHANGED <<clientVars, worker_queue, frontend, toQueue, toWorker, workerVars>>
    BY DEF OnlyFrontend, NoRequest
  <1>2. TypeOK'
    BY <1>1 DEF IInv, TypeOK, OnlyFrontend, NoRequest, clientVars, workerVars
  <1>3. OnePlace' /\ FewRun' /\ IsInjective(worker_queue)'
    BY <1>1 DEF IInv, OnePlace, WorkerInOnePlace, FewRun, Running, workerVars
  <1>4. FrontThere'
    BY <1>1 DEF FrontThere, OnlyFrontend, NoRequest, FrontendReady
  <1>5. \A w \in Worker : Held(w)' = Held(w)
    BY <1>1 DEF Held, workerVars
  <1>6. TriesInOnePlace'
    BY <1>1, <1>5, TriesStay DEF IInv
  <1> QED
    BY <1>2, <1>3, <1>4, <1>6 DEF IInv

\* The request goes to the worker at the front, which waits and holds nothing.
LEMMA ForwardRequestStep ==
    ASSUME IInv, NEW m \in frontend, ForwardRequest(m)
    PROVE  IInv'
  <1>1. /\ TypeOK /\ OnePlace /\ TriesInOnePlace /\ IsInjective(worker_queue)
        /\ worker_queue \in Seq(Worker) /\ worker_queue # << >>
        /\ m \in Message
    BY DEF IInv, TypeOK, FrontThere, ForwardRequest
  <1>2. PICK w \in Worker :
            /\ w = Head(worker_queue) /\ w \in Range(worker_queue)
            /\ Tail(worker_queue) \in Seq(Worker) /\ IsInjective(Tail(worker_queue))
            /\ Range(Tail(worker_queue)) = Range(worker_queue) \ {w}
    BY <1>1, TailPositions, HeadIsMember, PopMembers
  <1>3. wpc[w] = "waiting" /\ toQueue[w] = << >> /\ toWorker[w] = << >> /\ job[w] = NoJob
    BY <1>1, <1>2 DEF OnePlace, WorkerInOnePlace
  <1>4. /\ frontend' = frontend \ {m} /\ worker_queue' = Tail(worker_queue)
        /\ toWorker' = [toWorker EXCEPT ![w] = Append(@, m)] /\ qpc' = "poll"
        /\ UNCHANGED <<cpc, sequence, retries_left, socket, sent, inbox, revents,
                       toQueue, wpc, job, cycles>>
    BY <1>2, <1>3 DEF ForwardRequest, PopWorker, clientVars, workerVars
  <1>5. /\ toWorker' \in [Worker -> Seq(Message)]
        /\ toWorker'[w] = <<m>>
        /\ \A v \in Worker \ {w} : toWorker'[v] = toWorker[v]
    <2>1. toWorker \in [Worker -> Seq(Message)] /\ <<m>> \in Seq(Message)
      BY <1>1 DEF TypeOK
    <2>2. Append(toWorker[w], m) = <<m>>
      BY <1>3
    <2> QED
      BY <1>2, <1>4, <2>1, <2>2
  <1>6. TypeOK'
    BY <1>1, <1>2, <1>4, <1>5 DEF TypeOK
  <1>7. OnePlace'
    <2>1. Len(<<m>>) = 1 /\ Len(<< >>) = 0
      OBVIOUS
    <2> QED
      BY <1>1, <1>2, <1>3, <1>4, <1>5, <2>1 DEF OnePlace, WorkerInOnePlace
  <1>8. FrontThere' /\ FewRun' /\ IsInjective(worker_queue)'
    BY <1>2, <1>4 DEF IInv, FrontThere, FewRun, Running
  <1>9. Held(w) = {} /\ Held(w)' = {m} /\ \A v \in Worker \ {w} : Held(v)' = Held(v)
    <2>1. Range(<<m>>) = {m} /\ Range(<< >>) = {} /\ m # NoJob
      BY <1>1, MessageIsNotEmpty DEF Range, NoJob
    <2> QED
      BY <1>2, <1>3, <1>4, <1>5, <2>1 DEF Held
  <1>10. /\ \A d \in Client : Try(d)' = Try(d)
         /\ \A d \in Client : \A n : Outdated(d, n)' <=> Outdated(d, n)
    BY <1>4 DEF Try, Outdated
  <1>11. ASSUME NEW d \in Client PROVE TryInOnePlace(d)'
    <2>1. TryInOnePlace(d)
      BY <1>1 DEF TriesInOnePlace
    <2>2. Outdated(d, m)
      BY <2>1 DEF TryInOnePlace
    <2>3. \A v \in Worker : \A n \in Held(v)' : n \in Held(v) \/ (v = w /\ n = m)
      BY <1>9
    <2>4. CASE m = Try(d)
      BY <1>2, <1>4, <1>9, <1>10, <2>1, <2>2, <2>3, <2>4 DEF TryInOnePlace
    <2>5. CASE m # Try(d)
      BY <1>2, <1>4, <1>9, <1>10, <2>1, <2>2, <2>3, <2>5 DEF TryInOnePlace
    <2> QED
      BY <2>4, <2>5
  <1> QED
    BY <1>6, <1>7, <1>8, <1>11 DEF IInv, TriesInOnePlace

----------------------------------------------------------------------------
(***************************************************************************)
(* The steps of a worker.                                                  *)
(***************************************************************************)

\* A worker leaves clients and queue alone and gets nothing of its own; who has
\* been running still is or has crashed.
LEMMA WorkerKeeps ==
    ASSUME IInv, NEW w \in Worker, Start(w) \/ WorkerLoop(w),
           Held(w)' \subseteq Held(w), WorkerInOnePlace(w)'
    PROVE  /\ OnePlace' /\ TriesInOnePlace' /\ FrontThere' /\ IsInjective(worker_queue)'
           /\ \A v \in Worker \ {w} : wpc'[v] = wpc[v]
  <1>1. UNCHANGED <<clientVars, queueVars>>
    BY DEF Start, WorkerLoop, Work, Crash, Reply, TakeFrames
  <1>2. \A v \in Worker \ {w} :
            /\ wpc'[v] = wpc[v] /\ job'[v] = job[v]
            /\ toQueue'[v] = toQueue[v] /\ toWorker'[v] = toWorker[v]
    BY DEF IInv, TypeOK, Start, WorkerLoop, Work, Crash, Reply, TakeFrames
  <1>3. OnePlace'
    BY <1>1, <1>2 DEF IInv, OnePlace, WorkerInOnePlace, queueVars
  <1>4. \A v \in Worker : Held(v)' \subseteq Held(v)
    BY <1>2 DEF Held
  <1>5. TriesInOnePlace'
    BY <1>1, <1>4, TriesStay DEF IInv, queueVars
  <1>6. FrontThere' /\ IsInjective(worker_queue)'
    BY <1>1 DEF IInv, FrontThere, queueVars
  <1> QED
    BY <1>2, <1>3, <1>5, <1>6

\* A worker that was running may have crashed.
LEMMA FewerRun ==
    ASSUME FewRun, NEW w \in Worker, wpc[w] \in {"waiting", "working"},
           \A v \in Worker \ {w} : wpc'[v] = wpc[v]
    PROVE  FewRun'
  <1>1. Running' \in SUBSET Running
    BY DEF Running
  <1>2. Cardinality(Running') \in Nat /\ Cardinality(Running') <= Cardinality(Running)
    BY <1>1, RunningIsFinite, FS_Subset, FS_CardinalityType
  <1> QED
    BY <1>2, RunningIsFinite, LimitsAssumption DEF FewRun

LEMMA StartStep ==
    ASSUME IInv, NEW w \in Worker, Start(w)
    PROVE  IInv'
  <1>1. /\ TypeOK /\ OnePlace /\ wpc[w] = "new"
        /\ wpc \in [Worker -> {"new", "waiting", "working", "crashed"}]
        /\ toQueue \in [Worker -> Seq({READY} \cup Message)]
    BY DEF IInv, TypeOK, Start
  <1>2. /\ w \notin Range(worker_queue) /\ toQueue[w] = << >> /\ toWorker[w] = << >>
        /\ job[w] = NoJob
    BY <1>1 DEF OnePlace, WorkerInOnePlace
  <1>3. /\ wpc' = [wpc EXCEPT ![w] = "waiting"]
        /\ toQueue' = [toQueue EXCEPT ![w] = Append(@, READY)]
        /\ Cardinality(Running) < MaxRunning
        /\ UNCHANGED <<clientVars, queueVars, toWorker, job, cycles>>
    BY DEF Start
  <1>4. /\ Append(toQueue[w], READY) = <<READY>> /\ <<READY>> \in Seq({READY} \cup Message)
        /\ Len(<<READY>>) = 1 /\ Len(<< >>) = 0
        /\ Range(<<READY>>) = {READY} /\ Range(<< >>) = {}
    BY <1>2 DEF Range
  <1>5. toQueue'[w] = <<READY>> /\ wpc'[w] = "waiting"
    BY <1>1, <1>3, <1>4
  <1>6. Held(w)' \subseteq Held(w)
    BY <1>3, <1>4, <1>5 DEF Held, READY, NoJob
  <1>7. WorkerInOnePlace(w)'
    BY <1>2, <1>3, <1>4, <1>5 DEF WorkerInOnePlace, queueVars
  <1>8. TypeOK'
    BY <1>1, <1>3, <1>4 DEF TypeOK, clientVars, queueVars
  <1>9. FewRun'
    <2>1. Running' = Running \cup {w} /\ w \notin Running
      BY <1>1, <1>3 DEF Running
    <2>2. Cardinality(Running \cup {w}) = Cardinality(Running) + 1
      BY <2>1, RunningIsFinite, FS_AddElement
    <2> QED
      BY <1>3, <2>1, <2>2, RunningIsFinite, LimitsAssumption DEF FewRun
  <1> QED
    BY <1>6, <1>7, <1>8, <1>9, WorkerKeeps DEF IInv

\* What is taken is what the worker holds, at work or lost with it.
LEMMA TakeFramesStep ==
    ASSUME IInv, NEW w \in Worker, Work(w) \/ Crash(w)
    PROVE  IInv'
  <1>1. /\ TypeOK /\ OnePlace /\ wpc[w] = "waiting" /\ toWorker[w] # << >>
        /\ toWorker[w] \in Seq(Message)
    BY DEF IInv, TypeOK, Work, Crash, TakeFrames
  <1>2. /\ w \notin Range(worker_queue) /\ toQueue[w] = << >>
        /\ Len(toWorker[w]) <= 1 /\ job[w] = NoJob
    BY <1>1 DEF OnePlace, WorkerInOnePlace
  <1>3. /\ Tail(toWorker[w]) = << >> /\ Tail(toWorker[w]) \in Seq(Message)
        /\ Head(toWorker[w]) \in Message
        /\ Held(w) = {Head(toWorker[w])}
    BY <1>1, <1>2, OnlyMessage, HeldIsOne
  <1>4. /\ toWorker' = [toWorker EXCEPT ![w] = Tail(@)]
        /\ cycles' = [cycles EXCEPT ![w] = IF @ > CRASH_FREE THEN @ ELSE @ + 1]
        /\ UNCHANGED <<clientVars, queueVars, toQueue>>
    BY DEF Work, Crash, TakeFrames
  <1>5. toWorker' \in [Worker -> Seq(Message)] /\ toWorker'[w] = << >>
    BY <1>1, <1>3, <1>4 DEF TypeOK
  <1>6. cycles' \in [Worker -> 0 .. CRASH_FREE + 1]
    BY <1>1, <1>4, LimitsAssumption DEF TypeOK
  <1>7. /\ wpc' \in [Worker -> {"new", "waiting", "working", "crashed"}]
        /\ job' \in [Worker -> Message \cup {NoJob}]
        /\ \/ wpc'[w] = "working" /\ job'[w] = Head(toWorker[w])
           \/ wpc'[w] = "crashed" /\ job'[w] = NoJob
    BY <1>1, <1>2, <1>3 DEF Work, Crash, TypeOK
  <1>8. Len(<< >>) = 0 /\ Range(<< >>) = {}
    BY DEF Range
  <1>9. Held(w)' \subseteq Held(w)
    BY <1>2, <1>3, <1>4, <1>5, <1>7, <1>8 DEF Held
  <1>10. WorkerInOnePlace(w)'
    BY <1>2, <1>3, <1>4, <1>5, <1>7, <1>8 DEF WorkerInOnePlace, queueVars
  <1>11. TypeOK'
    BY <1>1, <1>4, <1>5, <1>6, <1>7 DEF TypeOK, clientVars, queueVars
  <1>12. Start(w) \/ WorkerLoop(w)
    BY DEF WorkerLoop
  <1>13. FewRun'
    BY <1>9, <1>10, <1>12, <1>1, WorkerKeeps, FewerRun DEF IInv
  <1> QED
    BY <1>9, <1>10, <1>11, <1>12, <1>13, WorkerKeeps DEF IInv

LEMMA ReplyStep ==
    ASSUME IInv, NEW w \in Worker, Reply(w)
    PROVE  IInv'
  <1>1. TypeOK /\ OnePlace /\ wpc[w] = "working"
    BY DEF IInv, Reply
  <1>2. /\ w \notin Range(worker_queue) /\ toQueue[w] = << >> /\ toWorker[w] = << >>
        /\ job[w] \in Message
        /\ Held(w) = {job[w]}
    BY <1>1, HeldIsOne DEF OnePlace, WorkerInOnePlace
  <1>3. /\ toQueue' = [toQueue EXCEPT ![w] = @ \o <<job[w]>>]
        /\ job' = [job EXCEPT ![w] = NoJob]
        /\ wpc' = [wpc EXCEPT ![w] = "waiting"]
        /\ UNCHANGED <<clientVars, queueVars, toWorker, cycles>>
    BY DEF Reply, Frames
  <1>4. /\ toQueue[w] \o <<job[w]>> = <<job[w]>>
        /\ <<job[w]>> \in Seq({READY} \cup Message)
        /\ Len(<<job[w]>>) = 1 /\ Len(<< >>) = 0
        /\ Range(<<job[w]>>) = {job[w]} /\ Range(<< >>) = {}
    BY <1>2 DEF Range
  <1>5. /\ toQueue' \in [Worker -> Seq({READY} \cup Message)] /\ toQueue'[w] = <<job[w]>>
        /\ job' \in [Worker -> Message \cup {NoJob}] /\ job'[w] = NoJob
        /\ wpc' \in [Worker -> {"new", "waiting", "working", "crashed"}]
        /\ wpc'[w] = "waiting"
    BY <1>1, <1>3, <1>4 DEF TypeOK
  <1>6. Held(w)' \subseteq Held(w)
    BY <1>2, <1>3, <1>4, <1>5 DEF Held
  <1>7. WorkerInOnePlace(w)'
    BY <1>2, <1>3, <1>4, <1>5 DEF WorkerInOnePlace, queueVars
  <1>8. TypeOK'
    BY <1>1, <1>3, <1>5 DEF TypeOK, clientVars, queueVars
  <1>9. Start(w) \/ WorkerLoop(w)
    BY DEF WorkerLoop
  <1>10. FewRun'
    BY <1>1, <1>6, <1>7, <1>9, WorkerKeeps, FewerRun DEF IInv
  <1> QED
    BY <1>6, <1>7, <1>8, <1>9, <1>10, WorkerKeeps DEF IInv

LEMMA NextIInv == IInv /\ [Next]_vars => IInv'
  <1> SUFFICES ASSUME IInv, [Next]_vars PROVE IInv'
    OBVIOUS
  <1>1. ASSUME NEW c \in Client, ClientLoop(c) \/ Arrive(c) PROVE IInv'
    BY <1>1, SendStep, ReceiveStep, TryAgainStep, AbandonStep, ArriveStep DEF ClientLoop
  <1>2. CASE Queue
    BY <1>2, FromWorkerStep, OnlyFrontendStep, ForwardRequestStep DEF Queue
  <1>3. ASSUME NEW w \in Worker, Start(w) \/ WorkerLoop(w) PROVE IInv'
    BY <1>3, StartStep, TakeFramesStep, ReplyStep DEF WorkerLoop
  <1>4. CASE UNCHANGED vars
    <2>1. UNCHANGED <<clientVars, frontend>> /\ \A w \in Worker : Held(w)' = Held(w)
      BY <1>4 DEF vars, clientVars, queueVars, workerVars, Held
    <2>2. TriesInOnePlace'
      BY <2>1, TriesStay DEF IInv
    <2> QED
      BY <1>4, <2>2 DEF IInv, TypeOK, OnePlace, WorkerInOnePlace, FrontThere, FewRun,
                        Running, vars, clientVars, queueVars, workerVars
  <1> QED
    BY <1>1, <1>2, <1>3, <1>4 DEF Next

----------------------------------------------------------------------------

\* Every step keeps the invariant.
THEOREM Invariance == Spec => []IInv
  BY InitIInv, NextIInv, PTL DEF Spec

\* Clients, queue and workers keep their types; retries_left is not counted below
\* zero (lpclient.cpp:55).
THEOREM TypeCorrect == Spec => []TypeOK
  <1>1. IInv => TypeOK
    BY DEF IInv
  <1> QED
    BY <1>1, Invariance, PTL

\* A queued worker is queued once and waits with nothing on its way, whichever
\* workers have crashed (spqueue.cpp:45).
THEOREM QueuedIdle == Spec => []QueuedAreIdle
  <1>1. IInv => QueuedAreIdle
    <2>1. ASSUME IInv PROVE QueuedAreIdle
      <3>1. \A w \in Range(worker_queue) : w \in Worker
        BY <2>1, MembersTyped DEF IInv, TypeOK
      <3> QED
        BY <2>1, <3>1 DEF IInv, OnePlace, WorkerInOnePlace, QueuedAreIdle
    <2> QED
      BY <2>1
  <1> QED
    BY <1>1, Invariance, PTL

\* The length of a queue without duplicates is the number of its members.
LEMMA QueueLength ==
    ASSUME NEW S, NEW q \in Seq(S), IsInjective(q)
    PROVE  IsFiniteSet(Range(q)) /\ Cardinality(Range(q)) = Len(q)
  <1>1. Len(q) \in Nat /\ DOMAIN q = 1 .. Len(q)
    OBVIOUS
  <1>2. q \in Bijection(1 .. Len(q), Range(q))
    BY <1>1 DEF IsInjective, Range, Bijection, Injection, Surjection
  <1>3. IsFiniteSet(1 .. Len(q)) /\ Cardinality(1 .. Len(q)) = Len(q)
    BY <1>1, FS_Interval
  <1> QED
    BY <1>2, <1>3, FS_Bijection DEF ExistsBijection

\* The queue keeps below a limit that is no less than the workers that run at a
\* time, and has a front when main takes it (spqueue.cpp:45, 60).
THEOREM QueueIsInBounds ==
    ASSUME MaxRunning <= MAX_WORKERS
    PROVE  Spec => []QueueInBounds
  <1>1. ASSUME IInv PROVE QueueInBounds
    <2>1. ASSUME NEW w \in Worker, toQueue[w] # << >>
          PROVE  Len(worker_queue) < MAX_WORKERS
      <3>1. /\ worker_queue \in Seq(Worker) /\ IsInjective(worker_queue)
            /\ w \notin Range(worker_queue) /\ wpc[w] = "waiting"
        BY <1>1, <2>1 DEF IInv, TypeOK, OnePlace, WorkerInOnePlace
      <3>2. \A v \in Range(worker_queue) : v \in Worker /\ wpc[v] = "waiting"
        BY <1>1, <3>1, MembersTyped DEF IInv, OnePlace, WorkerInOnePlace
      <3>3. Range(worker_queue) \cup {w} \in SUBSET Running
        BY <3>1, <3>2 DEF Running
      <3>4. /\ IsFiniteSet(Range(worker_queue))
            /\ Cardinality(Range(worker_queue)) = Len(worker_queue)
        BY <3>1, QueueLength
      <3>5. Cardinality(Range(worker_queue) \cup {w}) = Len(worker_queue) + 1
        BY <3>1, <3>4, FS_AddElement
      <3>6. Cardinality(Range(worker_queue) \cup {w}) <= Cardinality(Running)
        BY <3>3, RunningIsFinite, FS_Subset
      <3>7. Len(worker_queue) \in Nat
        BY <3>1
      <3> QED
        BY <1>1, <3>5, <3>6, <3>7, RunningIsFinite, LimitsAssumption DEF IInv, FewRun
    <2> QED
      BY <1>1, <2>1 DEF IInv, FrontThere, QueueInBounds
  <1> QED
    BY <1>1, Invariance, PTL

\* No reply but the one to its current request reaches a client, whatever tries
\* are still being worked on (lpclient.cpp:46, 52, 64).
THEOREM RepliesAreOwn == Spec => []OwnReplies
  <1>1. IInv => OwnReplies
    BY DEF IInv, TriesInOnePlace, TryInOnePlace, OwnReplies
  <1> QED
    BY <1>1, Invariance, PTL

=============================================================================
