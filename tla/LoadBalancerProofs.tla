------------------------- MODULE LoadBalancerProofs -------------------------
(***************************************************************************)
(* The load-balancing broker keeps its types, queues only idle workers and *)
(* finds a front where it takes one, for any numbers of threads.           *)
(***************************************************************************)
EXTENDS LoadBalancer, QueueLemmas, FiniteSetTheorems

\* A worker is in one place at most: queued, with a message to the broker, with
\* one from the broker, or at work; and who is at work has a request.
WorkerInOnePlace(w) ==
    /\ wpc[w] # "waiting" => w \notin Range(workerQueue)
    /\ wpc[w] # "waiting" \/ w \in Range(workerQueue) =>
           toBroker[w] = << >> /\ toWorker[w] = << >>
    /\ toBroker[w] # << >> => toWorker[w] = << >>
    /\ Len(toBroker[w]) <= 1
    /\ Len(toWorker[w]) <= 1
    /\ wpc[w] = "working" => job[w] \in Client

OnePlace == \A w \in Worker : WorkerInOnePlace(w)

\* The loop goes on while replies are missing.
RepliesMissing == bpc \in {"poll", "frontend"} /\ Client # {} => left >= 1

\* What every step keeps.  OnePlace is what QueuedAreIdle says of queued workers,
\* and what makes it so: that a worker whose message is read is not queued yet.
IInv ==
    /\ TypeOK
    /\ IsInjective(workerQueue)
    /\ OnePlace
    /\ RepliesMissing
    /\ FrontDefined

LEMMA InitIInv == Init => IInv
  <1> SUFFICES ASSUME Init PROVE IInv
    OBVIOUS
  <1>1. /\ Cardinality(Client) \in Nat
        /\ Client # {} => Cardinality(Client) >= 1
    BY FS_CardinalityType, FS_EmptySet, ThreadsAssumption
  <1>2. /\ << >> \in Seq(Worker) /\ << >> \in Seq(Client)
        /\ << >> \in Seq({READY} \cup Client) /\ << >> \in Seq({KILL} \cup Client)
        /\ left \in 0 .. Cardinality(Client)
    BY <1>1 DEF Init
  <1>5. TypeOK
    BY <1>2 DEF Init, TypeOK
  <1>3. IsInjective(workerQueue) /\ OnePlace
    BY DEF Init, IsInjective, OnePlace, WorkerInOnePlace, Range
  <1>4. RepliesMissing /\ FrontDefined
    BY <1>1 DEF Init, RepliesMissing, FrontDefined
  <1> QED
    BY <1>3, <1>4, <1>5 DEF IInv

----------------------------------------------------------------------------
(***************************************************************************)
(* The steps of main.                                                      *)
(***************************************************************************)

\* Reading a message of a worker puts it on the queue, and nobody else.
LEMMA FromBackendKeeps ==
    ASSUME IInv, NEW w \in Worker, FromBackend(w)
    PROVE  /\ workerQueue' \in Seq(Worker) /\ workerQueue' # << >>
           /\ IsInjective(workerQueue')
           /\ toBroker' \in [Worker -> Seq({READY} \cup Client)]
           /\ OnePlace'
           /\ revents' \in BOOLEAN
           /\ revents' => frontend' # << >>
  <1> USE DEF IInv
  <1>1. toBroker[w] \in Seq({READY} \cup Client) /\ toBroker[w] # << >>
    BY DEF FromBackend, TypeOK
  <1>2. /\ wpc[w] = "waiting" /\ w \notin Range(workerQueue) /\ toWorker[w] = << >>
        /\ Len(toBroker[w]) <= 1
    BY <1>1 DEF OnePlace, WorkerInOnePlace
  <1>3. Tail(toBroker[w]) \in Seq({READY} \cup Client) /\ Tail(toBroker[w]) = << >>
    BY <1>1, <1>2, OnlyMessage
  <1>4. /\ workerQueue' \in Seq(Worker) /\ workerQueue' # << >>
        /\ IsInjective(workerQueue')
        /\ Range(workerQueue') = Range(workerQueue) \cup {w}
    <2>1. workerQueue \in Seq(Worker) /\ workerQueue' = Append(workerQueue, w)
      BY DEF FromBackend, TypeOK
    <2>2. Append(workerQueue, w) \in Seq(Worker) /\ Append(workerQueue, w) # << >>
      BY <2>1, AppendPositions
    <2>3. /\ IsInjective(Append(workerQueue, w))
          /\ Range(Append(workerQueue, w)) = Range(workerQueue) \cup {w}
      BY <1>2, <2>1, PushMembers
    <2> QED
      BY <2>1, <2>2, <2>3
  <1>5. /\ toBroker' \in [Worker -> Seq({READY} \cup Client)]
        /\ toBroker'[w] = << >>
        /\ \A v \in Worker \ {w} : toBroker'[v] = toBroker[v]
    BY <1>3 DEF FromBackend, TypeOK
  <1>6. toWorker' = toWorker /\ wpc' = wpc /\ job' = job
    BY DEF FromBackend, workerVars
  <1>7. OnePlace'
    BY <1>2, <1>4, <1>5, <1>6 DEF OnePlace, WorkerInOnePlace
  <1>8. revents' \in BOOLEAN /\ (revents' => frontend' # << >>)
    BY DEF FromBackend, FrontendReady
  <1> QED
    BY <1>4, <1>5, <1>7, <1>8

LEMMA WorkerReadyStep ==
    ASSUME IInv, NEW w \in Worker, WorkerReady(w)
    PROVE  IInv'
  <1> USE DEF IInv
  <1>1. FromBackend(w)
    BY DEF WorkerReady
  <1>2. left' = left /\ bpc' = "frontend" /\ bpc = "poll"
    BY DEF WorkerReady, FromBackend, LeftAfter
  <1>3. TypeOK'
    BY <1>1, <1>2, FromBackendKeeps DEF WorkerReady, FromBackend, TypeOK, workerVars
  <1>4. RepliesMissing' /\ FrontDefined'
    BY <1>1, <1>2, FromBackendKeeps DEF RepliesMissing, FrontDefined
  <1> QED
    BY <1>1, <1>3, <1>4, FromBackendKeeps

LEMMA ForwardReplyStep ==
    ASSUME IInv, NEW w \in Worker, ForwardReply(w)
    PROVE  IInv'
  <1> USE DEF IInv
  <1>1. FromBackend(w) /\ bpc = "poll" /\ Head(toBroker[w]) \in Client
    BY DEF ForwardReply, FromBackend
  <1>2. left' = left - 1 /\ left >= 1
    BY <1>1, MessageAssumption DEF FromBackend, LeftAfter, RepliesMissing
  <1>3. Cardinality(Client) \in Nat
    BY FS_CardinalityType, ThreadsAssumption
  <1>4. left' \in 0 .. Cardinality(Client)
    <2>1. left \in 0 .. Cardinality(Client)
      BY DEF TypeOK
    <2> QED
      BY <1>2, <1>3, <2>1
  <1>5. replies' \in [Client -> Nat]
    <2>1. replies \in [Client -> Nat]
      BY DEF TypeOK
    <2>2. replies' = [replies EXCEPT ![Head(toBroker[w])] = @ + 1]
      BY DEF ForwardReply
    <2> QED
      BY <1>1, <2>1, <2>2
  <1>6. TypeOK'
    BY <1>1, <1>4, <1>5, FromBackendKeeps
    DEF ForwardReply, FromBackend, TypeOK, workerVars
  <1>7. RepliesMissing'
    <2>1. left' = 0 \/ left' >= 1
      BY <1>3, <1>4
    <2>2. bpc' \in {"poll", "frontend"} => left' # 0
      BY DEF ForwardReply
    <2> QED
      BY <2>1, <2>2 DEF RepliesMissing
  <1>8. FrontDefined'
    BY <1>1, FromBackendKeeps DEF FrontDefined
  <1> QED
    BY <1>1, <1>6, <1>7, <1>8, FromBackendKeeps

\* The front of the queue is sent m and leaves the queue.
LEMMA SendToFrontKeeps ==
    ASSUME IInv, workerQueue # << >>, NEW m \in {KILL} \cup Client,
           SendToWorker(Head(workerQueue), m), workerQueue' = Tail(workerQueue),
           UNCHANGED <<toBroker, wpc, job>>
    PROVE  /\ workerQueue' \in Seq(Worker)
           /\ IsInjective(workerQueue')
           /\ toWorker' \in [Worker -> Seq({KILL} \cup Client)]
           /\ OnePlace'
  <1> USE DEF IInv
  <1> DEFINE h == Head(workerQueue)
  <1>1. h \in Worker /\ h \in Range(workerQueue) /\ workerQueue' \in Seq(Worker)
    BY TailPositions, HeadIsMember DEF TypeOK
  <1>2. IsInjective(workerQueue') /\ Range(workerQueue') = Range(workerQueue) \ {h}
    BY PopMembers DEF TypeOK
  <1>3. wpc[h] = "waiting" /\ toBroker[h] = << >> /\ toWorker[h] = << >>
    BY <1>1 DEF OnePlace, WorkerInOnePlace
  <1>4. Append(toWorker[h], m) \in Seq({KILL} \cup Client) /\ Len(Append(toWorker[h], m)) = 1
    BY <1>3, FirstMessage
  <1>5. /\ toWorker' \in [Worker -> Seq({KILL} \cup Client)]
        /\ toWorker'[h] = Append(toWorker[h], m)
        /\ \A v \in Worker \ {h} : toWorker'[v] = toWorker[v]
    BY <1>1, <1>4 DEF SendToWorker, TypeOK
  <1>6. OnePlace'
    <2>1. ASSUME NEW v \in Worker, v = h PROVE WorkerInOnePlace(v)'
      <3>1. v \notin Range(workerQueue')
        BY <1>2, <2>1
      <3>2. toBroker'[v] = << >> /\ wpc'[v] = "waiting" /\ Len(toWorker'[v]) = 1
        BY <1>3, <1>4, <1>5, <2>1
      <3> QED
        BY <3>1, <3>2, EmptyLength DEF WorkerInOnePlace
    <2>2. ASSUME NEW v \in Worker, v # h PROVE WorkerInOnePlace(v)'
      <3>1. WorkerInOnePlace(v)
        BY DEF OnePlace
      <3>2. toWorker'[v] = toWorker[v] /\ (v \in Range(workerQueue') <=> v \in Range(workerQueue))
        BY <1>2, <1>5, <2>2
      <3> QED
        BY <3>1, <3>2 DEF WorkerInOnePlace
    <2> QED
      BY <2>1, <2>2 DEF OnePlace
  <1> QED
    BY <1>1, <1>2, <1>5, <1>6

LEMMA ForwardRequestStep ==
    ASSUME IInv, ForwardRequest
    PROVE  IInv'
  <1> USE DEF IInv
  <1>1. frontend # << >> /\ workerQueue # << >> /\ frontend \in Seq(Client)
    BY DEF ForwardRequest, FrontDefined, TypeOK
  <1>2. Head(frontend) \in Client /\ frontend' \in Seq(Client)
    BY <1>1, TailPositions DEF ForwardRequest
  <1>3. /\ workerQueue' \in Seq(Worker)
        /\ IsInjective(workerQueue')
        /\ toWorker' \in [Worker -> Seq({KILL} \cup Client)]
        /\ OnePlace'
    BY <1>1, <1>2, SendToFrontKeeps DEF ForwardRequest, PopWorker, workerVars
  <1>4. TypeOK'
    BY <1>2, <1>3 DEF ForwardRequest, TypeOK, workerVars
  <1>5. RepliesMissing' /\ FrontDefined'
    BY DEF ForwardRequest, RepliesMissing, FrontDefined
  <1> QED
    BY <1>3, <1>4, <1>5

LEMMA KillStep ==
    ASSUME IInv, Kill
    PROVE  IInv'
  <1> USE DEF IInv
  <1>1. /\ workerQueue' \in Seq(Worker)
        /\ IsInjective(workerQueue')
        /\ toWorker' \in [Worker -> Seq({KILL} \cup Client)]
        /\ OnePlace'
    BY SendToFrontKeeps DEF Kill, NoWorkerLeft, workerVars
  <1>2. TypeOK'
    BY <1>1 DEF Kill, TypeOK, workerVars
  <1>3. RepliesMissing' /\ FrontDefined'
    BY DEF Kill, RepliesMissing, FrontDefined
  <1> QED
    BY <1>1, <1>2, <1>3

\* The other steps of main only go on, and look at the sockets.
LEMMA MainGoesOnStep ==
    ASSUME IInv, OnlyFrontend \/ NoRequest \/ JoinClients \/ KillsDone \/ JoinWorkers
    PROVE  IInv'
  <1> USE DEF IInv, OnlyFrontend, NoRequest, JoinClients, KillsDone, JoinWorkers
  <1>1. UNCHANGED <<workerQueue, left, frontend, toBroker, toWorker, wpc, job, cpc, replies>>
    BY DEF workerVars
  <1>2. TypeOK'
    BY <1>1 DEF TypeOK
  <1>3. IsInjective(workerQueue') /\ OnePlace'
    BY <1>1 DEF OnePlace, WorkerInOnePlace
  <1>4. RepliesMissing'
    BY <1>1 DEF RepliesMissing
  <1>5. FrontDefined'
    BY <1>1 DEF FrontDefined, FrontendReady
  <1> QED
    BY <1>2, <1>3, <1>4, <1>5

----------------------------------------------------------------------------
(***************************************************************************)
(* The steps of the threads.                                               *)
(***************************************************************************)

LEMMA ClientStep ==
    ASSUME IInv, NEW c \in Client, ClientThread(c)
    PROVE  IInv'
  <1> USE DEF IInv
  <1>1. /\ UNCHANGED <<bpc, workerQueue, revents, left, toBroker, toWorker, wpc, job, replies>>
        /\ frontend' \in {frontend, Append(frontend, c)}
        /\ cpc' \in [Client -> {"new", "waiting", "ended"}]
    BY DEF ClientThread, ClientSends, ClientEnds, brokerVars, workerVars, TypeOK
  <1>2. frontend' \in Seq(Client) /\ (frontend # << >> => frontend' # << >>)
    <2>1. frontend \in Seq(Client)
      BY DEF TypeOK
    <2>2. Append(frontend, c) \in Seq(Client) /\ Append(frontend, c) # << >>
      BY <2>1, AppendPositions
    <2> QED
      BY <1>1, <2>1, <2>2
  <1>3. TypeOK'
    BY <1>1, <1>2 DEF TypeOK
  <1>4. IsInjective(workerQueue') /\ OnePlace' /\ RepliesMissing'
    BY <1>1 DEF OnePlace, WorkerInOnePlace, RepliesMissing
  <1>5. FrontDefined'
    BY <1>1, <1>2 DEF FrontDefined
  <1> QED
    BY <1>3, <1>4, <1>5

\* A worker that has nothing queued or on its way sends m.
LEMMA SendToBrokerKeeps ==
    ASSUME IInv, NEW w \in Worker, wpc[w] # "waiting", NEW m \in {READY} \cup Client,
           SendToBroker(w, m), wpc' = [wpc EXCEPT ![w] = "waiting"],
           job' \in [Worker -> Client \cup {NoJob}],
           \A v \in Worker \ {w} : job'[v] = job[v],
           UNCHANGED <<bpc, workerQueue, revents, left, frontend, toWorker, cpc, replies>>
    PROVE  IInv'
  <1> USE DEF IInv
  <1>1. w \notin Range(workerQueue) /\ toBroker[w] = << >> /\ toWorker[w] = << >>
    BY DEF OnePlace, WorkerInOnePlace
  <1>2. Append(toBroker[w], m) \in Seq({READY} \cup Client) /\ Len(Append(toBroker[w], m)) = 1
    BY <1>1, FirstMessage
  <1>3. /\ toBroker' \in [Worker -> Seq({READY} \cup Client)]
        /\ toBroker'[w] = Append(toBroker[w], m)
        /\ \A v \in Worker \ {w} : toBroker'[v] = toBroker[v]
    BY <1>2 DEF SendToBroker, TypeOK
  <1>4. /\ wpc' \in [Worker -> {"new", "waiting", "working", "ended"}]
        /\ wpc'[w] = "waiting"
        /\ \A v \in Worker \ {w} : wpc'[v] = wpc[v]
    BY DEF TypeOK
  <1>5. TypeOK'
    BY <1>3, <1>4 DEF TypeOK
  <1>6. OnePlace'
    <2>1. WorkerInOnePlace(w)'
      <3>1. w \notin Range(workerQueue') /\ toWorker'[w] = << >>
        BY <1>1
      <3>2. wpc'[w] = "waiting" /\ Len(toBroker'[w]) = 1
        BY <1>2, <1>3, <1>4
      <3> QED
        BY <3>1, <3>2, EmptyLength DEF WorkerInOnePlace
    <2>2. ASSUME NEW v \in Worker, v # w PROVE WorkerInOnePlace(v)'
      <3>1. WorkerInOnePlace(v)
        BY DEF OnePlace
      <3> QED
        BY <1>3, <1>4, <2>2, <3>1 DEF WorkerInOnePlace
    <2> QED
      BY <2>1, <2>2 DEF OnePlace
  <1>7. IsInjective(workerQueue') /\ RepliesMissing' /\ FrontDefined'
    BY DEF RepliesMissing, FrontDefined
  <1> QED
    BY <1>5, <1>6, <1>7

LEMMA WorkerSendsStep ==
    ASSUME IInv, NEW w \in Worker, WorkerStarts(w) \/ WorkerReplies(w)
    PROVE  IInv'
  <1>1. CASE WorkerStarts(w)
    BY <1>1, SendToBrokerKeeps DEF WorkerStarts, brokerVars, IInv, TypeOK
  <1>2. CASE WorkerReplies(w)
    <2>1. job[w] \in {READY} \cup Client
      BY <1>2 DEF WorkerReplies, IInv, OnePlace, WorkerInOnePlace
    <2>2. /\ job' \in [Worker -> Client \cup {NoJob}]
          /\ \A v \in Worker \ {w} : job'[v] = job[v]
      BY <1>2 DEF WorkerReplies, IInv, TypeOK
    <2> QED
      BY <1>2, <2>1, <2>2, SendToBrokerKeeps DEF WorkerReplies, brokerVars
  <1> QED
    BY <1>1, <1>2

LEMMA WorkerReceivesStep ==
    ASSUME IInv, NEW w \in Worker, WorkerReceives(w)
    PROVE  IInv'
  <1> USE DEF IInv
  <1>1. toWorker[w] \in Seq({KILL} \cup Client) /\ toWorker[w] # << >>
    BY DEF WorkerReceives, TypeOK
  <1>2. /\ w \notin Range(workerQueue) /\ toBroker[w] = << >>
        /\ Len(toWorker[w]) <= 1
    BY <1>1 DEF OnePlace, WorkerInOnePlace
  <1>3. /\ Tail(toWorker[w]) \in Seq({KILL} \cup Client) /\ Tail(toWorker[w]) = << >>
        /\ Head(toWorker[w]) \in {KILL} \cup Client
    BY <1>1, <1>2, OnlyMessage
  <1>4. /\ toWorker' \in [Worker -> Seq({KILL} \cup Client)]
        /\ toWorker'[w] = << >>
        /\ \A v \in Worker \ {w} : toWorker'[v] = toWorker[v]
    BY <1>3 DEF WorkerReceives, TypeOK
  <1>5. /\ wpc' \in [Worker -> {"new", "waiting", "working", "ended"}]
        /\ job' \in [Worker -> Client \cup {NoJob}]
        /\ wpc'[w] = "working" => job'[w] \in Client
        /\ \A v \in Worker \ {w} : wpc'[v] = wpc[v] /\ job'[v] = job[v]
    BY <1>3 DEF WorkerReceives, TypeOK
  <1>6. UNCHANGED <<bpc, workerQueue, revents, left, frontend, toBroker, cpc, replies>>
    BY DEF WorkerReceives, brokerVars
  <1>7. TypeOK'
    BY <1>4, <1>5, <1>6 DEF TypeOK
  <1>8. OnePlace'
    BY <1>2, <1>4, <1>5, <1>6 DEF OnePlace, WorkerInOnePlace
  <1>9. IsInjective(workerQueue') /\ RepliesMissing' /\ FrontDefined'
    BY <1>6 DEF RepliesMissing, FrontDefined
  <1> QED
    BY <1>7, <1>8, <1>9

----------------------------------------------------------------------------

LEMMA NextIInv == IInv /\ [Next]_vars => IInv'
  <1> SUFFICES ASSUME IInv, [Next]_vars PROVE IInv'
    OBVIOUS
  <1>1. CASE Main
    BY <1>1, WorkerReadyStep, ForwardReplyStep, ForwardRequestStep, KillStep,
       MainGoesOnStep DEF Main
  <1>2. ASSUME NEW c \in Client, ClientThread(c) PROVE IInv'
    BY <1>2, ClientStep
  <1>3. ASSUME NEW w \in Worker, WorkerThread(w) PROVE IInv'
    BY <1>3, WorkerSendsStep, WorkerReceivesStep DEF WorkerThread
  <1>4. CASE UNCHANGED vars
    BY <1>4 DEF vars, IInv, TypeOK, OnePlace, WorkerInOnePlace, RepliesMissing, FrontDefined
  <1> QED
    BY <1>1, <1>2, <1>3, <1>4 DEF Next

THEOREM Invariance == Spec => []IInv
  BY InitIInv, NextIInv, PTL DEF Spec

\* Main, threads and channels keep their types: client_count, in particular, is
\* not counted below zero (lbbroker.cpp:103).
THEOREM TypeCorrect == Spec => []TypeOK
  <1>1. IInv => TypeOK
    BY DEF IInv
  <1> QED
    BY <1>1, Invariance, PTL

\* A queued worker is idle, however threads start and messages cross
\* (lbbroker.cpp:73, 122, 151).
THEOREM QueuedIdle == Spec => []QueuedAreIdle
  <1>1. IInv => QueuedAreIdle
    <2> SUFFICES ASSUME IInv, NEW w \in Range(workerQueue)
                 PROVE  wpc[w] = "waiting" /\ toWorker[w] = << >> /\ toBroker[w] = << >>
      BY DEF QueuedAreIdle, IInv
    <2>1. w \in Worker
      BY MembersTyped DEF IInv, TypeOK
    <2> QED
      BY <2>1 DEF IInv, OnePlace, WorkerInOnePlace
  <1> QED
    BY <1>1, Invariance, PTL

\* The front of the queue and a request exist where main takes them
\* (lbbroker.cpp:109, 122).
THEOREM FrontIsDefined == Spec => []FrontDefined
  <1>1. IInv => FrontDefined
    BY DEF IInv
  <1> QED
    BY <1>1, Invariance, PTL

----------------------------------------------------------------------------
(***************************************************************************)
(* Where the requests are.                                                 *)
(***************************************************************************)

\* The requests and replies that worker w has, or that are on their way to or
\* from it.
Held(w) == Client \cap (Range(toBroker[w]) \cup Range(toWorker[w]) \cup {job[w]})

\* A request waits at the frontend, or is with one worker, or is answered, or has
\* not been made.
RequestInOnePlace(c) ==
    /\ replies[c] \in {0, 1}
    /\ cpc[c] = "new" => replies[c] = 0
    /\ cpc[c] = "new" \/ replies[c] = 1 =>
           c \notin Range(frontend) /\ \A w \in Worker : c \notin Held(w)
    /\ c \in Range(frontend) => \A w \in Worker : c \notin Held(w)
    /\ \A v, w \in Worker : c \in Held(v) /\ c \in Held(w) => v = w

RequestsInOnePlace == \A c \in Client : RequestInOnePlace(c)

Unanswered == {c \in Client : replies[c] = 0}

\* client_count is the number of replies that are missing.
Counted ==
    /\ left = Cardinality(Unanswered)
    /\ bpc \notin {"poll", "frontend"} => left = 0

BusyHasJob == \A w \in Worker : wpc[w] # "working" => job[w] = NoJob

\* That no request is answered twice takes that it is never in two places; that
\* the last reply is the last takes that the count is of those places.
Places ==
    /\ IInv
    /\ IsInjective(frontend)
    /\ RequestsInOnePlace
    /\ Counted
    /\ BusyHasJob

\* A worker holds one request at most.
LEMMA HeldIsOne ==
    ASSUME IInv, BusyHasJob, NEW w \in Worker
    PROVE  /\ toBroker[w] # << >> => Held(w) = Client \cap {Head(toBroker[w])}
           /\ toWorker[w] # << >> => Held(w) = Client \cap {Head(toWorker[w])}
           /\ wpc[w] = "working" => Held(w) = {job[w]}
           /\ wpc[w] # "working" /\ toBroker[w] = << >> /\ toWorker[w] = << >> => Held(w) = {}
  <1>1. /\ toBroker[w] \in Seq({READY} \cup Client)
        /\ toWorker[w] \in Seq({KILL} \cup Client)
        /\ WorkerInOnePlace(w)
        /\ wpc[w] # "working" => job[w] = NoJob
    BY DEF IInv, TypeOK, OnePlace, BusyHasJob
  <1>2. \A S : \A q \in Seq(S) : Len(q) <= 1 /\ q # << >> => Range(q) = {Head(q)}
    <2>1. ASSUME NEW S, NEW q \in Seq(S), Len(q) <= 1, q # << >>
          PROVE  Range(q) = {Head(q)}
      <3>1. Len(q) = 1 /\ DOMAIN q = {1} /\ Head(q) = q[1]
        BY <2>1, OnlyMessage, TailPositions
      <3> QED
        BY <3>1 DEF Range
    <2> QED
      BY <2>1
  <1>3. Range(<< >>) = {}
    BY DEF Range
  <1>4. toBroker[w] # << >> => Range(toBroker[w]) = {Head(toBroker[w])}
    BY <1>1, <1>2 DEF WorkerInOnePlace
  <1>5. toWorker[w] # << >> => Range(toWorker[w]) = {Head(toWorker[w])}
    BY <1>1, <1>2 DEF WorkerInOnePlace
  <1>6. NoJob \notin Client
    BY MessageAssumption
  <1>7. CASE toBroker[w] # << >>
    BY <1>1, <1>3, <1>4, <1>6, <1>7 DEF WorkerInOnePlace, Held
  <1>8. CASE toWorker[w] # << >>
    BY <1>1, <1>3, <1>5, <1>6, <1>8 DEF WorkerInOnePlace, Held
  <1>9. CASE toBroker[w] = << >> /\ toWorker[w] = << >>
    BY <1>1, <1>3, <1>6, <1>9 DEF WorkerInOnePlace, Held
  <1> QED
    BY <1>7, <1>8, <1>9

LEMMA InitPlaces == Init => Places
  <1> SUFFICES ASSUME Init PROVE Places
    OBVIOUS
  <1>1. \A w \in Worker : Held(w) = {}
    BY MessageAssumption DEF Init, Held, Range
  <1>2. IsInjective(frontend) /\ Range(frontend) = {}
    BY DEF Init, IsInjective, Range
  <1>3. RequestsInOnePlace
    BY <1>1, <1>2 DEF Init, RequestsInOnePlace, RequestInOnePlace
  <1>4. Counted
    <2>1. Unanswered = Client
      BY DEF Init, Unanswered
    <2> QED
      BY <2>1 DEF Init, Counted
  <1> QED
    BY <1>2, <1>3, <1>4, InitIInv DEF Init, Places, BusyHasJob

\* A step by which nobody makes, gets or answers a request.
Stays ==
    /\ UNCHANGED <<cpc, replies, frontend, left>>
    /\ \A w \in Worker : Held(w)' \subseteq Held(w)

LEMMA StaysKeeps ==
    ASSUME Places, IInv', Stays, BusyHasJob', bpc' \notin {"poll", "frontend"} => left = 0
    PROVE  Places'
  <1>1. RequestsInOnePlace'
    BY DEF Places, Stays, RequestsInOnePlace, RequestInOnePlace
  <1>2. Counted'
    BY DEF Places, Stays, Counted, Unanswered
  <1> QED
    BY <1>1, <1>2 DEF Places, Stays

LEMMA MainStays ==
    ASSUME Places,
           OnlyFrontend \/ NoRequest \/ JoinClients \/ Kill \/ KillsDone \/ JoinWorkers
    PROVE  Stays /\ Places'
  <1>1. IInv'
    BY MainGoesOnStep, KillStep DEF Places
  <1>2. /\ UNCHANGED <<cpc, replies, frontend, left, toBroker, wpc, job>>
        /\ bpc' \notin {"poll", "frontend"} => bpc \notin {"poll", "frontend"}
    BY DEF OnlyFrontend, NoRequest, JoinClients, Kill, KillsDone, JoinWorkers, workerVars
  <1>3. \A w \in Worker : Held(w)' = Held(w)
    <2>1. CASE Kill
      <3>1. PICK h \in Worker : h = Head(workerQueue) /\ h \in Range(workerQueue)
        BY <2>1, TailPositions, HeadIsMember DEF Places, IInv, TypeOK, Kill, NoWorkerLeft
      <3>2. toWorker[h] = << >> /\ toWorker' = [toWorker EXCEPT ![h] = Append(@, KILL)]
        BY <2>1, <3>1 DEF Places, IInv, OnePlace, WorkerInOnePlace, Kill, SendToWorker
      <3>3. /\ toWorker'[h] = <<KILL>>
            /\ \A v \in Worker \ {h} : toWorker'[v] = toWorker[v]
        <4>1. toWorker \in [Worker -> Seq({KILL} \cup Client)]
          BY DEF Places, IInv, TypeOK
        <4>2. Append(toWorker[h], KILL) = <<KILL>>
          BY <3>2
        <4> QED
          BY <3>2, <4>1, <4>2
      <3>4. Range(<<KILL>>) = {KILL} /\ Range(<< >>) = {}
        BY DEF Range
      <3> QED
        BY <1>2, <3>2, <3>3, <3>4, MessageAssumption DEF Held
    <2>2. CASE ~ Kill
      BY <1>2, <2>2 DEF Held, OnlyFrontend, NoRequest, JoinClients, KillsDone, JoinWorkers
    <2> QED
      BY <2>1, <2>2
  <1>4. Stays /\ BusyHasJob'
    BY <1>2, <1>3 DEF Stays, Places, BusyHasJob
  <1> QED
    BY <1>1, <1>2, <1>4, StaysKeeps DEF Places, Counted

LEMMA WorkerStays ==
    ASSUME Places, NEW w \in Worker, WorkerThread(w)
    PROVE  Stays /\ Places'
  <1>1. IInv'
    BY WorkerSendsStep, WorkerReceivesStep DEF Places, WorkerThread
  <1>2. UNCHANGED <<cpc, replies, frontend, left, bpc>>
    BY DEF WorkerThread, WorkerStarts, WorkerReceives, WorkerReplies, brokerVars
  <1>3. \A v \in Worker \ {w} :
            /\ wpc'[v] = wpc[v] /\ job'[v] = job[v]
            /\ toBroker'[v] = toBroker[v] /\ toWorker'[v] = toWorker[v]
    BY DEF Places, IInv, TypeOK, WorkerThread, WorkerStarts, WorkerReceives, WorkerReplies,
           SendToBroker
  <1>4. /\ Range(<< >>) = {}
        /\ \A x : Range(<<x>>) = {x}
    BY DEF Range
  <1>5. /\ toBroker \in [Worker -> Seq({READY} \cup Client)]
        /\ toWorker \in [Worker -> Seq({KILL} \cup Client)]
        /\ wpc \in [Worker -> {"new", "waiting", "working", "ended"}]
        /\ job \in [Worker -> Client \cup {NoJob}]
        /\ WorkerInOnePlace(w)
        /\ wpc[w] # "working" => job[w] = NoJob
    BY DEF Places, IInv, TypeOK, OnePlace, BusyHasJob
  <1>6. Held(w)' \subseteq Held(w) /\ (wpc'[w] # "working" => job'[w] = NoJob)
    <2>1. CASE WorkerStarts(w)
      <3>1. toBroker[w] = << >> /\ job[w] = NoJob
        BY <1>5, <2>1 DEF WorkerStarts, WorkerInOnePlace
      <3>2. /\ toBroker'[w] = <<READY>> /\ UNCHANGED <<toWorker, job>>
        BY <1>5, <2>1, <3>1 DEF WorkerStarts, SendToBroker
      <3> QED
        BY <1>4, <3>1, <3>2, MessageAssumption DEF Held
    <2>2. CASE WorkerReceives(w)
      <3>1. /\ wpc[w] = "waiting" /\ toWorker[w] # << >> /\ toBroker[w] = << >>
            /\ Len(toWorker[w]) <= 1 /\ job[w] = NoJob
        BY <1>5, <2>2 DEF WorkerReceives, WorkerInOnePlace
      <3>2. Tail(toWorker[w]) = << >> /\ Held(w) = Client \cap {Head(toWorker[w])}
        BY <1>5, <3>1, OnlyMessage, HeldIsOne DEF Places
      <3>3. /\ toWorker'[w] = << >> /\ toBroker' = toBroker
            /\ \/ wpc'[w] = "ended" /\ job'[w] = NoJob
               \/ wpc'[w] = "working" /\ job'[w] = Head(toWorker[w])
        BY <1>5, <2>2, <3>1, <3>2 DEF WorkerReceives
      <3> QED
        BY <1>4, <3>1, <3>2, <3>3, MessageAssumption DEF Held
    <2>3. CASE WorkerReplies(w)
      <3>1. /\ toBroker[w] = << >> /\ toWorker[w] = << >>
            /\ Held(w) = {job[w]}
        BY <1>5, <2>3, HeldIsOne DEF WorkerReplies, WorkerInOnePlace, Places
      <3>2. /\ toBroker'[w] = <<job[w]>> /\ job'[w] = NoJob /\ toWorker' = toWorker
        BY <1>5, <2>3, <3>1 DEF WorkerReplies, SendToBroker
      <3> QED
        BY <1>4, <3>1, <3>2, MessageAssumption DEF Held
    <2> QED
      BY <2>1, <2>2, <2>3 DEF WorkerThread
  <1>7. Stays /\ BusyHasJob'
    BY <1>2, <1>3, <1>6 DEF Stays, Held, Places, BusyHasJob
  <1> QED
    BY <1>1, <1>2, <1>7, StaysKeeps DEF Places, Counted

\* Reading a message of a worker takes it from the worker.
LEMMA FromBackendTakes ==
    ASSUME Places, NEW w \in Worker, FromBackend(w)
    PROVE  /\ Held(w) = Client \cap {Head(toBroker[w])}
           /\ Held(w)' = {}
           /\ \A v \in Worker \ {w} : Held(v)' = Held(v)
           /\ BusyHasJob'
  <1>1. /\ toBroker[w] \in Seq({READY} \cup Client) /\ toBroker[w] # << >>
        /\ toBroker \in [Worker -> Seq({READY} \cup Client)]
        /\ WorkerInOnePlace(w)
    BY DEF Places, IInv, TypeOK, OnePlace, FromBackend
  <1>2. toWorker[w] = << >> /\ Tail(toBroker[w]) = << >> /\ wpc[w] # "working"
    BY <1>1, OnlyMessage DEF WorkerInOnePlace
  <1>3. job[w] = NoJob
    BY <1>2 DEF Places, BusyHasJob
  <1>4. /\ toBroker'[w] = << >>
        /\ \A v \in Worker \ {w} : toBroker'[v] = toBroker[v]
        /\ UNCHANGED <<toWorker, job, wpc>>
    BY <1>1, <1>2 DEF FromBackend, workerVars
  <1>5. Held(w)' = {}
    <2>1. Range(<< >>) = {}
      BY DEF Range
    <2> QED
      BY <1>2, <1>3, <1>4, <2>1, MessageAssumption DEF Held
  <1>6. (\A v \in Worker \ {w} : Held(v)' = Held(v)) /\ BusyHasJob'
    BY <1>4 DEF Held, Places, BusyHasJob
  <1> QED
    BY <1>1, <1>5, <1>6, HeldIsOne DEF Places

LEMMA WorkerReadyStays ==
    ASSUME Places, NEW w \in Worker, WorkerReady(w)
    PROVE  Stays /\ Places'
  <1>1. IInv' /\ FromBackend(w)
    BY WorkerReadyStep DEF Places, WorkerReady
  <1>2. UNCHANGED <<cpc, replies, frontend, left>> /\ bpc' = "frontend"
    BY DEF WorkerReady, FromBackend, LeftAfter
  <1>3. Stays /\ BusyHasJob'
    BY <1>1, <1>2, FromBackendTakes DEF Stays
  <1> QED
    BY <1>1, <1>2, <1>3, StaysKeeps

\* The reply that is forwarded is to a request that nobody has any more.
Answers(c) ==
    /\ cpc[c] # "new" /\ replies[c] = 0 /\ c \notin Range(frontend)
    /\ replies' = [replies EXCEPT ![c] = @ + 1]
    /\ UNCHANGED <<cpc, frontend>>

LEMMA ForwardReplyAnswers ==
    ASSUME Places, NEW w \in Worker, ForwardReply(w)
    PROVE  (\E c \in Client : Answers(c)) /\ Places'
  <1>1. PICK c \in Client : c = Head(toBroker[w])
    BY DEF ForwardReply
  <1>2. IInv' /\ FromBackend(w) /\ bpc = "poll"
    BY ForwardReplyStep DEF Places, ForwardReply, FromBackend
  <1>3. /\ Held(w) = {c} /\ Held(w)' = {} /\ BusyHasJob'
        /\ \A v \in Worker \ {w} : Held(v)' = Held(v)
    BY <1>1, <1>2, FromBackendTakes
  <1>4. RequestInOnePlace(c)
    BY DEF Places, RequestsInOnePlace
  <1>5. /\ cpc[c] # "new" /\ replies[c] = 0 /\ c \notin Range(frontend)
        /\ \A v \in Worker \ {w} : c \notin Held(v)
    BY <1>3, <1>4 DEF RequestInOnePlace
  <1>6. /\ replies' = [replies EXCEPT ![c] = @ + 1]
        /\ UNCHANGED <<cpc, frontend>>
        /\ left' = left - 1
        /\ bpc' = IF left' = 0 THEN "join clients" ELSE "frontend"
    BY <1>1, <1>2, MessageAssumption DEF ForwardReply, FromBackend, LeftAfter
  <1>7. replies'[c] = 1 /\ \A d \in Client \ {c} : replies'[d] = replies[d]
    <2>1. replies \in [Client -> Nat] /\ replies[c] = 0
      BY <1>5 DEF Places, IInv, TypeOK
    <2>2. replies' = [replies EXCEPT ![c] = @ + 1]
      BY <1>6
    <2> QED
      BY <2>1, <2>2
  <1>8. RequestsInOnePlace'
    <2>1. ASSUME NEW d \in Client PROVE RequestInOnePlace(d)'
      <3>1. RequestInOnePlace(d) /\ \A v \in Worker : Held(v)' \subseteq Held(v)
        BY <1>3 DEF Places, RequestsInOnePlace
      <3>2. CASE d = c
        <4>1. \A v \in Worker : c \notin Held(v)'
          BY <1>3, <1>5
        <4> QED
          BY <1>5, <1>6, <1>7, <3>2, <4>1 DEF RequestInOnePlace
      <3>3. CASE d # c
        BY <1>6, <1>7, <3>1, <3>3 DEF RequestInOnePlace
      <3> QED
        BY <3>2, <3>3
    <2> QED
      BY <2>1 DEF RequestsInOnePlace
  <1>9. Counted'
    <2>1. Unanswered \in SUBSET Client
      BY DEF Unanswered
    <2>2. IsFiniteSet(Unanswered) /\ Cardinality(Unanswered) \in Nat
      BY <2>1, FS_Subset, FS_CardinalityType, ThreadsAssumption
    <2>3. Unanswered' = Unanswered \ {c} /\ c \in Unanswered
      BY <1>5, <1>7 DEF Unanswered
    <2>4. Cardinality(Unanswered \ {c}) = Cardinality(Unanswered) - 1
      BY <2>2, <2>3, FS_RemoveElement
    <2> QED
      BY <1>6, <2>3, <2>4 DEF Places, Counted
  <1>10. IsInjective(frontend)'
    BY <1>6 DEF Places
  <1>11. Answers(c)
    BY <1>5, <1>6 DEF Answers
  <1> QED
    BY <1>2, <1>3, <1>8, <1>9, <1>10, <1>11 DEF Places

\* The request that is forwarded waited at the front, and nowhere else.
Hands(c) ==
    /\ cpc[c] # "new" /\ replies[c] = 0 /\ c \in Range(frontend)
    /\ Range(frontend') = Range(frontend) \ {c}
    /\ UNCHANGED <<cpc, replies>>

LEMMA ForwardRequestHands ==
    ASSUME Places, ForwardRequest
    PROVE  (\E c \in Client : Hands(c)) /\ Places'
  <1>1. /\ IInv' /\ frontend # << >> /\ workerQueue # << >>
        /\ frontend \in Seq(Client) /\ workerQueue \in Seq(Worker)
        /\ IsInjective(frontend)
    BY ForwardRequestStep DEF Places, IInv, TypeOK, FrontDefined, ForwardRequest
  <1>2. PICK c \in Client : c = Head(frontend) /\ c \in Range(frontend)
    BY <1>1, TailPositions, HeadIsMember
  <1>3. PICK w \in Worker : w = Head(workerQueue) /\ w \in Range(workerQueue)
    BY <1>1, TailPositions, HeadIsMember
  <1>4. /\ frontend' = Tail(frontend)
        /\ toWorker' = [toWorker EXCEPT ![w] = Append(@, c)]
        /\ bpc = "frontend" /\ bpc' = "poll"
        /\ UNCHANGED <<cpc, replies, left, toBroker, wpc, job>>
    BY <1>2, <1>3 DEF ForwardRequest, SendToWorker, workerVars
  <1>5. IsInjective(frontend') /\ Range(frontend') = Range(frontend) \ {c}
    BY <1>1, <1>2, <1>4, PopMembers
  <1>6. /\ wpc[w] = "waiting" /\ toBroker[w] = << >> /\ toWorker[w] = << >>
        /\ job[w] = NoJob
    BY <1>3 DEF Places, IInv, OnePlace, WorkerInOnePlace, BusyHasJob
  <1>7. toWorker'[w] = <<c>> /\ \A v \in Worker \ {w} : toWorker'[v] = toWorker[v]
    <2>1. toWorker \in [Worker -> Seq({KILL} \cup Client)]
      BY DEF Places, IInv, TypeOK
    <2>2. Append(toWorker[w], c) = <<c>>
      BY <1>6
    <2> QED
      BY <1>4, <2>1, <2>2
  <1>8. Held(w) = {} /\ Held(w)' = {c} /\ \A v \in Worker \ {w} : Held(v)' = Held(v)
    <2>1. Range(<<c>>) = {c} /\ Range(<< >>) = {}
      BY DEF Range
    <2> QED
      BY <1>4, <1>6, <1>7, <2>1, MessageAssumption DEF Held
  <1>9. RequestInOnePlace(c)
    BY DEF Places, RequestsInOnePlace
  <1>10. cpc[c] # "new" /\ replies[c] = 0 /\ \A v \in Worker : c \notin Held(v)
    BY <1>2, <1>9 DEF RequestInOnePlace
  <1>11. RequestsInOnePlace'
    <2>1. ASSUME NEW d \in Client PROVE RequestInOnePlace(d)'
      <3>1. RequestInOnePlace(d)
        BY DEF Places, RequestsInOnePlace
      <3>2. CASE d = c
        <4>1. \A v \in Worker : c \in Held(v)' => v = w
          BY <1>8, <1>10
        <4>2. c \notin Range(frontend')
          BY <1>5
        <4> QED
          BY <1>4, <1>10, <3>2, <4>1, <4>2 DEF RequestInOnePlace
      <3>3. CASE d # c
        <4>1. \A v \in Worker : d \in Held(v)' <=> d \in Held(v)
          BY <1>8, <3>3
        <4>2. d \in Range(frontend') <=> d \in Range(frontend)
          BY <1>5, <3>3
        <4> QED
          BY <1>4, <3>1, <4>1, <4>2 DEF RequestInOnePlace
      <3> QED
        BY <3>2, <3>3
    <2> QED
      BY <2>1 DEF RequestsInOnePlace
  <1>12. Counted' /\ BusyHasJob'
    BY <1>4 DEF Places, Counted, Unanswered, BusyHasJob
  <1>13. Hands(c)
    BY <1>2, <1>4, <1>5, <1>10 DEF Hands
  <1> QED
    BY <1>1, <1>5, <1>11, <1>12, <1>13 DEF Places

\* A client makes its request, or ends with the reply.
Makes(c) ==
    /\ cpc[c] = "new" /\ replies[c] = 0 /\ c \notin Range(frontend)
    /\ cpc' = [cpc EXCEPT ![c] = "waiting"]
    /\ Range(frontend') = Range(frontend) \cup {c}
    /\ UNCHANGED replies

EndsWaiting(c) ==
    /\ cpc[c] = "waiting"
    /\ cpc' = [cpc EXCEPT ![c] = "ended"]
    /\ UNCHANGED <<replies, frontend>>

LEMMA ClientMakes ==
    ASSUME Places, NEW c \in Client, ClientThread(c)
    PROVE  (Makes(c) \/ EndsWaiting(c)) /\ Places'
  <1>1. IInv'
    BY ClientStep DEF Places
  <1>2. UNCHANGED <<bpc, left, toBroker, toWorker, wpc, job, replies>>
    BY DEF ClientThread, ClientSends, ClientEnds, brokerVars, workerVars
  <1>3. (\A w \in Worker : Held(w)' = Held(w)) /\ Counted' /\ BusyHasJob'
    BY <1>2 DEF Held, Places, Counted, Unanswered, BusyHasJob
  <1>4. RequestInOnePlace(c) /\ frontend \in Seq(Client) /\ IsInjective(frontend)
    BY DEF Places, RequestsInOnePlace, IInv, TypeOK
  <1>5. CASE ClientSends(c)
    <2>1. cpc[c] = "new" /\ replies[c] = 0 /\ c \notin Range(frontend)
      BY <1>4, <1>5 DEF ClientSends, RequestInOnePlace
    <2>2. /\ cpc' = [cpc EXCEPT ![c] = "waiting"]
          /\ frontend' = Append(frontend, c)
      BY <1>5 DEF ClientSends
    <2>3. IsInjective(frontend') /\ Range(frontend') = Range(frontend) \cup {c}
      BY <1>4, <2>1, <2>2, PushMembers
    <2>4. cpc'[c] = "waiting" /\ \A d \in Client \ {c} : cpc'[d] = cpc[d]
      BY <2>2 DEF Places, IInv, TypeOK
    <2>5. ASSUME NEW d \in Client PROVE RequestInOnePlace(d)'
      <3>1. RequestInOnePlace(d)
        BY DEF Places, RequestsInOnePlace
      <3>2. CASE d = c
        BY <1>2, <1>3, <2>1, <2>4, <3>1, <3>2 DEF RequestInOnePlace
      <3>3. CASE d # c
        BY <1>2, <1>3, <2>3, <2>4, <3>1, <3>3 DEF RequestInOnePlace
      <3> QED
        BY <3>2, <3>3
    <2>6. Makes(c)
      BY <1>2, <2>1, <2>2, <2>3 DEF Makes
    <2> QED
      BY <1>1, <1>3, <2>3, <2>5, <2>6 DEF Places, RequestsInOnePlace
  <1>6. CASE ClientEnds(c)
    <2>1. EndsWaiting(c)
      BY <1>6 DEF ClientEnds, EndsWaiting
    <2>2. \A d \in Client : cpc'[d] = "new" <=> cpc[d] = "new"
      BY <2>1 DEF EndsWaiting, Places, IInv, TypeOK
    <2>3. RequestsInOnePlace'
      BY <1>3, <2>1, <2>2 DEF EndsWaiting, Places, RequestsInOnePlace, RequestInOnePlace
    <2>4. IsInjective(frontend)'
      BY <1>4, <2>1 DEF EndsWaiting
    <2> QED
      BY <1>1, <1>3, <2>1, <2>3, <2>4 DEF Places
  <1> QED
    BY <1>5, <1>6 DEF ClientThread

\* What a step does for the requests.
LEMMA NextPlaces ==
    ASSUME Places, [Next]_vars
    PROVE  /\ Places'
           /\ \/ UNCHANGED <<cpc, replies, frontend>>
              \/ \E c \in Client : Makes(c) \/ Hands(c) \/ Answers(c) \/ EndsWaiting(c)
  <1>1. CASE Main
    BY <1>1, WorkerReadyStays, ForwardReplyAnswers, ForwardRequestHands, MainStays
       DEF Main, Stays
  <1>2. ASSUME NEW c \in Client, ClientThread(c)
        PROVE  (Makes(c) \/ EndsWaiting(c)) /\ Places'
    BY <1>2, ClientMakes
  <1>3. ASSUME NEW w \in Worker, WorkerThread(w)
        PROVE  Stays /\ Places'
    BY <1>3, WorkerStays
  <1>4. CASE UNCHANGED vars
    <2>1. Stays /\ BusyHasJob'
      BY <1>4 DEF vars, Stays, Held, Places, BusyHasJob
    <2>2. IInv'
      BY <1>4, NextIInv DEF Places
    <2> QED
      BY <1>4, <2>1, <2>2, StaysKeeps DEF vars, Stays, Places, Counted
  <1> QED
    BY <1>1, <1>2, <1>3, <1>4 DEF Next, Stays

THEOREM PlacesInvariance == Spec => []Places
  <1>1. Places /\ [Next]_vars => Places'
    BY NextPlaces
  <1> QED
    BY InitPlaces, <1>1, PTL DEF Spec

\* When main joins the clients, each has its reply and no request is left: the
\* last of client_count replies is the last of all (lbbroker.cpp:103, 145).
THEOREM ClientsAreJoinable == Spec => []ClientsJoinable
  <1>1. ASSUME Places PROVE ClientsJoinable
    <2> SUFFICES ASSUME bpc \notin {"poll", "frontend"}
                 PROVE  /\ \A c \in Client : replies[c] = 1
                        /\ frontend = << >>
                        /\ \A w \in Worker : job[w] = NoJob
      BY DEF ClientsJoinable
    <2>1. Unanswered = {}
      <3>1. Unanswered \in SUBSET Client /\ Cardinality(Unanswered) = 0
        BY <1>1 DEF Places, Counted, Unanswered
      <3> QED
        BY <3>1, FS_Subset, FS_EmptySet, ThreadsAssumption
    <2>2. \A c \in Client : replies[c] = 1
      BY <1>1, <2>1 DEF Places, RequestsInOnePlace, RequestInOnePlace, Unanswered
    <2>3. \A c \in Client : c \notin Range(frontend) /\ \A w \in Worker : c \notin Held(w)
      BY <1>1, <2>2 DEF Places, RequestsInOnePlace, RequestInOnePlace
    <2>4. frontend = << >>
      <3>1. frontend \in Seq(Client)
        BY <1>1 DEF Places, IInv, TypeOK
      <3> QED
        BY <2>3, <3>1, TailPositions, HeadIsMember
    <2>5. ASSUME NEW w \in Worker PROVE job[w] = NoJob
      <3>1. job[w] \in Client => job[w] \in Held(w)
        BY DEF Held
      <3>2. job[w] \in Client \cup {NoJob}
        BY <1>1 DEF Places, IInv, TypeOK
      <3> QED
        BY <2>3, <3>1, <3>2
    <2> QED
      BY <2>2, <2>4, <2>5
  <1> QED
    BY <1>1, PlacesInvariance, PTL

----------------------------------------------------------------------------
(***************************************************************************)
(* The broker implements RequestService.                                   *)
(***************************************************************************)

\* Who is not concerned by a step has the status it had.
LEMMA StatusStays ==
    ASSUME NEW c \in Client, RequestInOnePlace(c), RequestInOnePlace(c)',
           cpc'[c] = "new" <=> cpc[c] = "new",
           c \in Range(frontend') <=> c \in Range(frontend),
           replies'[c] = replies[c]
    PROVE  Status(c)' = Status(c)
  BY DEF Status

\* A step of the broker is a step of the service, or none.
LEMMA StepServes ==
    ASSUME Places, Places', [Next]_vars
    PROVE  [Service!Next]_<<[c \in Client |-> Status(c)], replies>>
  <1>1. \A c \in Client : RequestInOnePlace(c) /\ RequestInOnePlace(c)'
    BY DEF Places, RequestsInOnePlace
  <1>2. cpc \in [Client -> {"new", "waiting", "ended"}] /\ replies \in [Client -> Nat]
    BY DEF Places, IInv, TypeOK
  <1>3. ASSUME NEW c \in Client, NEW s,
               \A d \in Client \ {c} : Status(d)' = Status(d),
               Status(c)' = s
        PROVE  [d \in Client |-> Status(d)]' = [[d \in Client |-> Status(d)] EXCEPT ![c] = s]
    BY <1>3
  <1>4. CASE UNCHANGED <<cpc, replies, frontend>>
    <2>1. \A d \in Client : Status(d)' = Status(d)
      BY <1>1, <1>4, StatusStays
    <2> QED
      BY <1>4, <2>1
  <1>5. ASSUME NEW c \in Client, Makes(c) PROVE Service!Submit(c)
    <2>1. /\ cpc'[c] = "waiting" /\ replies' = replies
          /\ \A d \in Client \ {c} : cpc'[d] = cpc[d] /\ (d \in Range(frontend') <=> d \in Range(frontend))
          /\ c \in Range(frontend')
      BY <1>2, <1>5 DEF Makes
    <2>2. Status(c) = "new" /\ Status(c)' = "waiting"
      BY <1>1, <1>5, <2>1 DEF Makes, Status, RequestInOnePlace
    <2>3. \A d \in Client \ {c} : Status(d)' = Status(d)
      BY <1>1, <2>1, StatusStays
    <2> QED
      BY <1>3, <2>1, <2>2, <2>3 DEF Service!Submit, Service!Move
  <1>6. ASSUME NEW c \in Client, Hands(c) PROVE Service!Assign(c)
    <2>1. /\ cpc' = cpc /\ replies' = replies /\ c \notin Range(frontend')
          /\ \A d \in Client \ {c} : d \in Range(frontend') <=> d \in Range(frontend)
      BY <1>6 DEF Hands
    <2>2. Status(c) = "waiting" /\ Status(c)' = "assigned"
      BY <1>1, <1>6, <2>1 DEF Hands, Status, RequestInOnePlace
    <2>3. \A d \in Client \ {c} : Status(d)' = Status(d)
      BY <1>1, <2>1, StatusStays
    <2> QED
      BY <1>3, <2>1, <2>2, <2>3 DEF Service!Assign, Service!Move
  <1>7. ASSUME NEW c \in Client, Answers(c) PROVE Service!Answer(c)
    <2>1. /\ cpc' = cpc /\ frontend' = frontend /\ replies'[c] = 1
          /\ replies' = [replies EXCEPT ![c] = @ + 1]
          /\ \A d \in Client \ {c} : replies'[d] = replies[d]
      BY <1>2, <1>7 DEF Answers
    <2>2. Status(c) = "assigned" /\ Status(c)' = "answered"
      BY <1>1, <1>7, <2>1 DEF Answers, Status, RequestInOnePlace
    <2>3. \A d \in Client \ {c} : Status(d)' = Status(d)
      BY <1>1, <2>1, StatusStays
    <2> QED
      BY <1>3, <2>1, <2>2, <2>3 DEF Service!Answer, Service!Move
  <1>8. ASSUME NEW c \in Client, EndsWaiting(c)
        PROVE  UNCHANGED <<[d \in Client |-> Status(d)], replies>>
    <2>1. /\ frontend' = frontend /\ replies' = replies
          /\ \A d \in Client : cpc'[d] = "new" <=> cpc[d] = "new"
      BY <1>2, <1>8 DEF EndsWaiting
    <2>2. \A d \in Client : Status(d)' = Status(d)
      BY <1>1, <2>1, StatusStays
    <2> QED
      BY <2>1, <2>2
  <1>9. \/ UNCHANGED <<cpc, replies, frontend>>
        \/ \E c \in Client : Makes(c) \/ Hands(c) \/ Answers(c) \/ EndsWaiting(c)
    BY NextPlaces
  <1> QED
    BY <1>4, <1>5, <1>6, <1>7, <1>8, <1>9 DEF Service!Next

\* Every behavior of the broker is one of a service that hands each request to one
\* worker and answers it once (lbbroker.cpp:83, 109).
THEOREM ServesEachOnce == Spec => ServesOnce
  <1>1. Init => Service!Init
    <2> SUFFICES ASSUME Init PROVE Service!Init
      OBVIOUS
    <2>1. \A c \in Client : Status(c) = "new"
      BY InitPlaces DEF Places, RequestsInOnePlace, RequestInOnePlace, Init, Status
    <2> QED
      BY <2>1 DEF Init, Service!Init
  <1>2. Places /\ Places' /\ [Next]_vars =>
            [Service!Next]_<<[c \in Client |-> Status(c)], replies>>
    BY StepServes
  <1> QED
    BY <1>1, <1>2, PlacesInvariance, PTL DEF Spec, ServesOnce, Service!Spec

----------------------------------------------------------------------------
(***************************************************************************)
(* What the service promises, which holds of what implements it.           *)
(***************************************************************************)

Stages == [c \in Client |-> Status(c)]

\* Each request is at some stage, and its reply has been sent when it is "answered".
Promised(s, n) ==
    /\ s \in [Client -> Service!Stage]
    /\ n \in [Client -> {0, 1}]
    /\ \A c \in Client : n[c] = 1 <=> s[c] = "answered"

LEMMA PromiseIs ==
    /\ Service!TypeOK /\ Service!AnsweredOnce <=> Promised(Stages, replies)
    /\ (Service!TypeOK /\ Service!AnsweredOnce)' <=> Promised(Stages', replies')
  <1>1. Service!TypeOK /\ Service!AnsweredOnce <=> Promised(Stages, replies)
    BY DEF Promised, Stages, Service!TypeOK, Service!AnsweredOnce
  <1>2. (Service!TypeOK /\ Service!AnsweredOnce)' <=> Promised(Stages', replies')
    BY DEF Promised, Stages, Service!TypeOK, Service!AnsweredOnce
  <1> QED
    BY <1>1, <1>2

LEMMA PromiseMoves ==
    ASSUME NEW s, NEW n, Promised(s, n), NEW c \in Client,
           s[c] # "answered", NEW to \in Service!Stage \ {"answered"}
    PROVE  Promised([s EXCEPT ![c] = to], n)
  BY DEF Promised

LEMMA PromiseAnswers ==
    ASSUME NEW s, NEW n, Promised(s, n), NEW c \in Client, s[c] = "assigned"
    PROVE  Promised([s EXCEPT ![c] = "answered"], [n EXCEPT ![c] = @ + 1])
  <1>1. n \in [Client -> {0, 1}] /\ n[c] = 0
    BY DEF Promised
  <1>2. [n EXCEPT ![c] = @ + 1] = [n EXCEPT ![c] = 1]
    BY <1>1
  <1>3. [n EXCEPT ![c] = 1] \in [Client -> {0, 1}]
    BY <1>1
  <1>4. [s EXCEPT ![c] = "answered"] \in [Client -> Service!Stage]
    BY DEF Promised, Service!Stage
  <1>5. ASSUME NEW d \in Client
        PROVE  [n EXCEPT ![c] = 1][d] = 1 <=> [s EXCEPT ![c] = "answered"][d] = "answered"
    <2>1. CASE d = c
      BY <2>1 DEF Promised
    <2>2. CASE d # c
      BY <2>2 DEF Promised
    <2> QED
      BY <2>1, <2>2
  <1> QED
    BY <1>2, <1>3, <1>4, <1>5 DEF Promised

LEMMA PromiseLoses ==
    ASSUME NEW s, NEW n, Promised(s, n),
           NEW S \in SUBSET {c \in Client : s[c] \in {"waiting", "assigned"}}
    PROVE  Promised([c \in Client |-> IF c \in S THEN "lost" ELSE s[c]], n)
  BY DEF Promised, Service!Stage

LEMMA ServicePromises == Service!Spec => []Service!AnsweredOnce
  <1>1. Service!Init => Service!TypeOK /\ Service!AnsweredOnce
    BY DEF Service!Init, Service!TypeOK, Service!AnsweredOnce, Service!Stage
  <1>2. ASSUME Service!TypeOK, Service!AnsweredOnce, Service!Next
        PROVE  (Service!TypeOK /\ Service!AnsweredOnce)'
    <2>1. Promised(Stages, replies)
      BY <1>2, PromiseIs
    <2>2. CASE Service!Lose
      <3>1. /\ \E S \in SUBSET {c \in Client : Stages[c] \in {"waiting", "assigned"}} :
                   Stages' = [c \in Client |-> IF c \in S THEN "lost" ELSE Stages[c]]
            /\ replies' = replies
        BY <2>2 DEF Service!Lose, Stages
      <3> QED
        BY <2>1, <3>1, PromiseLoses, PromiseIs
    <2>3. ASSUME NEW c \in Client, Service!Submit(c) \/ Service!Assign(c)
          PROVE  Promised(Stages', replies')
      <3>1. PICK to \in {"waiting", "assigned"} : Stages' = [Stages EXCEPT ![c] = to]
        BY <2>3 DEF Service!Submit, Service!Assign, Service!Move, Stages
      <3>2. Stages[c] # "answered" /\ replies' = replies
        BY <2>3 DEF Service!Submit, Service!Assign, Service!Move, Stages
      <3>3. to \in Service!Stage \ {"answered"}
        BY DEF Service!Stage
      <3>4. Promised([Stages EXCEPT ![c] = to], replies)
        BY <2>1, <3>2, <3>3, PromiseMoves
      <3> QED
        BY <3>1, <3>2, <3>4
    <2>4. ASSUME NEW c \in Client, Service!Answer(c)
          PROVE  Promised(Stages', replies')
      <3>1. /\ Stages[c] = "assigned"
            /\ Stages' = [Stages EXCEPT ![c] = "answered"]
            /\ replies' = [replies EXCEPT ![c] = @ + 1]
        BY <2>4 DEF Service!Answer, Service!Move, Stages
      <3> QED
        BY <2>1, <3>1, PromiseAnswers
    <2> QED
      BY <1>2, <2>2, <2>3, <2>4, PromiseIs DEF Service!Next
  <1>3. ASSUME Service!TypeOK, Service!AnsweredOnce, UNCHANGED <<Stages, replies>>
        PROVE  (Service!TypeOK /\ Service!AnsweredOnce)'
    BY <1>3, PromiseIs
  <1> QED
    BY <1>1, <1>2, <1>3, PTL DEF Service!Spec, Stages

\* A client's reply is the only one (lbbroker.cpp:83, 109): what is promised by the
\* service holds of the broker that implements it.
THEOREM EachAnsweredOnce == Spec => []Service!AnsweredOnce
  BY ServesEachOnce, ServicePromises, PTL DEF ServesOnce

=============================================================================
