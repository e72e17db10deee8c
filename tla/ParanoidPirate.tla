--------------------------- MODULE ParanoidPirate ---------------------------
(***************************************************************************)
(* Robust reliable queuing: one ppqueue process (ppqueue.cpp) between its  *)
(* clients and a set of ppworker processes (ppworker.cpp).                 *)
(*                                                                         *)
(* The queue's loop is split at the points where another process can act:  *)
(* poll and handle one backend message, forward one request, heartbeat,    *)
(* then purge one entry at a time.  A worker's loop is one action for each *)
(* branch, with two places where it sleeps: while it does the work of a    *)
(* request and before it reconnects.  Each direction of each connection is *)
(* a FIFO sequence.                                                        *)
(*                                                                         *)
(* Time is Tick, one heartbeat_interval.  It passes while the queue is in  *)
(* zmq::poll and not inside its loop body, which is the assumption written *)
(* at ppqueue.cpp:108: the queue itself does not pause.  Workers may be as *)
(* slow as they like, which covers the simulated overload and the growing  *)
(* reconnect delay.                                                        *)
(***************************************************************************)
EXTENDS Workers, FiniteSets

CONSTANTS Request,      \* the requests clients will send, each once
          LIVENESS,     \* heartbeat_liveness
          MaxInFlight,  \* bound: the clock waits while a channel is this long
          MaxRestarts   \* bound: how often an aborted queue is started again

ASSUME LivenessAssumption == LIVENESS \in Nat \ {0}
ASSUME BoundsAssumption == MaxInFlight \in Nat /\ MaxRestarts \in Nat

\* Messages of one frame; any other message is the frames of a request or,
\* since the worker echoes them, of the reply to it.
READY == "READY"
HEARTBEAT == "HEARTBEAT"

ASSUME MessageAssumption == READY \notin Request /\ HEARTBEAT \notin Request

Message == {READY, HEARTBEAT} \cup Request

VARIABLES
    ws,        \* workers: the queue's workers_t
    qpc,       \* where the queue's loop is
    revents,   \* items[1].revents & ZMQ_POLLIN, from the last poll
    qdue,      \* now() > heartbeat_at, in the queue
    index,     \* the index of purge's loop
    restarts,  \* how often the queue has been started again
    frontend,  \* requests waiting at the queue's frontend socket
    toQueue,   \* toQueue[w]: messages from w the queue has not read
    toWorker,  \* toWorker[w]: messages to w on its present connection
    wpc,       \* wpc[w]: where the loop of w is
    job,       \* job[w]: the request w is working on
    liveness,  \* liveness[w]: polls w may still see time out
    elapsed,   \* elapsed[w]: an interval passed since w last saw one pass
    sent,      \* the requests that clients have sent
    answers    \* answers[r]: how many replies to r went to the frontend

queueVars == <<ws, qpc, revents, qdue, index, restarts>>
workerVars == <<wpc, job, liveness, elapsed>>
vars == <<ws, qpc, revents, qdue, index, restarts, frontend, toQueue,
          toWorker, wpc, job, liveness, elapsed, sent, answers>>

NoJob == "none"

ASSUME NoJobAssumption == NoJob \notin Request

TypeOK ==
    /\ ws \in WorkersValue
    /\ qpc \in {"poll", "frontend", "beat", "purge", "aborted"}
    /\ revents \in BOOLEAN
    /\ qdue \in BOOLEAN
    /\ index \in Nat
    /\ restarts \in Nat
    /\ frontend \in Seq(Request)
    /\ toQueue \in [Worker -> Seq(Message)]
    /\ toWorker \in [Worker -> Seq({HEARTBEAT} \cup Request)]
    /\ wpc \in [Worker -> {"down", "polling", "working", "sleeping", "exited"}]
    /\ job \in [Worker -> Request \cup {NoJob}]
    /\ liveness \in [Worker -> 0 .. LIVENESS]
    /\ elapsed \in [Worker -> BOOLEAN]
    /\ sent \in SUBSET Request
    /\ answers \in [Request -> Nat]

Init ==
    /\ ws = NoWorkers
    /\ qpc = "poll"
    /\ revents = FALSE
    /\ qdue = FALSE
    /\ index = 0
    /\ restarts = 0
    /\ frontend = << >>
    /\ toQueue = [w \in Worker |-> << >>]
    /\ toWorker = [w \in Worker |-> << >>]
    /\ wpc = [w \in Worker |-> "down"]
    /\ job = [w \in Worker |-> NoJob]
    /\ liveness = [w \in Worker |-> 0]
    /\ elapsed = [w \in Worker |-> FALSE]
    /\ sent = {}
    /\ answers = [r \in Request |-> 0]

----------------------------------------------------------------------------
(***************************************************************************)
(* The sockets.  Each connection of a worker starts with READY, so a READY *)
(* the queue has not read marks a connection that the ROUTER may not yet   *)
(* route to, and one further back marks a connection that is gone.         *)
(***************************************************************************)
Running(w) == wpc[w] \notin {"down", "exited"}

\* What every connection of a worker starts with (new_socket).
Greeting == <<READY>>

MayReach(w) ==
    /\ wpc[w] \in {"polling", "working"}
    /\ \A i \in 2 .. Len(toQueue[w]) : toQueue[w][i] # READY

MayMiss(w) ==
    \/ wpc[w] \notin {"polling", "working"}
    \/ READY \in Range(toQueue[w])

\* The queue sends m to each worker of S: ROUTER drops what it cannot route.
SendToWorkers(S, m) ==
    \E reached \in SUBSET S :
        /\ \A w \in reached : MayReach(w)
        /\ \A w \in S \ reached : MayMiss(w)
        /\ toWorker' = [w \in Worker |->
               IF w \in reached THEN Append(toWorker[w], m) ELSE toWorker[w]]

SendToQueue(w, msgs) == toQueue' = [toQueue EXCEPT ![w] = @ \o msgs]

\* worker.send("HEARTBEAT", 9), at the end of a round of the worker's loop.
HeartbeatIfDue(w) == IF elapsed[w] THEN <<HEARTBEAT>> ELSE << >>

----------------------------------------------------------------------------
(***************************************************************************)
(* ppqueue.                                                                *)
(***************************************************************************)

\* What zmq::poll reports of the frontend: it is polled only when a worker
\* is available.
AnyRequestWaiting == frontend # << >>
RequestAndTwoWorkers == frontend # << >> /\ Len(ws.queue) > 1
FrontendReady == frontend # << >> /\ ~ Empty(ws)

ReceiveFrom(w) ==
    /\ qpc = "poll"
    /\ toQueue[w] # << >>
    /\ toQueue' = [toQueue EXCEPT ![w] = Tail(@)]
    /\ revents' = FrontendReady
    /\ UNCHANGED <<qdue, index, restarts, frontend, toWorker, workerVars, sent>>

HandleReady(w) ==
    /\ ReceiveFrom(w)
    /\ Head(toQueue[w]) = READY
    /\ LET erased == Erase(ws, w) IN
           IF PushAllowed(erased, w)
           THEN ws' = Push(erased, w) /\ qpc' = "frontend"
           ELSE ws' = erased /\ qpc' = "aborted"
    /\ UNCHANGED answers

HandleHeartbeat(w) ==
    /\ ReceiveFrom(w)
    /\ Head(toQueue[w]) = HEARTBEAT
    /\ IF RefreshAllowed(ws, w)
       THEN ws' = Refresh(ws, w) /\ qpc' = "frontend"
       ELSE ws' = ws /\ qpc' = "aborted"
    /\ UNCHANGED answers

HandleReply(w) ==
    /\ ReceiveFrom(w)
    /\ Head(toQueue[w]) \in Request
    /\ answers' = [answers EXCEPT ![Head(toQueue[w])] = @ + 1]
    /\ ws' = TryPush(ws, w)
    /\ qpc' = "frontend"

\* The poll times out or finds only the frontend ready.
PollNoBackend ==
    /\ qpc = "poll"
    /\ revents' = FrontendReady
    /\ qpc' = "frontend"
    /\ UNCHANGED <<ws, qdue, index, restarts, frontend, toQueue, toWorker,
                   workerVars, sent, answers>>

\* frames.push_front(workers.front()): who a request goes to.
EveryIdleWorker == Range(ws.queue)
Recipient == {FrontId(ws)}

ForwardRequest ==
    /\ qpc = "frontend"
    /\ revents
    /\ SendToWorkers(Recipient, Head(frontend))
    /\ frontend' = Tail(frontend)
    /\ ws' = Pop(ws)
    /\ qpc' = "beat"
    /\ UNCHANGED <<revents, qdue, index, restarts, toQueue, workerVars, sent,
                   answers>>

NoRequest ==
    /\ qpc = "frontend"
    /\ ~ revents
    /\ qpc' = "beat"
    /\ UNCHANGED <<ws, revents, qdue, index, restarts, frontend, toQueue,
                   toWorker, workerVars, sent, answers>>

NobodyToBeat ==
    /\ qpc = "beat"
    /\ Empty(ws)
    /\ qpc' = "poll"
    /\ UNCHANGED <<ws, revents, qdue, index, restarts, frontend, toQueue,
                   toWorker, workerVars, sent, answers>>

SendHeartbeats ==
    /\ qpc = "beat"
    /\ ~ Empty(ws)
    /\ IF qdue THEN SendToWorkers(Range(ws.queue), HEARTBEAT)
               ELSE UNCHANGED toWorker
    /\ qdue' = FALSE
    /\ qpc' = "purge"
    /\ index' = 0
    /\ UNCHANGED <<ws, revents, restarts, frontend, toQueue, workerVars, sent,
                   answers>>

PurgeOne ==
    /\ qpc = "purge"
    /\ PurgeMore(ws, index)
    /\ ws' = PurgeBody(ws)
    /\ index' = index + 1
    /\ UNCHANGED <<qpc, revents, qdue, restarts, frontend, toQueue, toWorker,
                   workerVars, sent, answers>>

PurgeDone ==
    /\ qpc = "purge"
    /\ ~ PurgeMore(ws, index)
    /\ qpc' = "poll"
    /\ index' = 0
    /\ UNCHANGED <<ws, revents, qdue, restarts, frontend, toQueue, toWorker,
                   workerVars, sent, answers>>

\* What can be left of a channel whose first messages are lost.
LateParts(s) == {SubSeq(s, n, Len(s)) : n \in 1 .. Len(s) + 1}

\* An operator starts the aborted queue again.  Its sockets are new, so it has
\* lost its frontend and its table; a worker's DEALER connects again by itself
\* and delivers what it had not yet handed to the dead queue.
Restart ==
    /\ qpc = "aborted"
    /\ restarts < MaxRestarts
    /\ restarts' = restarts + 1
    /\ ws' = NoWorkers
    /\ qpc' = "poll"
    /\ revents' = FALSE
    /\ qdue' = FALSE
    /\ index' = 0
    /\ frontend' = << >>
    /\ toQueue' \in [Worker -> UNION {LateParts(toQueue[w]) : w \in Worker}]
    /\ \A w \in Worker : toQueue'[w] \in LateParts(toQueue[w])
    /\ UNCHANGED <<toWorker, workerVars, sent, answers>>

----------------------------------------------------------------------------
(***************************************************************************)
(* ppworker.                                                               *)
(***************************************************************************)

Start(w) ==
    /\ wpc[w] = "down"
    /\ wpc' = [wpc EXCEPT ![w] = "polling"]
    /\ liveness' = [liveness EXCEPT ![w] = LIVENESS]
    /\ SendToQueue(w, Greeting)
    /\ UNCHANGED <<queueVars, frontend, toWorker, job, elapsed, sent, answers>>

WorkerReceives(w) ==
    /\ wpc[w] = "polling"
    /\ toWorker[w] # << >>
    /\ toWorker' = [toWorker EXCEPT ![w] = Tail(@)]

\* A request: the worker sleeps over it for at least one interval.
TakeRequest(w) ==
    /\ WorkerReceives(w)
    /\ Head(toWorker[w]) \in Request
    /\ job' = [job EXCEPT ![w] = Head(toWorker[w])]
    /\ wpc' = [wpc EXCEPT ![w] = "working"]
    /\ elapsed' = [elapsed EXCEPT ![w] = FALSE]
    /\ UNCHANGED <<queueVars, frontend, toQueue, liveness, sent, answers>>

\* The process ends: in "Simulating crash...", with the request it has just
\* received, or interrupted at any time.  It never comes back, since its
\* identity is made of its process id.
Exit(w) ==
    /\ Running(w)
    /\ wpc' = [wpc EXCEPT ![w] = "exited"]
    /\ job' = [job EXCEPT ![w] = NoJob]
    /\ liveness' = [liveness EXCEPT ![w] = 0]
    /\ elapsed' = [elapsed EXCEPT ![w] = FALSE]
    /\ toWorker' = [toWorker EXCEPT ![w] = << >>]
    /\ \E n \in 0 .. Len(toQueue[w]) :
           toQueue' = [toQueue EXCEPT ![w] = SubSeq(@, 1, n)]
    /\ UNCHANGED <<queueVars, frontend, sent, answers>>

SendReply(w) ==
    /\ wpc[w] = "working"
    /\ elapsed[w]
    /\ SendToQueue(w, <<job[w]>> \o HeartbeatIfDue(w))
    /\ job' = [job EXCEPT ![w] = NoJob]
    /\ wpc' = [wpc EXCEPT ![w] = "polling"]
    /\ liveness' = [liveness EXCEPT ![w] = LIVENESS]
    /\ elapsed' = [elapsed EXCEPT ![w] = FALSE]
    /\ UNCHANGED <<queueVars, frontend, toWorker, sent, answers>>

TakeHeartbeat(w) ==
    /\ WorkerReceives(w)
    /\ Head(toWorker[w]) = HEARTBEAT
    /\ liveness' = [liveness EXCEPT ![w] = LIVENESS]
    /\ SendToQueue(w, HeartbeatIfDue(w))
    /\ elapsed' = [elapsed EXCEPT ![w] = FALSE]
    /\ UNCHANGED <<queueVars, frontend, wpc, job, sent, answers>>

\* --liveness == 0
OneTooMany(w) == liveness[w] = 0
OutOfLiveness(w) == liveness[w] = 1

\* The poll times out: after LIVENESS of these in a row the queue is taken to
\* be unreachable and the worker sleeps before it reconnects.  It does not read
\* its old socket again, so what arrives there from now on is as good as lost.
PollTimeout(w) ==
    /\ wpc[w] = "polling"
    /\ elapsed[w]
    /\ liveness' = [liveness EXCEPT ![w] = @ - 1]
    /\ elapsed' = [elapsed EXCEPT ![w] = FALSE]
    /\ IF OutOfLiveness(w)
       THEN /\ wpc' = [wpc EXCEPT ![w] = "sleeping"]
            /\ toWorker' = [toWorker EXCEPT ![w] = << >>]
            /\ UNCHANGED toQueue
       ELSE /\ SendToQueue(w, HeartbeatIfDue(w))
            /\ UNCHANGED <<toWorker, wpc>>
    /\ UNCHANGED <<queueVars, frontend, job, sent, answers>>

\* worker = new_socket(context, id): the old socket goes and, since it does not
\* linger, so does what it had not yet sent.
Reconnect(w) ==
    /\ wpc[w] = "sleeping"
    /\ elapsed[w]
    /\ wpc' = [wpc EXCEPT ![w] = "polling"]
    /\ liveness' = [liveness EXCEPT ![w] = LIVENESS]
    /\ elapsed' = [elapsed EXCEPT ![w] = FALSE]
    /\ \E n \in 0 .. Len(toQueue[w]) :
           toQueue' = [toQueue EXCEPT
               ![w] = SubSeq(@, 1, n) \o Greeting \o HeartbeatIfDue(w)]
    /\ UNCHANGED <<queueVars, frontend, toWorker, job, sent, answers>>

----------------------------------------------------------------------------

\* A client's request reaches the frontend.
Submit(r) ==
    /\ r \notin sent
    /\ qpc # "aborted"
    /\ sent' = sent \cup {r}
    /\ frontend' = Append(frontend, r)
    /\ UNCHANGED <<queueVars, toQueue, toWorker, workerVars, answers>>

\* A heartbeat interval passes.
Tick ==
    /\ qpc \in {"poll", "aborted"}
    /\ \A w \in Worker : Len(toQueue[w]) < MaxInFlight
    /\ \A w \in Worker : wpc[w] = "polling" => Len(toWorker[w]) < MaxInFlight
    /\ ws' = ClockTick(ws)
    /\ qdue' = TRUE
    /\ elapsed' = [w \in Worker |-> Running(w)]
    /\ UNCHANGED <<qpc, revents, index, restarts, frontend, toQueue, toWorker,
                   wpc, job, liveness, sent, answers>>

QueueHandles(w) == HandleReady(w) \/ HandleHeartbeat(w) \/ HandleReply(w)

QueueLoop ==
    \/ PollNoBackend
    \/ ForwardRequest
    \/ NoRequest
    \/ NobodyToBeat
    \/ SendHeartbeats
    \/ PurgeOne
    \/ PurgeDone

WorkerStep(w) ==
    \/ TakeRequest(w)
    \/ SendReply(w)
    \/ TakeHeartbeat(w)
    \/ PollTimeout(w)
    \/ Reconnect(w)

Next ==
    \/ QueueLoop
    \/ Restart
    \/ Tick
    \/ \E w \in Worker : QueueHandles(w) \/ Start(w) \/ WorkerStep(w) \/ Exit(w)
    \/ \E r \in Request : Submit(r)

(***************************************************************************)
(* Fairness.  The queue keeps looping and each of its polls reports, sooner *)
(* or later, a message that has arrived from any worker (ROUTER takes turns *)
(* over its connections); a worker that runs keeps looping; time passes.    *)
(* Nobody has to start a worker, send a request, crash or start the queue   *)
(* again.                                                                   *)
(***************************************************************************)
Fairness ==
    /\ WF_vars(QueueLoop)
    /\ SF_vars(Tick)
    /\ \A w \in Worker : SF_vars(QueueHandles(w)) /\ WF_vars(WorkerStep(w))

Spec == Init /\ [][Next]_vars

FairSpec == Spec /\ Fairness

----------------------------------------------------------------------------
(***************************************************************************)
(* Safety.                                                                 *)
(***************************************************************************)

\* The idle queue and the expiry table never disagree about who is idle,
\* whatever mix of READY, heartbeats, replies, dispatches, purges and restarts
\* the loop goes through (ppqueue.cpp:33, workers.cpp).
IdleConsistent == Consistent(ws)

\* The loop takes workers.front() of the deque when the frontend was reported
\* ready, which was decided before the backend message of the same round was
\* handled (ppqueue.cpp:40, 82): there is a request and a worker then.
FrontDefined == qpc = "frontend" /\ revents => frontend # << >> /\ ws.queue # << >>

\* assert(lookup_.count(identity)) at workers.cpp:59, which ppqueue runs for
\* each HEARTBEAT it reads: the worker that sent it is known.
HeartbeatsAreFromIdle ==
    \A w \in Worker :
        qpc = "poll" /\ toQueue[w] # << >> /\ Head(toQueue[w]) = HEARTBEAT =>
            RefreshAllowed(ws, w)

\* "purge efficiently removes dead workers from the queue" (workers.cpp:79):
\* nobody is left whose time had passed when the loop ends.
PurgeRemovesDead ==
    qpc = "purge" /\ ~ PurgeMore(ws, index) =>
        \A w \in Range(ws.queue) : ws.lookup[w] # Expired

\* A worker that has heard from its queue in time leaves the idle queue only
\* by being handed a request, or with the whole queue: purge, which rotates
\* the deque past its own shrinking bound, never drops it (workers.cpp:83).
LiveLeaveByDispatch ==
    [][\A w \in Range(ws.queue) \ Range(ws'.queue) :
           \/ ws.lookup[w] = Expired
           \/ qpc = "frontend" /\ w = Head(ws.queue) /\ Len(frontend') < Len(frontend)
           \/ qpc = "aborted"]_vars

----------------------------------------------------------------------------
(***************************************************************************)
(* Liveness.                                                               *)
(***************************************************************************)

Dead(w) == Knows(ws, w) /\ ws.lookup[w] = Expired

\* Purge may leave dead workers behind, but not for good: it rotates what it
\* did not look at to the front, where the next round finds it.
ExpiredLeave ==
    \A w \in Worker :
        Dead(w) ~> ~ Dead(w) \/ qpc = "aborted"

\* With a worker that keeps running, a waiting request does not wait for ever:
\* a worker the queue has forgotten, because its request was lost or because it
\* was purged, reconnects when it hears no more heartbeats (ppworker.cpp:85), and
\* is handed the request in the round that finds it idle, before purge can take
\* it away again (ppqueue.cpp:82, 111), unless the queue has aborted for good.
RequestsLeave ==
    \A w \in Worker, r \in Request :
        <>[]Running(w) =>
            (r \in Range(frontend) ~> r \notin Range(frontend) \/ qpc = "aborted")

----------------------------------------------------------------------------
(***************************************************************************)
(* The queue implements RequestService.                                    *)
(***************************************************************************)

Held(r) ==
    \E w \in Worker :
        job[w] = r \/ r \in Range(toQueue[w]) \/ r \in Range(toWorker[w])

Status(r) ==
    CASE r \notin sent -> "new"
      [] r \in sent /\ answers[r] > 0 -> "answered"
      [] r \in sent /\ answers[r] = 0 /\ r \in Range(frontend) -> "waiting"
      [] r \in sent /\ answers[r] = 0 /\ r \notin Range(frontend) /\ Held(r) -> "assigned"
      [] OTHER -> "lost"

Service == INSTANCE RequestService
    WITH status <- [r \in Request |-> Status(r)], replies <- answers

\* A request is in one place only, through dispatch, crash, reconnect and
\* restart, so that it is answered at most once and never after it was lost
\* (ppqueue.cpp:71, 82; ppworker.cpp:54, 94).
ServesOnce == Service!Spec

=============================================================================
