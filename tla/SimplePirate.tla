---------------------------- MODULE SimplePirate ----------------------------
(***************************************************************************)
(* Clients that try again (client-side-reliability/lpclient.cpp), the      *)
(* queue they use (basic-reliable-queuing/spqueue.cpp) and its workers     *)
(* (basic-reliable-queuing/spworker.cpp), which crash on a request now and *)
(* then.  Nobody sends heartbeats: a client that gets no reply in time     *)
(* closes its socket, opens another, and sends the same request again.     *)
(*                                                                         *)
(* A socket is identified to the queue by its client and its number, and a *)
(* request by its number in the client's sequence.  A poll may run out at  *)
(* any time, with the reply on its way or not even begun: a worker may be  *)
(* slower than a client is patient.                                        *)
(***************************************************************************)
EXTENDS Integers, Sequences, FiniteSets, Functions

CONSTANTS Client,
          Worker,          \* the worker processes that are ever started
          retries_allowed, \* tries the client makes without a reply
          CRASH_FREE,      \* requests a worker takes before it may crash
          MAX_WORKERS,     \* limit asserted of the queue of idle workers
          MaxRequests,     \* bound: requests of one client
          MaxRunning       \* bound: worker processes running at a time

ASSUME LimitsAssumption ==
    /\ IsFiniteSet(Worker)
    /\ retries_allowed \in Nat \ {0}
    /\ CRASH_FREE \in Nat
    /\ MAX_WORKERS \in Nat \ {0}
    /\ MaxRequests \in Nat
    /\ MaxRunning \in Nat

Nothing == 0

\* A request at the queue or a worker, and the reply to it: the socket of which
\* client it came from, and its number.
Message == Client \X (Nat \ {0}) \X (Nat \ {0})

\* No message: what a worker sends first, and what an idle worker has.
READY == << >>
NoJob == << >>

VARIABLES
    cpc,          \* cpc[c]: where client c is
    sequence,     \* sequence[c]
    retries_left, \* retries_left[c]
    socket,       \* socket[c]: how many sockets c has opened
    sent,         \* sent[c]: the number of the request on its way to the queue
    inbox,        \* inbox[c]: the number of the reply on its way to c
    qpc,          \* where the queue is
    worker_queue,
    revents,      \* items[1].revents & ZMQ_POLLIN
    frontend,     \* the requests that have arrived
    toQueue,      \* toQueue[w]: what worker w has sent
    toWorker,     \* toWorker[w]: what has been sent to w
    wpc,          \* wpc[w]: where w is
    job,          \* job[w]: the request w is working on, in a sequence
    cycles        \* cycles[w], up to where it no longer matters

clientVars == <<cpc, sequence, retries_left, socket, sent, inbox>>
queueVars == <<qpc, worker_queue, revents, frontend>>
workerVars == <<wpc, job, cycles>>
vars == <<clientVars, queueVars, toQueue, toWorker, workerVars>>

TypeOK ==
    /\ cpc \in [Client -> {"sending", "polling", "ended"}]
    /\ sequence \in [Client -> 0 .. MaxRequests]
    /\ retries_left \in [Client -> 0 .. retries_allowed]
    /\ socket \in [Client -> Nat \ {0}]
    /\ sent \in [Client -> Nat]
    /\ inbox \in [Client -> Nat]
    /\ qpc \in {"poll", "frontend"}
    /\ worker_queue \in Seq(Worker)
    /\ revents \in BOOLEAN
    /\ frontend \subseteq Message
    /\ toQueue \in [Worker -> Seq({READY} \cup Message)]
    /\ toWorker \in [Worker -> Seq(Message)]
    /\ wpc \in [Worker -> {"new", "waiting", "working", "crashed"}]
    /\ job \in [Worker -> Message \cup {NoJob}]
    /\ cycles \in [Worker -> 0 .. CRASH_FREE + 1]

Init ==
    /\ cpc = [c \in Client |-> "sending"]
    /\ sequence = [c \in Client |-> 0]
    /\ retries_left = [c \in Client |-> retries_allowed]
    /\ socket = [c \in Client |-> 1]
    /\ sent = [c \in Client |-> Nothing]
    /\ inbox = [c \in Client |-> Nothing]
    /\ qpc = "poll"
    /\ worker_queue = << >>
    /\ revents = FALSE
    /\ frontend = {}
    /\ toQueue = [w \in Worker |-> << >>]
    /\ toWorker = [w \in Worker |-> << >>]
    /\ wpc = [w \in Worker |-> "new"]
    /\ job = [w \in Worker |-> NoJob]
    /\ cycles = [w \in Worker |-> 0]

----------------------------------------------------------------------------
(***************************************************************************)
(* lpclient.                                                               *)
(***************************************************************************)

Send(c) ==
    /\ cpc[c] = "sending"
    /\ sequence[c] < MaxRequests
    /\ sequence' = [sequence EXCEPT ![c] = @ + 1]
    /\ sent' = [sent EXCEPT ![c] = sequence'[c]]
    /\ cpc' = [cpc EXCEPT ![c] = "polling"]
    /\ UNCHANGED <<retries_left, socket, inbox, queueVars, toQueue, toWorker, workerVars>>

\* A reply with another number leaves the client polling.
Receive(c) ==
    /\ cpc[c] = "polling"
    /\ inbox[c] # Nothing
    /\ inbox' = [inbox EXCEPT ![c] = Nothing]
    /\ IF inbox[c] = sequence[c]
       THEN /\ retries_left' = [retries_left EXCEPT ![c] = retries_allowed]
            /\ cpc' = [cpc EXCEPT ![c] = "sending"]
       ELSE UNCHANGED <<retries_left, cpc>>
    /\ UNCHANGED <<sequence, socket, sent, queueVars, toQueue, toWorker, workerVars>>

\* client = make_socket(context): what was on its way over the old socket, in
\* either direction, is discarded with it.
KeepSocket(c) == UNCHANGED <<socket, inbox>>
MakeSocket(c) ==
    /\ socket' = [socket EXCEPT ![c] = @ + 1]
    /\ inbox' = [inbox EXCEPT ![c] = Nothing]

\* zmq::poll returns without a reply, after 3 seconds at most.
NeverTimesOut(c) == FALSE
TimesOut(c) == cpc[c] = "polling"

\* --retries_left == 0
NoneLeftBefore(c) == retries_left[c] = 0
NoneLeft(c) == retries_left[c] - 1 = 0

TryAgain(c) ==
    /\ TimesOut(c)
    /\ ~ NoneLeft(c)
    /\ retries_left' = [retries_left EXCEPT ![c] = @ - 1]
    /\ MakeSocket(c)
    /\ sent' = [sent EXCEPT ![c] = sequence[c]]
    /\ UNCHANGED <<cpc, sequence, queueVars, toQueue, toWorker, workerVars>>

Abandon(c) ==
    /\ TimesOut(c)
    /\ NoneLeft(c)
    /\ retries_left' = [retries_left EXCEPT ![c] = @ - 1]
    /\ cpc' = [cpc EXCEPT ![c] = "ended"]
    /\ sent' = [sent EXCEPT ![c] = Nothing]
    /\ inbox' = [inbox EXCEPT ![c] = Nothing]
    /\ UNCHANGED <<sequence, socket, queueVars, toQueue, toWorker, workerVars>>

\* The request reaches the queue, if its socket lives that long.
Arrive(c) ==
    /\ sent[c] # Nothing
    /\ frontend' = frontend \cup {<<c, socket[c], sent[c]>>}
    /\ sent' = [sent EXCEPT ![c] = Nothing]
    /\ UNCHANGED <<cpc, sequence, retries_left, socket, inbox, qpc, worker_queue,
                   revents, toQueue, toWorker, workerVars>>

----------------------------------------------------------------------------
(***************************************************************************)
(* spqueue.                                                                *)
(***************************************************************************)

\* The frontend is polled only with a worker queued.
FrontendAlways == frontend # {}
FrontendReady == frontend # {} /\ worker_queue # << >>

\* Sending a reply: the frontend drops it when its socket has been closed.
Forward(m) ==
    inbox' = IF socket[m[1]] = m[2] /\ cpc[m[1]] # "ended"
             THEN [inbox EXCEPT ![m[1]] = m[3]]
             ELSE inbox

\* The process aborts, and the model stops, where the assertion fails.
FromWorker(w) ==
    /\ qpc = "poll"
    /\ toQueue[w] # << >>
    /\ Len(worker_queue) < MAX_WORKERS
    /\ toQueue' = [toQueue EXCEPT ![w] = Tail(@)]
    /\ worker_queue' = Append(worker_queue, w)
    /\ IF Head(toQueue[w]) = READY THEN UNCHANGED inbox ELSE Forward(Head(toQueue[w]))
    /\ revents' = FrontendReady
    /\ qpc' = "frontend"
    /\ UNCHANGED <<cpc, sequence, retries_left, socket, sent, frontend, toWorker, workerVars>>

OnlyFrontend ==
    /\ qpc = "poll"
    /\ \A w \in Worker : toQueue[w] = << >>
    /\ FrontendReady
    /\ revents' = TRUE
    /\ qpc' = "frontend"
    /\ UNCHANGED <<clientVars, worker_queue, frontend, toQueue, toWorker, workerVars>>

PopsNothing == worker_queue
PopWorker == Tail(worker_queue)

\* The backend drops what is for a worker that has gone.
ForwardRequest(m) ==
    /\ qpc = "frontend"
    /\ revents
    /\ m \in frontend
    /\ frontend' = frontend \ {m}
    /\ toWorker' = IF wpc[Head(worker_queue)] = "crashed"
                   THEN toWorker
                   ELSE [toWorker EXCEPT ![Head(worker_queue)] = Append(@, m)]
    /\ worker_queue' = PopWorker
    /\ qpc' = "poll"
    /\ UNCHANGED <<clientVars, revents, toQueue, workerVars>>

NoRequest ==
    /\ qpc = "frontend"
    /\ ~ revents
    /\ qpc' = "poll"
    /\ UNCHANGED <<clientVars, worker_queue, revents, frontend, toQueue, toWorker, workerVars>>

Queue ==
    \/ \E w \in Worker : FromWorker(w)
    \/ OnlyFrontend
    \/ \E m \in frontend : ForwardRequest(m)
    \/ NoRequest

----------------------------------------------------------------------------
(***************************************************************************)
(* spworker.                                                               *)
(***************************************************************************)

Running == {w \in Worker : wpc[w] \in {"waiting", "working"}}

Start(w) ==
    /\ wpc[w] = "new"
    /\ Cardinality(Running) < MaxRunning
    /\ wpc' = [wpc EXCEPT ![w] = "waiting"]
    /\ toQueue' = [toQueue EXCEPT ![w] = Append(@, READY)]
    /\ UNCHANGED <<clientVars, queueVars, toWorker, job, cycles>>

TakeFrames(w) ==
    /\ wpc[w] = "waiting"
    /\ toWorker[w] # << >>
    /\ toWorker' = [toWorker EXCEPT ![w] = Tail(@)]
    /\ cycles' = [cycles EXCEPT ![w] = IF @ > CRASH_FREE THEN @ ELSE @ + 1]
    /\ UNCHANGED <<clientVars, queueVars, toQueue>>

Work(w) ==
    /\ TakeFrames(w)
    /\ wpc' = [wpc EXCEPT ![w] = "working"]
    /\ job' = [job EXCEPT ![w] = Head(toWorker[w])]

\* Once in six times, when the worker has taken enough requests.
Crash(w) ==
    /\ TakeFrames(w)
    /\ cycles'[w] > CRASH_FREE
    /\ wpc' = [wpc EXCEPT ![w] = "crashed"]
    /\ UNCHANGED job

\* What worker w sends with its reply.
WithReady(w) == <<job[w], READY>>
Frames(w) == <<job[w]>>

Reply(w) ==
    /\ wpc[w] = "working"
    /\ toQueue' = [toQueue EXCEPT ![w] = @ \o Frames(w)]
    /\ job' = [job EXCEPT ![w] = NoJob]
    /\ wpc' = [wpc EXCEPT ![w] = "waiting"]
    /\ UNCHANGED <<clientVars, queueVars, toWorker, cycles>>

WorkerLoop(w) == Work(w) \/ Crash(w) \/ Reply(w)

----------------------------------------------------------------------------

ClientLoop(c) == Send(c) \/ Receive(c) \/ TryAgain(c) \/ Abandon(c)

Next ==
    \/ \E c \in Client : ClientLoop(c) \/ Arrive(c)
    \/ Queue
    \/ \E w \in Worker : Start(w) \/ WorkerLoop(w)

(***************************************************************************)
(* Fairness.  A client's poll returns within its time limit.  Nothing is   *)
(* asked of the queue, or of workers, which somebody has to start.         *)
(***************************************************************************)
Fairness == \A c \in Client : WF_vars(ClientLoop(c))

Spec == Init /\ [][Next]_vars

FairSpec == Spec /\ Fairness

----------------------------------------------------------------------------

\* A worker in the queue is there once, is running, and waits with nothing on
\* the way to or from it; as workers crash only with a request in hand, crashed
\* workers never fill the queue up (spqueue.cpp:45-47, spworker.cpp:38).
QueuedAreIdle ==
    /\ IsInjective(worker_queue)
    /\ \A w \in Range(worker_queue) :
           wpc[w] = "waiting" /\ toWorker[w] = << >> /\ toQueue[w] = << >>

\* The queue is never too long nor too short for what main does next: the
\* assertion on its size holds, for a limit of no more than the workers that run
\* at a time, however many have come and gone, and its front and a request are
\* there when they are taken on the word of the poll (spqueue.cpp:45, 60, 66).
QueueInBounds ==
    /\ \A w \in Worker : toQueue[w] # << >> => Len(worker_queue) < MAX_WORKERS
    /\ qpc = "frontend" /\ revents => frontend # {} /\ worker_queue # << >>

\* A reply that reaches a client is to its current request, whatever tries of
\* earlier requests are still being worked on: "Malformed reply" is never
\* reported (lpclient.cpp:46, 52, 64).
OwnReplies == \A c \in Client : inbox[c] \in {Nothing, sequence[c]}

\* Every request is answered or given up, with or without a queue and workers
\* (lpclient.cpp:34, 55).
Resolves == \A c \in Client : cpc[c] = "polling" ~> cpc[c] # "polling"

=============================================================================
