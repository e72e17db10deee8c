---------------------------- MODULE LoadBalancer ----------------------------
(***************************************************************************)
(* The load-balancing broker (lbbroker.cpp): one process whose main thread *)
(* runs the broker, with one thread for each client and each worker.  A    *)
(* client sends one request and ends with its reply.  A worker says READY, *)
(* answers requests and ends with KILL.  When the last reply is forwarded, *)
(* main joins the clients, sends KILL to the workers it has queued, and    *)
(* joins the workers.                                                      *)
(*                                                                         *)
(* Each client is the name of its request and of the reply to it.  Each    *)
(* direction of a worker's connection is a FIFO sequence; the sockets are  *)
(* REQ sockets, so that a worker sends and receives in turn.               *)
(***************************************************************************)
EXTENDS Integers, Sequences, FiniteSets, Functions

CONSTANTS Worker, Client

ASSUME ThreadsAssumption == IsFiniteSet(Worker) /\ IsFiniteSet(Client)

READY == "READY"
KILL == "KILL"

NoJob == "none"

ASSUME MessageAssumption == READY \notin Client /\ KILL \notin Client /\ NoJob \notin Client

VARIABLES
    bpc,         \* where main is
    workerQueue, \* worker_queue
    revents,     \* items[1].revents & ZMQ_POLLIN, from the last poll
    left,        \* client_count
    frontend,    \* requests waiting at the frontend
    toBroker,    \* toBroker[w]: what worker w sent and main has not read
    toWorker,    \* toWorker[w]: what main sent to w and w has not read
    wpc,         \* wpc[w]: where the thread of w is
    job,         \* job[w]: the request w is working on
    cpc,         \* cpc[c]: where the thread of client c is
    replies      \* replies[c]: how many replies were forwarded to c

brokerVars == <<bpc, workerQueue, revents, left>>
workerVars == <<wpc, job>>
vars == <<bpc, workerQueue, revents, left, frontend, toBroker, toWorker, wpc,
          job, cpc, replies>>

TypeOK ==
    /\ bpc \in {"poll", "frontend", "join clients", "kill", "join workers", "ended"}
    /\ workerQueue \in Seq(Worker)
    /\ revents \in BOOLEAN
    /\ left \in 0 .. Cardinality(Client)
    /\ frontend \in Seq(Client)
    /\ toBroker \in [Worker -> Seq({READY} \cup Client)]
    /\ toWorker \in [Worker -> Seq({KILL} \cup Client)]
    /\ wpc \in [Worker -> {"new", "waiting", "working", "ended"}]
    /\ job \in [Worker -> Client \cup {NoJob}]
    /\ cpc \in [Client -> {"new", "waiting", "ended"}]
    /\ replies \in [Client -> Nat]

Init ==
    /\ bpc = "poll"
    /\ workerQueue = << >>
    /\ revents = FALSE
    /\ left = Cardinality(Client)
    /\ frontend = << >>
    /\ toBroker = [w \in Worker |-> << >>]
    /\ toWorker = [w \in Worker |-> << >>]
    /\ wpc = [w \in Worker |-> "new"]
    /\ job = [w \in Worker |-> NoJob]
    /\ cpc = [c \in Client |-> "new"]
    /\ replies = [c \in Client |-> 0]

----------------------------------------------------------------------------
(***************************************************************************)
(* main.                                                                   *)
(***************************************************************************)

\* What zmq::poll reports of the frontend, polled only with a worker queued.
FrontendAlways == frontend # << >>
FrontendReady == frontend # << >> /\ workerQueue # << >>

\* client_count after a message from the backend.
CountsReady(m) == left - 1
LeftAfter(m) == IF m = READY THEN left ELSE left - 1

FromBackend(w) ==
    /\ bpc = "poll"
    /\ toBroker[w] # << >>
    /\ toBroker' = [toBroker EXCEPT ![w] = Tail(@)]
    /\ workerQueue' = Append(workerQueue, w)
    /\ revents' = FrontendReady
    /\ left' = LeftAfter(Head(toBroker[w]))
    /\ UNCHANGED <<frontend, toWorker, workerVars, cpc>>

WorkerReady(w) ==
    /\ FromBackend(w)
    /\ Head(toBroker[w]) = READY
    /\ bpc' = "frontend"
    /\ UNCHANGED replies

\* The last reply ends the loop at once.
ForwardReply(w) ==
    /\ FromBackend(w)
    /\ Head(toBroker[w]) \in Client
    /\ replies' = [replies EXCEPT ![Head(toBroker[w])] = @ + 1]
    /\ bpc' = IF left' = 0 THEN "join clients" ELSE "frontend"

\* zmq::poll returns with the frontend alone.
OnlyFrontend ==
    /\ bpc = "poll"
    /\ \A w \in Worker : toBroker[w] = << >>
    /\ FrontendReady
    /\ revents' = TRUE
    /\ bpc' = "frontend"
    /\ UNCHANGED <<workerQueue, left, frontend, toBroker, toWorker, workerVars,
                   cpc, replies>>

\* backend.send to one worker.
SendToAllQueued(w, m) ==
    toWorker' = [v \in Worker |->
        IF v \in Range(workerQueue) THEN Append(toWorker[v], m) ELSE toWorker[v]]
SendToWorker(w, m) == toWorker' = [toWorker EXCEPT ![w] = Append(@, m)]

\* worker_queue.pop(), once the front has been read.
PopsNothing == workerQueue
PopWorker == Tail(workerQueue)

ForwardRequest ==
    /\ bpc = "frontend"
    /\ revents
    /\ SendToWorker(Head(workerQueue), Head(frontend))
    /\ frontend' = Tail(frontend)
    /\ workerQueue' = PopWorker
    /\ bpc' = "poll"
    /\ UNCHANGED <<revents, left, toBroker, workerVars, cpc, replies>>

NoRequest ==
    /\ bpc = "frontend"
    /\ ~ revents
    /\ bpc' = "poll"
    /\ UNCHANGED <<workerQueue, revents, left, frontend, toBroker, toWorker,
                   workerVars, cpc, replies>>

JoinClients ==
    /\ bpc = "join clients"
    /\ \A c \in Client : cpc[c] = "ended"
    /\ bpc' = "kill"
    /\ UNCHANGED <<workerQueue, revents, left, frontend, toBroker, toWorker,
                   workerVars, cpc, replies>>

\* The end of the loop over the queued workers, and one turn of it.
OneWorkerLeft == Len(workerQueue) = 1
NoWorkerLeft == workerQueue = << >>

Kill ==
    /\ bpc = "kill"
    /\ ~ NoWorkerLeft
    /\ SendToWorker(Head(workerQueue), KILL)
    /\ workerQueue' = Tail(workerQueue)
    /\ UNCHANGED <<bpc, revents, left, frontend, toBroker, workerVars, cpc, replies>>

KillsDone ==
    /\ bpc = "kill"
    /\ NoWorkerLeft
    /\ bpc' = "join workers"
    /\ UNCHANGED <<workerQueue, revents, left, frontend, toBroker, toWorker,
                   workerVars, cpc, replies>>

JoinWorkers ==
    /\ bpc = "join workers"
    /\ \A w \in Worker : wpc[w] = "ended"
    /\ bpc' = "ended"
    /\ UNCHANGED <<workerQueue, revents, left, frontend, toBroker, toWorker,
                   workerVars, cpc, replies>>

----------------------------------------------------------------------------
(***************************************************************************)
(* The threads.                                                            *)
(***************************************************************************)

ClientSends(c) ==
    /\ cpc[c] = "new"
    /\ cpc' = [cpc EXCEPT ![c] = "waiting"]
    /\ frontend' = Append(frontend, c)
    /\ UNCHANGED <<brokerVars, toBroker, toWorker, workerVars, replies>>

ClientEnds(c) ==
    /\ cpc[c] = "waiting"
    /\ replies[c] > 0
    /\ cpc' = [cpc EXCEPT ![c] = "ended"]
    /\ UNCHANGED <<brokerVars, frontend, toBroker, toWorker, workerVars, replies>>

SendToBroker(w, m) == toBroker' = [toBroker EXCEPT ![w] = Append(@, m)]

WorkerStarts(w) ==
    /\ wpc[w] = "new"
    /\ SendToBroker(w, READY)
    /\ wpc' = [wpc EXCEPT ![w] = "waiting"]
    /\ UNCHANGED <<brokerVars, frontend, toWorker, job, cpc, replies>>

WorkerReceives(w) ==
    /\ wpc[w] = "waiting"
    /\ toWorker[w] # << >>
    /\ toWorker' = [toWorker EXCEPT ![w] = Tail(@)]
    /\ IF Head(toWorker[w]) = KILL
       THEN wpc' = [wpc EXCEPT ![w] = "ended"] /\ UNCHANGED job
       ELSE /\ wpc' = [wpc EXCEPT ![w] = "working"]
            /\ job' = [job EXCEPT ![w] = Head(toWorker[w])]
    /\ UNCHANGED <<brokerVars, frontend, toBroker, cpc, replies>>

WorkerReplies(w) ==
    /\ wpc[w] = "working"
    /\ SendToBroker(w, job[w])
    /\ wpc' = [wpc EXCEPT ![w] = "waiting"]
    /\ job' = [job EXCEPT ![w] = NoJob]
    /\ UNCHANGED <<brokerVars, frontend, toWorker, cpc, replies>>

----------------------------------------------------------------------------

Main ==
    \/ \E w \in Worker : WorkerReady(w) \/ ForwardReply(w)
    \/ OnlyFrontend
    \/ ForwardRequest
    \/ NoRequest
    \/ JoinClients
    \/ Kill
    \/ KillsDone
    \/ JoinWorkers

ClientThread(c) == ClientSends(c) \/ ClientEnds(c)

WorkerThread(w) == WorkerStarts(w) \/ WorkerReceives(w) \/ WorkerReplies(w)

Next ==
    \/ Main
    \/ \E c \in Client : ClientThread(c)
    \/ \E w \in Worker : WorkerThread(w)

(***************************************************************************)
(* Fairness.  Every thread of the process keeps running.                   *)
(***************************************************************************)
Fairness ==
    /\ WF_vars(Main)
    /\ \A c \in Client : WF_vars(ClientThread(c))
    /\ \A w \in Worker : WF_vars(WorkerThread(w))

Spec == Init /\ [][Next]_vars

FairSpec == Spec /\ Fairness

----------------------------------------------------------------------------

\* A queued worker is queued once and waits for a message with nothing on the
\* way to or from it, so that neither a request nor KILL can cross a reply
\* (lbbroker.cpp:73, 122, 151).
QueuedAreIdle ==
    /\ IsInjective(workerQueue)
    /\ \A w \in Range(workerQueue) :
           wpc[w] = "waiting" /\ toWorker[w] = << >> /\ toBroker[w] = << >>

\* worker_queue.front() and the frontend are read on the word of a poll that
\* was made before the backend message was handled (lbbroker.cpp:109, 122).
FrontDefined ==
    bpc = "frontend" /\ revents => frontend # << >> /\ workerQueue # << >>

\* The loop ends with the last reply and no sooner: when main joins the clients
\* each has a reply, and nothing is left to be handled (lbbroker.cpp:103).
ClientsJoinable ==
    bpc \notin {"poll", "frontend"} =>
        /\ \A c \in Client : replies[c] = 1
        /\ frontend = << >>
        /\ \A w \in Worker : job[w] = NoJob

\* Every client gets its reply and ends, so that the join of the clients does
\* not hang (lbbroker.cpp:145).
ClientsEnd == <>(\A c \in Client : cpc[c] = "ended")

\* Main ends when every worker was queued by the time it sends KILL
\* (lbbroker.cpp:151, 169).
EndsIfAllQueued ==
    (bpc = "join clients" /\ Range(workerQueue) = Worker) ~> bpc = "ended"

\* "Worker threads all shut down." (lbbroker.cpp:172) is printed in the end.
Ends == <>(bpc = "ended")

----------------------------------------------------------------------------
(***************************************************************************)
(* The broker implements RequestService, and loses nothing.                *)
(***************************************************************************)

Status(c) ==
    CASE cpc[c] = "new" -> "new"
      [] c \in Range(frontend) -> "waiting"
      [] replies[c] > 0 -> "answered"
      [] OTHER -> "assigned"

Service == INSTANCE RequestService
    WITH Request <- Client, status <- [c \in Client |-> Status(c)]

\* A request is handed to one worker and answered once (lbbroker.cpp:83, 109).
ServesOnce == Service!Spec

=============================================================================
