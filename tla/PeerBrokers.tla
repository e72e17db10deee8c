----------------------------- MODULE PeerBrokers -----------------------------
(***************************************************************************)
(* The local and cloud flows (peering2.cpp): brokers that are all peers of *)
(* each other, each with its own clients and workers.  A broker handles    *)
(* one message from its backends, then routes requests while a worker is   *)
(* ready: those of its peers first, then those of its own clients, which   *)
(* it may send to a peer instead.                                          *)
(*                                                                         *)
(* The program waits for a key to be pressed "when all brokers are         *)
(* started" (line 108), but nothing makes sure that they are connected by  *)
(* then: cloudbe gets to know each peer at any time, and drops what is for *)
(* a peer that it does not know.  The identity frames in front of a        *)
(* request are kept as its client and, when it came through the cloud      *)
(* frontend, the broker it came from; the reply carries the same frames.   *)
(* Whether a request is rerouted, and to whom, is drawn at random in the   *)
(* code and any choice here.                                               *)
(***************************************************************************)
EXTENDS Integers, Sequences, FiniteSets, Functions

CONSTANTS Broker,       \* the brokers, by the names they give each other
          client_count, \* client_count[b]: how many clients broker b has
          worker_count  \* worker_count[b]: how many workers broker b has

ASSUME CountsAssumption ==
    client_count \in [Broker -> Nat] /\ worker_count \in [Broker -> Nat]

\* Threads are numbered within their process.
Client == UNION {{b} \X (1 .. client_count[b]) : b \in Broker}
Worker == UNION {{b} \X (1 .. worker_count[b]) : b \in Broker}

Home(x) == x[1]

\* The broker frame of a request that a broker got from a client of its own.
Local == "local"

ASSUME NameAssumption == Local \notin Broker

Envelope == (Broker \cup {Local}) \X Client

From(e) == e[1]
For(e) == e[2]

\* No envelope: the first message of a worker, and what an idle worker has.
WORKER_READY == << >>
NoJob == << >>

VARIABLES
    known,     \* known[b]: the peers that cloudbe of b is connected to
    dropped,   \* clients whose request has been dropped
    pc,        \* pc[b]: which of its two polls broker b is at
    ready,     \* ready[b]: ready_workers
    localfe,   \* localfe[b]: clients whose requests wait at b
    cloudfe,   \* cloudfe[b, p]: clients whose requests p has sent to b
    cloudbe,   \* cloudbe[b, p]: clients whose replies p has sent to b
    localbe,   \* localbe[w]: what worker w has sent to its broker
    toWorker,  \* toWorker[w]: the envelopes sent to w
    wpc,       \* wpc[w]: where the thread of w is
    job,       \* job[w]: the envelope w is working on
    cpc,       \* cpc[c]: where the thread of client c is
    toClient   \* toClient[c]: how many replies have been sent to c

linkVars == <<known, dropped>>
brokerVars == <<pc, ready>>
workerVars == <<wpc, job>>
vars == <<known, dropped, pc, ready, localfe, cloudfe, cloudbe, localbe, toWorker,
          wpc, job, cpc, toClient>>

Peers(b) == Broker \ {b}

\* Between two brokers, named from the one that receives.
Link == Broker \X Broker

TypeOK ==
    /\ known \in [Broker -> SUBSET Broker]
    /\ \A b \in Broker : known[b] \subseteq Peers(b)
    /\ dropped \subseteq Client
    /\ pc \in [Broker -> {"backends", "frontends"}]
    /\ ready \in [Broker -> Seq(Worker)]
    /\ localfe \in [Broker -> Seq(Client)]
    /\ cloudfe \in [Link -> Seq(Client)]
    /\ cloudbe \in [Link -> Seq(Client)]
    /\ localbe \in [Worker -> Seq({WORKER_READY} \cup Envelope)]
    /\ toWorker \in [Worker -> Seq(Envelope)]
    /\ wpc \in [Worker -> {"new", "waiting", "working"}]
    /\ job \in [Worker -> Envelope \cup {NoJob}]
    /\ cpc \in [Client -> {"sending", "waiting"}]
    /\ toClient \in [Client -> Nat]

Init ==
    /\ known = [b \in Broker |-> {}]
    /\ dropped = {}
    /\ pc = [b \in Broker |-> "backends"]
    /\ ready = [b \in Broker |-> << >>]
    /\ localfe = [b \in Broker |-> << >>]
    /\ cloudfe = [link \in Link |-> << >>]
    /\ cloudbe = [link \in Link |-> << >>]
    /\ localbe = [w \in Worker |-> << >>]
    /\ toWorker = [w \in Worker |-> << >>]
    /\ wpc = [w \in Worker |-> "new"]
    /\ job = [w \in Worker |-> NoJob]
    /\ cpc = [c \in Client |-> "sending"]
    /\ toClient = [c \in Client |-> 0]

----------------------------------------------------------------------------
(***************************************************************************)
(* A broker.                                                               *)
(***************************************************************************)

OwnWorkers(b) == {w \in Worker : Home(w) = b}

Connect(b, p) ==
    /\ p \notin known[b]
    /\ known' = [known EXCEPT ![b] = @ \cup {p}]
    /\ UNCHANGED <<dropped, brokerVars, localfe, cloudfe, cloudbe, localbe,
                   toWorker,
                   workerVars, cpc, toClient>>

LocalbeReady(b) == \E w \in OwnWorkers(b) : localbe[w] # << >>
CloudbeReady(b) == \E p \in Peers(b) : cloudbe[<<b, p>>] # << >>
CloudfeReady(b) == \E p \in Peers(b) : cloudfe[<<b, p>>] # << >>

\* localfe drops what is not for one of the broker's own clients.
Delivered(b, c) == IF Home(c) = b THEN [toClient EXCEPT ![c] = @ + 1] ELSE toClient

ToLocalfe(b, e) ==
    /\ toClient' = Delivered(b, For(e))
    /\ UNCHANGED cloudbe

\* Where the reply with envelope e goes: to the peer named in its first frame,
\* else to the client named there.
ToFrontendOnly(b, e) == ToLocalfe(b, e)
SendReply(b, e) ==
    \/ /\ From(e) \in Peers(b)
       /\ cloudbe' = [cloudbe EXCEPT ![<<From(e), b>>] = Append(@, For(e))]
       /\ UNCHANGED toClient
    \/ /\ From(e) \notin Peers(b)
       /\ ToLocalfe(b, e)

FromLocalbe(b, w) ==
    /\ pc[b] = "backends"
    /\ localbe[w] # << >>
    /\ localbe' = [localbe EXCEPT ![w] = Tail(@)]
    /\ ready' = [ready EXCEPT ![b] = Append(@, w)]
    /\ pc' = [pc EXCEPT ![b] = "frontends"]
    /\ IF Head(localbe[w]) = WORKER_READY
       THEN UNCHANGED <<cloudbe, toClient>>
       ELSE SendReply(b, Head(localbe[w]))
    /\ UNCHANGED <<linkVars, localfe, cloudfe, toWorker, workerVars, cpc>>

\* The reply of a peer, which is looked at only when no worker has sent
\* anything.  What follows the name of the peer is the client it is for.
FromCloudbe(b, p) ==
    /\ pc[b] = "backends"
    /\ ~ LocalbeReady(b)
    /\ cloudbe[<<b, p>>] # << >>
    /\ cloudbe' = [cloudbe EXCEPT ![<<b, p>>] = Tail(@)]
    /\ toClient' = Delivered(b, Head(cloudbe[<<b, p>>]))
    /\ pc' = [pc EXCEPT ![b] = "frontends"]
    /\ UNCHANGED <<linkVars, ready, localfe, cloudfe, localbe, toWorker,
                   workerVars, cpc>>

\* The poll of the backends has a time limit when a worker is ready.
NeverTimesOut(b) == FALSE
TimesOut(b) == ready[b] # << >>

PollTimesOut(b) ==
    /\ pc[b] = "backends"
    /\ ~ LocalbeReady(b)
    /\ ~ CloudbeReady(b)
    /\ TimesOut(b)
    /\ pc' = [pc EXCEPT ![b] = "frontends"]
    /\ UNCHANGED <<linkVars, ready, localfe, cloudfe, cloudbe, localbe, toWorker,
                   workerVars, cpc, toClient>>

\* The request with envelope e goes to the first of the ready workers.
LeavesReady(b, e) ==
    /\ toWorker' = [toWorker EXCEPT ![Head(ready[b])] = Append(@, e)]
    /\ UNCHANGED ready
GiveToWorker(b, e) ==
    /\ toWorker' = [toWorker EXCEPT ![Head(ready[b])] = Append(@, e)]
    /\ ready' = [ready EXCEPT ![b] = Tail(@)]

RouteCloud(b, p) ==
    /\ pc[b] = "frontends"
    /\ ready[b] # << >>
    /\ cloudfe[<<b, p>>] # << >>
    /\ cloudfe' = [cloudfe EXCEPT ![<<b, p>>] = Tail(@)]
    /\ GiveToWorker(b, <<p, Head(cloudfe[<<b, p>>])>>)
    /\ UNCHANGED <<linkVars, pc, localfe, cloudbe, localbe, workerVars, cpc,
                   toClient>>

FromLocalfe(b) ==
    /\ pc[b] = "frontends"
    /\ ready[b] # << >>
    /\ ~ CloudfeReady(b)
    /\ localfe[b] # << >>
    /\ localfe' = [localfe EXCEPT ![b] = Tail(@)]
    /\ UNCHANGED <<known, pc, cloudbe, localbe, workerVars, cpc, toClient>>

RouteLocal(b) ==
    /\ FromLocalfe(b)
    /\ GiveToWorker(b, <<Local, Head(localfe[b])>>)
    /\ UNCHANGED <<cloudfe, dropped>>

\* The worker the broker has ready stays ready.
RouteToPeer(b, p) ==
    /\ FromLocalfe(b)
    /\ IF p \in known[b]
       THEN /\ cloudfe' = [cloudfe EXCEPT ![<<p, b>>] = Append(@, Head(localfe[b]))]
            /\ UNCHANGED dropped
       ELSE /\ dropped' = dropped \cup {Head(localfe[b])}
            /\ UNCHANGED cloudfe
    /\ UNCHANGED <<ready, toWorker>>

\* No worker left, or no work: back to the backends.
RoutingDone(b) ==
    /\ pc[b] = "frontends"
    /\ ready[b] = << >> \/ (~ CloudfeReady(b) /\ localfe[b] = << >>)
    /\ pc' = [pc EXCEPT ![b] = "backends"]
    /\ UNCHANGED <<linkVars, ready, localfe, cloudfe, cloudbe, localbe, toWorker,
                   workerVars, cpc, toClient>>

BrokerLoop(b) ==
    \/ \E w \in OwnWorkers(b) : FromLocalbe(b, w)
    \/ \E p \in Peers(b) : FromCloudbe(b, p) \/ RouteCloud(b, p) \/ RouteToPeer(b, p)
    \/ PollTimesOut(b)
    \/ RouteLocal(b)
    \/ RoutingDone(b)

----------------------------------------------------------------------------
(***************************************************************************)
(* The client and worker threads.                                          *)
(***************************************************************************)

WorkerStarts(w) ==
    /\ wpc[w] = "new"
    /\ localbe' = [localbe EXCEPT ![w] = Append(@, WORKER_READY)]
    /\ wpc' = [wpc EXCEPT ![w] = "waiting"]
    /\ UNCHANGED <<linkVars, brokerVars, localfe, cloudfe, cloudbe, toWorker,
                   job, cpc, toClient>>

WorkerReceives(w) ==
    /\ wpc[w] = "waiting"
    /\ toWorker[w] # << >>
    /\ job' = [job EXCEPT ![w] = Head(toWorker[w])]
    /\ toWorker' = [toWorker EXCEPT ![w] = Tail(@)]
    /\ wpc' = [wpc EXCEPT ![w] = "working"]
    /\ UNCHANGED <<linkVars, brokerVars, localfe, cloudfe, cloudbe, localbe,
                   cpc, toClient>>

WorkerReplies(w) ==
    /\ wpc[w] = "working"
    /\ localbe' = [localbe EXCEPT ![w] = Append(@, job[w])]
    /\ job' = [job EXCEPT ![w] = NoJob]
    /\ wpc' = [wpc EXCEPT ![w] = "waiting"]
    /\ UNCHANGED <<linkVars, brokerVars, localfe, cloudfe, cloudbe, toWorker,
                   cpc, toClient>>

ClientSends(c) ==
    /\ cpc[c] = "sending"
    /\ localfe' = [localfe EXCEPT ![Home(c)] = Append(@, c)]
    /\ cpc' = [cpc EXCEPT ![c] = "waiting"]
    /\ UNCHANGED <<linkVars, brokerVars, cloudfe, cloudbe, localbe, toWorker,
                   workerVars, toClient>>

\* client.recv blocks until there is a reply.
DoesNotBlock(c) == TRUE
HasReply(c) == toClient[c] > 0

ClientReceives(c) ==
    /\ cpc[c] = "waiting"
    /\ HasReply(c)
    /\ toClient' = [toClient EXCEPT ![c] = @ - 1]
    /\ cpc' = [cpc EXCEPT ![c] = "sending"]
    /\ UNCHANGED <<linkVars, brokerVars, localfe, cloudfe, cloudbe, localbe,
                   toWorker, workerVars>>

WorkerThread(w) == WorkerStarts(w) \/ WorkerReceives(w) \/ WorkerReplies(w)

ClientThread(c) == ClientSends(c) \/ ClientReceives(c)

Next ==
    \/ \E b \in Broker : BrokerLoop(b)
    \/ \E w \in Worker : WorkerThread(w)
    \/ \E c \in Client : ClientThread(c)
    \/ \E b \in Broker : \E p \in Peers(b) : Connect(b, p)

(***************************************************************************)
(* Fairness.  Every broker and every thread keeps running; nothing is      *)
(* assumed of the random choice of the route, nor of the connections.      *)
(***************************************************************************)
Fairness ==
    /\ \A b \in Broker : WF_vars(BrokerLoop(b))
    /\ \A w \in Worker : WF_vars(WorkerThread(w))
    /\ \A c \in Client : WF_vars(ClientThread(c))

Spec == Init /\ [][Next]_vars

FairSpec == Spec /\ Fairness

----------------------------------------------------------------------------

\* A ready worker is on the list of its own broker, once, and waits with
\* nothing on the way to or from it (peering2.cpp:156, 240).
ReadyAreIdle ==
    \A b \in Broker :
        /\ IsInjective(ready[b])
        /\ \A w \in Range(ready[b]) :
               /\ Home(w) = b
               /\ wpc[w] = "waiting"
               /\ toWorker[w] = << >>
               /\ localbe[w] = << >>

\* The places in the channels of f where there is a message of S.
PlacesOf(f, S) ==
    UNION {{<<k, i>> : i \in {j \in DOMAIN f[k] : f[k][j] \in S}} : k \in DOMAIN f}

Count(f, S) == Cardinality(PlacesOf(f, S))

\* The envelopes of client c.
EnvelopesOf(c) == {e \in Envelope : For(e) = c}

\* The requests of client c, and the replies to it, wherever they are.
UnderWay(c) ==
    Count(localfe, {c}) + Count(cloudfe, {c}) + Count(cloudbe, {c})
    + Count(toWorker, EnvelopesOf(c)) + Count(localbe, EnvelopesOf(c))
    + Cardinality({w \in Worker : job[w] \in EnvelopesOf(c)})
    + toClient[c]

\* While a client waits there is one request of it or one reply to it, and none
\* while it does not: routing over a peer and back neither loses a request nor
\* answers it twice, nor does it answer somebody else (peering2.cpp:181-192,
\* 200-247).  Only at the start may a request be gone, because the peer it was
\* sent to was not connected yet (peering2.cpp:236).
InOnePlace ==
    \A c \in Client :
        UnderWay(c) = IF cpc[c] = "waiting" /\ c \notin dropped THEN 1 ELSE 0

\* Clients go on getting replies: the brokers never wait for each other, or for
\* a backend, while requests wait at a frontend (peering2.cpp:143, 200), until
\* every client has had its request dropped at the start.
RepliesGoOn ==
    []<><<\E c \in Client : ClientReceives(c)>>_vars \/ <>(dropped = Client)

=============================================================================
