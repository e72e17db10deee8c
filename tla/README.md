# Verification of the zguide examples

The repository holds C++ versions of the example programs of the ZeroMQ guide:
small processes and threads that talk over ZeroMQ sockets. What can go wrong in
them goes wrong between processes: messages that cross, peers that go and come
back, timers that run out while the answer is on its way. This directory holds
TLA+ models of the programs that keep state of their own, TLC configurations
that check them, and proofs for TLAPS.

## The system

| Component (src/) | State it keeps | Operations | What makes it hard |
| --- | --- | --- | --- |
| Paranoid Pirate, `robust-reliable-queuing` | queue: `workers_t` (deque of idle workers, table of expiry times), time of the next heartbeat; worker: liveness, socket, request in hand | queue: READY, HEARTBEAT, reply, forward a request, send heartbeats, purge; worker: take a request, crash, be slow, reply, miss heartbeats, reconnect | heartbeats that cross requests; expiry; reconnects with messages on their way; an assertion that stops the queue |
| Freelance model three, `model-three-complex-and-nasty` | agent: server table (`alive`, ping and expiry times), list `actives_`, current request and its number, time limit; application: calls left | connect, request, dispatch, ping, reply, give up | a thread and its API over a pipe, several servers that stop and start, late answers, answers without a number |
| Load-balancing broker, `load-balancing-message-broker` | `worker_queue`, `client_count` | READY, reply, forward, join, KILL | threads that start and end at any time, a shut-down that waits for all of them |
| Peer brokers, `prototyping-the-local-and-cloud-flows` | `ready_workers` of each broker | messages of workers and of peers, requests to a worker or to a peer | requests that go over another broker and back through three ROUTER sockets, polls with priorities |
| Lazy Pirate and Simple Pirate, `client-side-reliability`, `basic-reliable-queuing` | client: number, retries left, socket; queue: idle workers; worker: cycles | send, retry on a new socket, abandon; READY, reply, forward; work, crash | late replies to sockets that are gone, workers that are never taken off the queue |
| Last value cache, `last-value-caching` | the cache; the subscriptions of its XPUB socket | route an update, answer a subscription | subscriptions that come and go around updates; one topic that is a prefix of another |
| Freelance model two, `model-two-brutal-shotgun-massacre` | client: sequence number, the reply it has so far; server: none | send to all, wait for the matching reply or the time limit; answer, stop, start | the replies of slower servers, pipes of servers that have gone |
| Freelance model one, `model-one-simple-retry-and-failover` | none but the attempt | try one server after the other | - |
| Pipeline, `divide-and-conquer` | counter of results | start signal, tasks, results, KILL | messages of several connections in any order, workers that come late, KILL that a worker misses |
| Synchronized publisher, `node-coordination` | counter of subscribers | synchronise, publish, END | a subscription that takes effect after the synchronisation |
| Router to REQ and DEALER workers, `router-broker-and-req-workers`, `router-broker-and-dealer-workers` | boss: notices given; worker: tasks done | answer with work or a notice, join; ask, work, end | the boss counts messages, not workers, and then joins threads |
| Round-trip demonstrator, `round-trip-demonstrator` | counts of the two tests | one message at a time, then all at once; forward, echo | messages lost before the worker is connected or over a high-water mark |
| Asynchronous client and server, `async-client-server-pattern` | identity, number of the request | send, dump replies; proxy; take, reply several times | identities drawn at random, replies out of step with requests |
| Everything else: proxies, echo servers, demonstrations | little or none | forward and print | behaviour is the library's |

Components interact by messages only: there is no shared memory but a mutex
around the output of some programs. The workers of the Paranoid and the Simple
Pirate talk to their own queue each; the client of `client-side-reliability` is
the client of both queues. `PROJECT.json` lists every directory of the
repository, those that are not modelled with the reason, and the hazards with
their lines.

Correctness, in short: an idle worker in a queue is idle, known once, and really
waiting; a queue does not read a front that is not there; nobody answers twice
or answers somebody else; a request that somebody waits for is on its way
somewhere; who waits gets an answer or a refusal; what is meant to end ends.

## Modules

| Module | Models | Extends or uses |
| --- | --- | --- |
| `RequestService` | abstract specification: a request waits, is assigned to at most one worker, answered at most once, or lost | |
| `Workers` | `pp::workers_t`, one operator for each method | |
| `ParanoidPirate` | `ppqueue.cpp`, `ppworker.cpp` and the connections between them | `Workers`, refines `RequestService` |
| `FreelanceAgent` | `flcliagent.hpp`, `flcliserver.hpp`, `flcliapi.hpp`, `flclient3.cpp`, `flserver3.cpp` | |
| `LoadBalancer` | `lbbroker.cpp` | refines `RequestService` |
| `PeerBrokers` | `peering2.cpp` | |
| `SimplePirate` | `lpclient.cpp`, `spqueue.cpp`, `spworker.cpp` | |
| `LVCache` | `lvcache.cpp`, `pathopub.cpp`, `pathosub.cpp` | |
| `Pipeline` | `taskvent.cpp`, `taskwork.cpp`, `tasksink.cpp` | |
| `Shotgun` | `flclient2.cpp`, `flserver2.cpp` | |
| `RoundTrip` | `tripping.cpp` | |
| `RouterWorkers` | `rtreq.cpp`, `rtdealer.cpp` | |
| `SyncPublisher` | `syncpub.cpp`, `syncsub.cpp` | |
| `AsyncServer` | `asyncsrv.cpp` | |
| `Programs` | the six programs that stand alone, one of which is chosen at the start | `Pipeline`, and an instance of each of the five above |
| `MC*` | instances for TLC: constants and symmetry | the module they are named for |
| `QueueLemmas` | lemmas on sequences used as queues, cited by most of the proofs | `TLAPS` and the library's theorems |
| `ParanoidPirateProofs` | lemmas on each method of `workers_t`, then the theorems of `ParanoidPirate` | the same |
| `FreelanceAgentProofs`, `LoadBalancerProofs`, `PeerBrokersProofs`, `SimplePirateProofs`, `LVCacheProofs`, `ProgramsProofs` | theorems of the module they are named for | the same |

How state and actions correspond to the code is the `map` of `PROJECT.json`,
definition by definition. What holds for all of them:

* A loop that polls and then looks at one socket after the other is split where
  it looks at the next one: `bpc`, `qpc`, `pc` say where it is, and `revents` is
  kept from the poll, since the code acts on it after it has handled something
  else. `items[1]` is polled only when a worker is queued, as in the code.
* One direction of a connection is a FIFO sequence. A message is what the
  program tells apart: a kind, a worker, a request. Frames of envelopes are
  kept where a program adds or takes them (`PeerBrokers`, the control frame of
  `FreelanceAgent`) and are abstracted to the client elsewhere.
* A process that crashes, a socket that is closed and a message that is dropped
  are choices; so are how long work takes and, in `SimplePirate`, when a poll
  runs out.

What is taken for granted of ZeroMQ, and modelled as external: a ROUTER drops
what is for an identity it does not know, and what exceeds the high-water mark;
a socket that connects keeps its pipe, and what is in it, while the peer is
away, and a socket that is bound does not; REQ sockets send and receive in turn;
PUB and XPUB match topics by prefix; an XPUB socket reports a subscription only
when it is the first to its topic.

### Paranoid Pirate

`Workers` writes a `workers_t` as a record of deque and table; expiry times are
counted in ticks of the heartbeat interval down to `Expired`. `Tick` lets an
interval pass for everybody at a point where the queue is polling: the comment
at `ppqueue.cpp:108` asks that a round of the loop be short compared with it.
`purge` is a loop, and each turn of it (`PurgeOne`) is an action with its index
in the state. A worker's connection ends with its process or with its own
reconnect (`Exit`, `Reconnect`), where each direction may lose what is on its
way (`LateParts`); READY in a channel marks where the new connection begins. How
long a worker waits before it reconnects is not modelled, only that it waits.
A reconnect under the same identity that a ROUTER refuses, because it has not
yet noticed the old connection's end, is not modelled. The solutions are set up
for Debug builds, so that the assertions are live: a failed one is the state
"aborted", from which the queue may be started again with an empty table
(`Restart`).

### Freelance agent

The application thread calls `connect` and `request`; the agent's loop is
`OnControl` and `OnRouter` messages, then the request's time limit or dispatch,
then pings, then a poll. Timers are counted down by `Tick`, which happens while
the agent polls. `link[s]` is how the agent's ROUTER knows server `s`. `actives`
is the list of the code with its duplicates. `conn_map_` is the domain of the
table. The tear-down is not modelled: the destructor (`flcliagent.hpp:67`) joins
the agent's thread before the context is destroyed that would end it, so that
the program does not end. The time to poll is computed before the poll (line
92); a timer that runs out in between makes it negative, and the poll has no
limit then (`PollTooLate`, state "blocked"): the agent does not look at its
timers until a message wakes it. `CallsReturn` and `ServersReturn` say what holds
of an agent that is not stuck there and has not been stopped by its assertion.

### Load-balancing broker, peer brokers

The threads are part of the model, the start of a thread included. In
`PeerBrokers` the brokers' connections to one another come up one by one
(`Connect`, `known`), as fast or as slowly as the operator's key press
(`peering2.cpp:108`) allows for. A request that is routed to a peer that is not
known yet is dropped, and its client waits from then on (`dropped`). The draw
between worker and peer, and of the peer, is any choice.

### Lazy and Simple Pirate, last value cache

A socket is identified by its client and its number, so that a reply to one that
is closed finds nobody. A request that was sent over a socket reaches the queue
(`Arrive`) or is discarded with the socket (linger 0). The number of workers
that run at a time is bounded by `MaxRunning`; new ones, with new identities,
take the place of those that crashed.

In `LVCache` topics are the numbers of the code and `IsPrefix` is what prefixes
of decimal numbers are: a subscriber to 1 gets 10 as well. That explains the
comment at `pathosub.cpp:62`, "occasionally this assertion fails!?". A value is
known by how often its topic has been published, since the code's two texts
could not tell old from new. The backend's subscriptions are as XPUB keeps them
without ZMQ_XPUB_VERBOSE, so that a second subscriber to a topic is not
reported and not sent the cached value.

### Pipeline

A task is known by name, and `place` says where it or its result is; 100 is the
number of tasks in the instance. Ventilator and sink each count to it on their
own. The sink's first `recv` takes whatever is there. A PUSH socket deals its
messages out in turn; here any connected worker may be next. A worker's
connection to the ventilator and its subscription come up at any time, or never:
one that subscribes after KILL waits for ever, as in the program, and nothing is
stated about it. One batch is modelled, because the sink ends with it.

### Programs that stand alone

`Shotgun`. Only the number of a request is sent (`flclient2.cpp:111`, the text
never is), so a message is its number. The DEALER socket sends to its pipes in
turn, past those that are full, which they become when their servers have gone;
all full, it blocks. Any reply is kept and the loop goes on with one that does
not match; at the time limit the last of them is what the call returns,
although line 104 says that they are dropped. `CallsReturn` says both.

`RoundTrip`. No message differs from another, so they are counted, and a lost
one is one too few. The broker's ROUTER sockets drop what is for a worker that
is not connected, and what exceeds the mark they were left with; `TestsEnd`
says when the tests end in spite of it.

`RouterWorkers` is one model for two programs: they differ in who writes the
empty frame, which no step depends on. A worker's loop, not its socket, keeps
it to one message at a time, and the boss's count relies on that.

`SyncPublisher`. The report of a subscriber and its subscription travel on
connections of their own, and the publisher counts reports. `InTimeGetAll`
states what is left of the promise: a subscription that is in effect before the
report is answered gets every update and END, if nobody else reports in its
place.

`AsyncServer`. `zmq::proxy` is modelled as external: from each socket to the
other, one message at a time. A message remembers whose request it is in a field
that the program does not have. The identity is drawn from a range that includes
0x10000, whose five digits are longer than the buffer (`asyncsrv.cpp:145`);
identities are members of a set here and what is written behind the buffer is not
modelled.

## Runs

Bounds are small because what matters happens early: two workers are enough for
one to be dispatched while the other expires, two messages in a channel for one
to be overtaken by a decision, three calls for an answer to the first to meet
the third.

| Run | Instance | Shows |
| --- | --- | --- |
| `pp_safety` | 2 workers, 2 requests, 2 messages in a channel, 1 restart | types; deque and table agree; the front exists; a live worker leaves the deque by dispatch only; `ServesOnce`: the queue implements `RequestService`, nothing is answered twice |
| `pp_liveness` | 2 workers, 1 request | an expired worker leaves the deque; a request leaves the frontend while workers come back |
| `pp_late_heartbeat` | 2 workers, 1 request | violated: a heartbeat is not always from an idle worker; see Findings |
| `pp_purge` | 2 workers | violated: purge leaves dead workers |
| `fl3_agent` | 2 servers, 2 calls, high-water mark 1, 1 stop | types; who is alive is on the list, once or twice and no more; while the application waits, a command, a request or a result is under way; every call returns and a server that runs is heard of again, while the agent is not blocked in a poll without limit |
| `fl3_cycle` | 1 server, 3 calls | violated: the strict request-reply cycle |
| `lb_broker` | 3 workers, 4 clients | queued workers are idle; the front exists; the clients can be joined; refinement of `RequestService`; every client ends; main ends if all workers had been queued |
| `lb_end` | 2 workers, 1 client | violated: main ends |
| `pb_brokers` | 2 brokers, one with 2 clients and 1 worker, one with 1 client and 2 workers | ready workers are idle; each waiting client has one request or reply, in one place, if it was not dropped while the brokers connected; replies go on for ever unless those of all clients were dropped |
| `sp_queue` | 1 client, 3 tries, 2 requests, 3 workers of which 2 run | queued workers are idle; the queue is never too long for its assertion nor too short for its front; no late reply is taken for another; each request is answered or given up |
| `lv_cache` | 2 subscribers, topics 1 and 10, 2 publications each | no subscriber gets an older value after a newer; a reported subscription to a cached topic is answered |
| `programs` | pipeline of 3 tasks and 2 workers; shotgun client with 2 servers, 3 calls, high-water mark 1, 1 stop; round trip of 3 and 3 messages, high-water mark 2; boss with 2 workers; 3 subscribers of which 2 are expected, 2 updates; 2 clients and 2 workers with 2 identities, 2 replies at most | KILL is the last message of a batch, no poll finds a task and KILL, the batch ends; a shotgun call returns; the round-trip tests end, unless a message is lost over the mark; each worker is fired once and boss and workers end; a subscriber in time misses nothing; every request of a client that is connected gets its reply at that client, and no client gets another's |

Bounds that are not in the code have names that begin with `Max`: `MaxInFlight`
(messages in a channel), `MaxRestarts`, `MaxStops`, `MaxRequests`, `MaxRunning`,
`MaxUpdates` (the `MaxReplies` of `AsyncServer` is the program's own); they are guards of the actions that would exceed them. Times and
limits (`TTL`, `LIVENESS`, `SERVER_TTL`, `retries_allowed`, `HWM`) are constants
of the code with smaller values. `pp_liveness` has `LIVENESS = 1`: with more, a
worker that has been dispatched goes on sending heartbeats that stop the queue
at once, and liveness of a queue that has stopped is not of interest.

`CHECK_DEADLOCK FALSE` is set where the system stops: a Paranoid Pirate queue
that aborted for the last time, a Freelance client that waits in its join, a
broker that has ended, brokers that have dropped every client's request, a lazy
client that has given up, a publisher at its bound, a program of `programs` that
is done or waits for what it missed.

The six programs of `programs` share no state and never meet. Each behaviour is
one of one program: `program` is chosen at the start and the variables of the
others stay as they are (the identities, which are drawn before the start, are
one and the same while another program runs), so that the states of the run are
those of the six programs added up and not multiplied. The fairness of each
module is written out again in `Programs` with that choice as a condition; it is
the module's own, conjunct by conjunct. Two servers and three calls let a reply
to the first call meet the third, with one pipe full; three subscribers of which
two are expected are one too many; two clients and two identities draw the same
one or not.

`fl3_agent` is small because its liveness is checked on the same states; the
failed assertion needs a third call and is reached in `fl3_cycle`, and the three
invariants are proved for every number of calls.

### Fairness

Weak fairness of each process's or thread's loop, because its steps are not
blocked by anything but what its guard says: an operating system runs every
thread, and polls have time limits. Nothing is assumed of what users do (start
a client or a worker, stop a server) nor of random draws, and in `SimplePirate`
nothing of the queue either: that a call resolves needs the client's timer only.
In `PeerBrokers` a given client may starve under draws and priorities, so that
only `RepliesGoOn`, for some client, is stated. Connections are not forced to
come up, in `PeerBrokers`, `Pipeline` and `RoundTrip`, nor subscriptions to take
effect in `SyncPublisher`, nor servers to run in `Shotgun`: the properties say
for whom they hold. Where time matters it is fair that it passes (`Tick`,
`TimePasses`).

## Proofs

Every invariant, action property and refinement that a passing run checks is
also proved, for every value of the constants. Each paragraph says what is
stated, what had to be added to make it inductive, and why.

**Paranoid Pirate.** `ParanoidPirateProofs` proves, for any workers, requests and
limits, that types, `IdleConsistent`, `FrontDefined` and `LiveLeaveByDispatch`
hold. The inductive invariant is `TypeOK /\ IdleConsistent /\ FrontDefined /\
Patient`. `Patient` says that a worker that polls or works has liveness left, and
one that works has a request; types need it, since the worker counts its liveness
down and sends the request it holds back. The module begins with a lemma for each
operation of `workers_t` (`Erase`, `Push`, `Pop`, one turn of `purge`, ...): it
keeps the types and the agreement of deque and table, and says who is in the
deque after it. An append keeps the agreement only because the `Erase` before it
has taken the identity out of both.

`ImplementsService` proves that queue and workers implement `RequestService`. The
mapping counts where a request may be: at the frontend it waits; in the hand of a
worker or on that worker's channel it is assigned; nowhere, it is answered or
lost. That is a function of the state only if a request is in one place, which is
`OnePlace`, proved on top of the first invariant: no two workers hold a request,
no worker holds it twice, who holds one holds it unanswered, and the frontend has
it no more. Without it a request held twice would be answered twice, and the
second answer would be no step of the service. The steps are then of four kinds:
`Submit`, the dispatch (`Assign`), the reply that reaches the queue (`Answer`),
and all those that only drop messages (crash, reconnect, a full channel, an
aborted queue), each of which loses some set of requests, or none, and is the
service's `Lose` or a stutter. `EachAnsweredOnce` then proves the service's own
promise, a reply for exactly the answered requests and one only, and carries it
over to the queue; `LoadBalancerProofs` does the same for the broker.

**Freelance agent.** `FreelanceAgentProofs` proves types, `AliveListed`,
`AnswerUnderWay`, and that the agent hears only from servers it has connected to
(the assertion on `conn_map_`). The inductive invariant adds `ConnectedOnce` (a
CONNECT is on the pipe at most once, and not for a server that the agent knows)
and `OnlyConnected` (servers on the list are connected, messages and open links
belong to connected servers). `AliveListed` needs the first: a server that was
connected twice would have a place on the list that its flag does not know of.

**Load-balancing broker.** `LoadBalancerProofs` proves types, `QueuedAreIdle` and
`FrontDefined` for any numbers of threads. `QueuedAreIdle` is not inductive: that
a worker whose message is read is not queued already takes `OnePlace`, which says
of each worker that it is queued, or has one message to the broker, or one from
it, or is at work. `RepliesMissing` (while the loop runs a reply is missing) keeps
`client_count` from going below zero. On top of that invariant, `Places` follows
the requests: each is at the frontend, with one worker, answered, or not made yet,
and `client_count` is the number of those without a reply. From it follow
`ClientsJoinable` and that the broker implements `RequestService`
(`ServesEachOnce`): `NextPlaces` sorts the steps into those that make, hand out
and answer a request and those that do nothing for any, and each of these is a
step of the service or a stutter.

**Peer brokers.** `PeerBrokersProofs` proves types, `ReadyAreIdle` and `InOnePlace`
for any brokers with any numbers of clients and workers. `InOnePlace` counts the
messages of a client over all brokers' channels; a step that moves one takes it
from the front of one channel and puts it at the back of another, and the lemmas
`PushCount` and `PopCount` say what that does to the count of any set of
messages. What the count cannot see is a message that goes to the wrong broker:
`localfe` would drop it and the client would wait for ever. `ChannelsLeadHome`
excludes it: the frames of every envelope, in every channel and in the hand of
every worker, name the broker of the client, or nobody if that is the broker
they are at. `WorkerInOnePlace` says for a worker what `OnePlace` of the
load-balancing broker does, and `ListsAreOwn` that it is listed at its own broker.

**Simple and Lazy Pirate.** `SimplePirateProofs` proves types, `QueuedAreIdle`,
`QueueInBounds` (for a limit that is no less than the number of workers that run
at a time) and `OwnReplies`, for any clients, workers and tries. `OwnReplies` is
the one that looks obvious and is not inductive: a client keeps its socket when it
goes on to its next request, so that whatever else came over that socket must be
gone. `TryInOnePlace` says it: the try that a client waits for is on its way, at
the frontend, with one worker or answered, and everything else of that client's is
over an older socket. The bound on the queue follows from a count: its members and
a worker about to join it are different workers, and all of them run.

**Last value cache.** `LVCacheProofs` proves types (which no run checks, since the
proof covers them) and `NeverGoesBack`, for any topics, subscribers and high-water
mark. A value that is sent in answer to a
subscription overtakes updates that the cache has not read yet, and goes to
everybody who has that topic. It does no harm because on their way to a
subscriber the values of a topic get older: what is published is no older than
what waits at the cache (`FeedRises`), that no older than the cache, and that no
older than what is on its way to a subscriber or shown by it (`InboxRises`), with
the values in each queue in order (`Rises`). The answer is the cached value, so it
fits behind everything that was sent before. With prefixes, a subscriber's queue
holds several topics, and the order is one per topic.

**Programs that stand alone.** `ProgramsProofs` has one part for each program.
*Pipeline*: types and `KillIsLast` for any batch. The invariant is `Tally`: the
sink has read one message more than `task_nbr`, counting the start signal and the
results together. When `task_nbr` is the number of tasks, the two can add up only
if all of both have been read; the order in which they came does not matter.
*Boss and workers*: types and `FiredOnce` for any number of workers. The count of
notices is right because of `Lockstep`: between a worker and the boss there is one
message, or none while the worker is busy or gone. A worker with two messages at
the boss could be counted twice. *Shotgun*: types, where the number of the call
is below its limit because it and the calls left add up (`Numbered`).
*Synchronized publisher*: types, where a subscriber's count stays within the
updates because what it has counted and what is on its way are no more than was
published, and END comes last (`Accounted`). *Round trip*: types; no count of the
tests passes the messages sent. *Asynchronous client and server*: types, and
`OwnReplies`, for any clients, workers and identities. Two clients may draw one
identity; `Addressed` says that only one of them is ever taken, and that whatever
is on its way, or in a worker's hand while it still has replies to send, has the
identity of the client that made the request in front of it.
`ProgramsAreEach` proves that a behaviour of `Programs` is a behaviour of each of
the six specifications, so that their theorems hold of what the run checks
(`ProgramsTypeCorrect`, `ProgramsKillComesLast`, `ProgramsFireOnce`,
`ProgramsReplyToOwn`).

The strengthened invariants were checked by TLC before they were proved.
Assumptions: the named `ASSUME`s of the modules (finite sets of threads, workers
and tasks, time limits that are positive numbers, messages that are no names of
threads, sizes that are natural numbers), which TLC evaluates for the instances,
and what a theorem states in front of its `PROVE`: finitely many workers in the
boss's part of `ProgramsProofs`, `MaxRunning <= MAX_WORKERS` for the bound on the
queue.

Model-checked only: liveness, because it needs fairness and `ENABLED`. These are
`ExpiredLeave`, `RequestsLeave`, `CallsReturn` (of two modules), `ServersReturn`,
`ClientsEnd`, `EndsIfAllQueued`, `RepliesGoOn`, `Resolves`, `AnsweredFromCache`,
`BatchEnds`, `TestsEnd`, `BossEnds`, `InTimeGetAll` and `Answered`. The four runs
that expect a violation need no proof.

## Findings

1. `workers.cpp:59` (`assert(lookup_.count(identity))`): a heartbeat that was
   sent before its worker was dispatched arrives after, and stops the queue.
   Run `pp_late_heartbeat`.
2. `workers.cpp:79` ("removes dead workers from the queue"): the index of the
   loop is compared with a size that shrinks, so that of two dead workers one
   stays until the next round. Run `pp_purge`. That no live worker is lost, and
   that the dead one leaves in the end, holds.
3. `flcliagent.hpp:152` (`assert(request_.empty())`): a request that is sent more
   than once carries one more endpoint each time, its echo has no number, and
   what has no number is accepted at any time; such a reply is taken for the
   reply to the next call and the call after that meets a busy agent. Run
   `fl3_cycle`.
4. `lbbroker.cpp:151`: KILL goes to the workers that are queued when the last
   reply has been sent. A worker that was slower to start is never told, and
   main waits for it in its join. Run `lb_end`.

## Plan

Done, in the order of what matters most: the Paranoid Pirate, the Freelance agent,
the brokers, the retrying client, the cache, the pipeline, then the brokers'
start, the agent's blocked poll, and the programs that stand alone; theorems for
every safety property that a run checks, refinements included. What could follow:

1. Proofs: the safety half of the liveness properties, as far as it says
   something by itself (a shotgun call that returns has its own reply or its time
   is up; a subscriber in time has missed nothing so far).
2. `LVCache`: the second subscriber to a topic, which is not sent the cached
   value (`lvcache.cpp:60`), as a property of its own, and the assertion on
   prefixes in `pathosub.cpp`.
3. An instance of `PeerBrokers` with three brokers, beyond the time a run may
   take now; what is proved holds of it.

## Not modelled

* Freelance model one tries one server after the other, each over a socket of its
  own and with the same text: nothing carries over from one try to the next.
* The Lazy Pirate server is a REP socket and a count of cycles. For its client it
  does what the queue with one worker of `SimplePirate` does.
* `zmq::proxy` and XPUB demonstrations (the library's behaviour), echo servers,
  readers that print, version, identity and zero-copy demonstrations: no state of
  their own to check.
* `peering1.cpp` broadcasts random numbers and prints what it hears;
  `peering3.cpp` is a stub that parses its options.
* The arithmetic of the reports (`flclient3.cpp:43`, `flclient2.cpp:86`), output,
  signals and the build files.
