---------------------------- MODULE AsyncServer ----------------------------
(***************************************************************************)
(* The asynchronous client and server (asyncsrv.cpp): clients that send    *)
(* requests without waiting for replies, a server that is zmq::proxy       *)
(* between a ROUTER and a DEALER socket, and workers that send one to five *)
(* replies to each request, some time apart.                               *)
(*                                                                         *)
(* A client draws its identity at random.  The ROUTER socket takes nothing *)
(* from a connection whose identity another one already has.  A message    *)
(* carries the identity that the ROUTER socket put in front of it, its     *)
(* number, and "of", the client it was made by or for, which the program   *)
(* does not know.                                                          *)
(***************************************************************************)
EXTENDS Integers, Sequences, Functions

CONSTANTS Client,
          Worker,
          Id,          \* the identities that can be drawn
          MaxReplies,  \* 5
          MaxRequests  \* bound: the requests of each client

VARIABLES
    identity,   \* identity[c]: what c has drawn
    routed,     \* the clients whose connections the frontend has taken
    request_nbr,
    frontend,   \* frontend[c]: the requests of c that are on their way
    jobs,       \* jobs[w]: the requests that the proxy has sent to w
    task,       \* task[w]: the last request of w, once it has one
    left,       \* left[w]: the replies it has still to send
    backend,    \* backend[w]: the replies of w that are on their way
    dump        \* dump[c]: the replies that are on their way to c

workerVars == <<task, left>>
vars == <<identity, routed, request_nbr, frontend, jobs, workerVars, backend, dump>>

Message == [id : Id, of : Client, nbr : Nat]

TypeOK ==
    /\ identity \in [Client -> Id]
    /\ routed \subseteq Client
    /\ request_nbr \in [Client -> 0 .. MaxRequests]
    /\ frontend \in [Client -> Seq(Nat)]
    /\ jobs \in [Worker -> Seq(Message)]
    /\ \A w \in Worker : left[w] > 0 => task[w] \in Message
    /\ left \in [Worker -> 0 .. MaxReplies]
    /\ backend \in [Worker -> Seq(Message)]
    /\ dump \in [Client -> Seq(Message)]

Init ==
    /\ identity \in [Client -> Id]
    /\ routed = {}
    /\ request_nbr = [c \in Client |-> 0]
    /\ frontend = [c \in Client |-> << >>]
    /\ jobs = [w \in Worker |-> << >>]
    /\ task = [w \in Worker |-> << >>]
    /\ left = [w \in Worker |-> 0]
    /\ backend = [w \in Worker |-> << >>]
    /\ dump = [c \in Client |-> << >>]

----------------------------------------------------------------------------
(***************************************************************************)
(* A client: it polls, and prints what it gets, and sends now and then.    *)
(***************************************************************************)

Connect(c) ==
    /\ c \notin routed
    /\ \A other \in routed : identity[other] # identity[c]
    /\ routed' = routed \cup {c}
    /\ UNCHANGED <<identity, request_nbr, frontend, jobs, workerVars, backend, dump>>

Send(c) ==
    /\ request_nbr[c] < MaxRequests
    /\ request_nbr' = [request_nbr EXCEPT ![c] = @ + 1]
    /\ frontend' = [frontend EXCEPT ![c] = Append(@, request_nbr[c] + 1)]
    /\ UNCHANGED <<identity, routed, jobs, workerVars, backend, dump>>

Dump(c) ==
    /\ dump[c] # << >>
    /\ dump' = [dump EXCEPT ![c] = Tail(@)]
    /\ UNCHANGED <<identity, routed, request_nbr, frontend, jobs, workerVars, backend>>

----------------------------------------------------------------------------
(***************************************************************************)
(* The server.                                                             *)
(***************************************************************************)

\* zmq::proxy, from the frontend to a worker: the DEALER socket takes them in turn.
ProxyRequest(c, w) ==
    /\ c \in routed
    /\ frontend[c] # << >>
    /\ frontend' = [frontend EXCEPT ![c] = Tail(@)]
    /\ jobs' = [jobs EXCEPT ![w] =
                   Append(@, [id |-> identity[c], of |-> c, nbr |-> Head(frontend[c])])]
    /\ UNCHANGED <<identity, routed, request_nbr, workerVars, backend, dump>>

\* ... and back, to the connection that has the identity.
ProxyReply(w) ==
    /\ backend[w] # << >>
    /\ backend' = [backend EXCEPT ![w] = Tail(@)]
    /\ \E c \in routed :
           /\ identity[c] = Head(backend[w]).id
           /\ dump' = [dump EXCEPT ![c] = Append(@, Head(backend[w]))]
    /\ UNCHANGED <<identity, routed, request_nbr, frontend, jobs, workerVars>>

----------------------------------------------------------------------------
(***************************************************************************)
(* A worker.                                                               *)
(***************************************************************************)

\* What rep_distr gives.
FromNone == 0 .. MaxReplies
Replies == 1 .. MaxReplies

\* An identity that is received only once would stay in front of later messages.
OldIdFirst(w) ==
    IF task[w] = << >> THEN Head(jobs[w]) ELSE [Head(jobs[w]) EXCEPT !.id = task[w].id]
Received(w) == Head(jobs[w])

Take(w) ==
    /\ left[w] = 0
    /\ jobs[w] # << >>
    /\ jobs' = [jobs EXCEPT ![w] = Tail(@)]
    /\ task' = [task EXCEPT ![w] = Received(w)]
    /\ \E n \in Replies : left' = [left EXCEPT ![w] = n]
    /\ UNCHANGED <<identity, routed, request_nbr, frontend, backend, dump>>

\* copied_id and copied_msg, each time from the request.
Reply(w) ==
    /\ left[w] > 0
    /\ left' = [left EXCEPT ![w] = @ - 1]
    /\ backend' = [backend EXCEPT ![w] = Append(@, task[w])]
    /\ UNCHANGED <<identity, routed, request_nbr, frontend, jobs, task, dump>>

----------------------------------------------------------------------------

Proxy == \E w \in Worker : ProxyReply(w) \/ \E c \in Client : ProxyRequest(c, w)

WorkerThread(w) == Take(w) \/ Reply(w)

Next ==
    \/ \E c \in Client : Connect(c) \/ Send(c) \/ Dump(c)
    \/ Proxy
    \/ \E w \in Worker : WorkerThread(w)

(***************************************************************************)
(* Fairness.  The threads run; the proxy reads its sockets in turn.        *)
(***************************************************************************)
Fairness ==
    /\ WF_vars(Proxy)
    /\ \A w \in Worker : WF_vars(WorkerThread(w))

Spec == Init /\ [][Next]_vars

FairSpec == Spec /\ Fairness

----------------------------------------------------------------------------

\* What reaches a client answers a request that it has made itself: the identity is
\* drawn at random, and a worker that is slow to reply puts identity and request
\* together again each time (asyncsrv.cpp:53, 93, 124, 145).
OwnReplies ==
    \A c \in Client : \A m \in Range(dump[c]) : m.of = c /\ m.nbr \in 1 .. request_nbr[c]

\* Every request of a client whose connection has been taken gets a reply, and
\* gets it at that client, even when another client has drawn the same identity,
\* and whichever worker has it and whatever that one has still to send
\* (asyncsrv.cpp:53, 71, 93, 124).
Answered ==
    \A c \in Client, n \in 1 .. MaxRequests :
        (c \in routed /\ n \in Range(frontend[c])) ~>
            \E m \in Range(dump[c]) : m.of = c /\ m.nbr = n

=============================================================================
