--------------------------- MODULE FreelanceAgent ---------------------------
(***************************************************************************)
(* Brokerless reliability, model three: an application thread that calls   *)
(* the API (flclient3.cpp, flcliapi.hpp), the agent thread it shares two   *)
(* pipes with (flcliagent.hpp), the agent's table of servers               *)
(* (flcliserver.hpp) and the servers themselves (flserver3.cpp).           *)
(*                                                                         *)
(* One pass of the agent's loop is poll (and handle at most one command),  *)
(* handle at most one reply, dispatch the current request, ping.  A timer  *)
(* is the number of ticks left to it; the code's "now() >= t" is 0 left.   *)
(* Time passes while the agent is in zmq::poll, or about to call it: its   *)
(* loop never blocks elsewhere.  A timer that runs out before the call, by *)
(* a millisecond or more, makes the time to poll negative, which zmq::poll *)
(* takes for no limit: the agent is then blocked.  request_ is kept as its *)
(* sequence number and whether it has been sent before: dispatch pushes an *)
(* endpoint in front of it each time, so that from the second time on a    *)
(* server reads an endpoint where the control frame should be.  Each       *)
(* request and reply carries in "of" the number of the request it was made *)
(* for, which the program does not know.                                   *)
(***************************************************************************)
EXTENDS Integers, Sequences, FiniteSets

CONSTANTS Server,          \* the endpoints the client connects to
          TOTAL_REQUESTS,  \* how many requests the application makes
          GLOBAL_TIMEOUT,  \* ticks until a request fails
          PING_INTERVAL,   \* ticks between two pings to an idle server
          SERVER_TTL,      \* ticks a silent server counts as alive
          HWM,             \* the high water mark of router_, for each server
          MaxInFlight,     \* bound: the clock waits while a channel is this long
          MaxStops         \* bound: how often a server process ends

ASSUME TimersAssumption ==
    /\ GLOBAL_TIMEOUT \in Nat \ {0}
    /\ PING_INTERVAL \in Nat \ {0}
    /\ SERVER_TTL \in Nat \ {0}

ASSUME CountsAssumption ==
    TOTAL_REQUESTS \in Nat /\ HWM \in Nat /\ MaxInFlight \in Nat /\ MaxStops \in Nat

VARIABLES
    app,        \* where the application is
    requests,   \* how many requests the application has made
    toAgent,    \* commands on the pipe to the agent
    toApi,      \* results on the pipe to the application
    pc,         \* where the agent's loop is
    request,    \* request_
    expires,    \* expires_ of the agent
    sequence,   \* sequence_
    aliveList,  \* alive_servers_
    connected,  \* the keys of conn_map_
    alive,      \* alive[s]: alive_ of server s
    ttl,        \* ttl[s]: expires_ of server s
    pingAt,     \* pingAt[s]: ping_at_ of server s
    toServer,   \* toServer[s]: what server s has not read
    fromServer, \* fromServer[s]: what s sent and the agent has not read
    up,         \* up[s]: the process of s runs
    link,       \* link[s]: the connection of router_ to s
    stops       \* how often a server process has ended

apiVars == <<app, requests>>
requestVars == <<request, expires, sequence>>
tableVars == <<aliveList, connected, alive, ttl, pingAt>>
serverVars == <<up, link, stops>>
vars == <<app, requests, toAgent, toApi, pc, request, expires, sequence,
          aliveList, connected, alive, ttl, pingAt, toServer, fromServer, up,
          link, stops>>

NoRequest == [seq |-> 0, again |-> FALSE]

Command ==
    [name : {"CONNECT"}, server : Server] \cup [name : {"REQUEST"}, of : Nat]

\* What stoseq makes of a control frame: the number in it, or -1.
Stoseq == {-1} \cup Nat

ToServer == [name : {"PING", "REQUEST"}, seq : Stoseq, of : Nat]
FromServer == [seq : Stoseq, body : BOOLEAN, of : Nat]
Result == [status : {"OK", "FAILED"}, body : BOOLEAN, of : Nat]

TypeOK ==
    /\ app \in {"connecting", "calling", "waiting", "joining"}
    /\ requests \in 0 .. TOTAL_REQUESTS
    /\ toAgent \in Seq(Command)
    /\ toApi \in Seq(Result)
    /\ pc \in {"poll", "blocked", "router", "dispatch", "ping", "aborted"}
    /\ request \in [seq : Nat, again : BOOLEAN]
    /\ expires \in 0 .. GLOBAL_TIMEOUT
    /\ sequence \in Nat
    /\ aliveList \in Seq(Server)
    /\ connected \in SUBSET Server
    /\ alive \in [Server -> BOOLEAN]
    /\ ttl \in [Server -> 0 .. SERVER_TTL]
    /\ pingAt \in [Server -> 0 .. PING_INTERVAL]
    /\ toServer \in [Server -> Seq(ToServer)]
    /\ fromServer \in [Server -> Seq(FromServer)]
    /\ up \in [Server -> BOOLEAN]
    /\ link \in [Server -> {"never", "open", "broken"}]
    /\ stops \in 0 .. MaxStops

Init ==
    /\ app = "connecting"
    /\ requests = 0
    /\ toAgent = << >>
    /\ toApi = << >>
    /\ pc = "poll"
    /\ request = NoRequest
    /\ expires = 0
    /\ sequence = 0
    /\ aliveList = << >>
    /\ connected = {}
    /\ alive = [s \in Server |-> FALSE]
    /\ ttl = [s \in Server |-> SERVER_TTL]
    /\ pingAt = [s \in Server |-> PING_INTERVAL]
    /\ toServer = [s \in Server |-> << >>]
    /\ fromServer = [s \in Server |-> << >>]
    /\ up \in [Server -> BOOLEAN]
    /\ link = [s \in Server |-> "never"]
    /\ stops = 0

----------------------------------------------------------------------------
(***************************************************************************)
(* The application thread.                                                 *)
(***************************************************************************)

\* Servers whose CONNECT the application has sent.
Asked ==
    connected \cup {toAgent[i].server :
                       i \in {j \in DOMAIN toAgent : toAgent[j].name = "CONNECT"}}

Connect(s) ==
    /\ app = "connecting"
    /\ s \notin Asked
    /\ toAgent' = Append(toAgent, [name |-> "CONNECT", server |-> s])
    /\ app' = IF Asked \cup {s} = Server THEN "calling" ELSE "connecting"
    /\ UNCHANGED <<requests, toApi, pc, requestVars, tableVars, toServer,
                   fromServer, serverVars>>

Call ==
    /\ app = "calling"
    /\ requests < TOTAL_REQUESTS
    /\ requests' = requests + 1
    /\ toAgent' = Append(toAgent, [name |-> "REQUEST", of |-> requests + 1])
    /\ app' = "waiting"
    /\ UNCHANGED <<toApi, pc, requestVars, tableVars, toServer, fromServer,
                   serverVars>>

\* An empty reply, which is what request() returns for FAILED and for a result
\* that has nothing behind its status, ends the loop of the application.
Return ==
    /\ app = "waiting"
    /\ toApi # << >>
    /\ toApi' = Tail(toApi)
    /\ app' = IF Head(toApi).status = "OK" /\ Head(toApi).body
              THEN "calling"
              ELSE "joining"
    /\ UNCHANGED <<requests, toAgent, pc, requestVars, tableVars, toServer,
                   fromServer, serverVars>>

\* All requests are made: the application joins the agent thread, which only
\* ends when the context is shut down, which happens after the join.
Finish ==
    /\ app = "calling"
    /\ requests = TOTAL_REQUESTS
    /\ app' = "joining"
    /\ UNCHANGED <<requests, toAgent, toApi, pc, requestVars, tableVars,
                   toServer, fromServer, serverVars>>

----------------------------------------------------------------------------
(***************************************************************************)
(* The agent thread.                                                       *)
(***************************************************************************)

\* The channels when the agent has sent m to the servers of S.  ROUTER drops
\* what it sends to an endpoint it has never been connected to; what it sends
\* while it connects again it keeps, as long as there is room.
Routed(S, m) ==
    [s \in Server |->
        IF s \in S /\ link[s] # "never" /\ Len(toServer[s]) < HWM
        THEN Append(toServer[s], m)
        ELSE toServer[s]]

\* zmq::poll, with a time limit or blocked, returns when there is a message.
InPoll == pc \in {"poll", "blocked"}

OnConnect ==
    /\ InPoll
    /\ toAgent # << >>
    /\ Head(toAgent).name = "CONNECT"
    /\ toAgent' = Tail(toAgent)
    /\ LET s == Head(toAgent).server IN
           /\ connected' = connected \cup {s}
           /\ aliveList' = Append(aliveList, s)
           /\ alive' = [alive EXCEPT ![s] = FALSE]
           /\ pingAt' = [pingAt EXCEPT ![s] = PING_INTERVAL]
           /\ ttl' = [ttl EXCEPT ![s] = SERVER_TTL]
    /\ pc' = "router"
    /\ UNCHANGED <<apiVars, toApi, requestVars, toServer, fromServer, serverVars>>

\* assert(request_.empty()) stops the process when the cycle is broken.
OnRequest ==
    /\ InPoll
    /\ toAgent # << >>
    /\ Head(toAgent).name = "REQUEST"
    /\ toAgent' = Tail(toAgent)
    /\ IF request = NoRequest
       THEN /\ sequence' = sequence + 1
            /\ request' = [seq |-> sequence + 1, again |-> FALSE]
            /\ expires' = GLOBAL_TIMEOUT
            /\ pc' = "router"
       ELSE /\ pc' = "aborted"
            /\ UNCHANGED requestVars
    /\ UNCHANGED <<apiVars, toApi, tableVars, toServer, fromServer, serverVars>>

\* The pipe to the application, which stops reading it when it joins the agent.
TellBodies(r) == toApi' = IF r.body THEN Append(toApi, r) ELSE toApi
Tell(r) == toApi' = IF app = "joining" THEN toApi ELSE Append(toApi, r)

\* request_.clear()
Clear == request' = NoRequest /\ expires' = 0

\* The check of on_router_message lets everything pass that is no number.
Accepts(r) == r.seq = -1 \/ r.seq = sequence

\* Marks a server that has been heard of as alive.
PushAlways(s) == Append(aliveList, s)
PushIfDead(s) == IF alive[s] THEN aliveList ELSE Append(aliveList, s)

OnReply(s) ==
    /\ pc = "router" \/ (InPoll /\ toAgent = << >>)
    /\ fromServer[s] # << >>
    /\ fromServer' = [fromServer EXCEPT ![s] = Tail(@)]
    /\ aliveList' = PushIfDead(s)
    /\ alive' = [alive EXCEPT ![s] = TRUE]
    /\ pingAt' = [pingAt EXCEPT ![s] = PING_INTERVAL]
    /\ ttl' = [ttl EXCEPT ![s] = SERVER_TTL]
    /\ LET r == Head(fromServer[s]) IN
           IF Accepts(r)
           THEN /\ Tell([status |-> "OK", body |-> r.body, of |-> r.of])
                /\ Clear
           ELSE UNCHANGED <<toApi, request, expires>>
    /\ pc' = "dispatch"
    /\ UNCHANGED <<apiVars, toAgent, sequence, connected, toServer,
                   serverVars>>

NoReply ==
    /\ pc = "router"
    /\ pc' = "dispatch"
    /\ UNCHANGED <<apiVars, toAgent, toApi, requestVars, tableVars, toServer,
                   fromServer, serverVars>>

\* A timer that tickless takes account of has run out.
TimerIsUp ==
    (request # NoRequest /\ expires = 0) \/ (\E s \in connected : pingAt[s] = 0)

\* zmq::poll returns because a timer has run out.
TimerWakes ==
    /\ pc = "poll"
    /\ toAgent = << >>
    /\ TimerIsUp
    /\ pc' = "dispatch"
    /\ UNCHANGED <<apiVars, toAgent, toApi, requestVars, tableVars, toServer,
                   fromServer, serverVars>>

\* zmq::poll is called with a timer that ran out a millisecond ago.
PollTooLate ==
    /\ pc = "poll"
    /\ TimerIsUp
    /\ pc' = "blocked"
    /\ UNCHANGED <<apiVars, toAgent, toApi, requestVars, tableVars, toServer,
                   fromServer, serverVars>>

NothingToDispatch ==
    /\ pc = "dispatch"
    /\ request = NoRequest \/ (expires > 0 /\ aliveList = << >>)
    /\ pc' = "ping"
    /\ UNCHANGED <<apiVars, toAgent, toApi, requestVars, tableVars, toServer,
                   fromServer, serverVars>>

FailRequest ==
    /\ pc = "dispatch"
    /\ request # NoRequest
    /\ expires = 0
    /\ Tell([status |-> "FAILED", body |-> FALSE, of |-> request.seq])
    /\ Clear
    /\ pc' = "ping"
    /\ UNCHANGED <<apiVars, toAgent, sequence, tableVars, toServer,
                   fromServer, serverVars>>

\* One turn of the loop that takes expired servers off the list.
MarkDead(s) == [alive EXCEPT ![s] = FALSE]

DropExpired ==
    /\ pc = "dispatch"
    /\ request # NoRequest
    /\ expires > 0
    /\ aliveList # << >>
    /\ ttl[Head(aliveList)] = 0
    /\ alive' = MarkDead(Head(aliveList))
    /\ aliveList' = Tail(aliveList)
    /\ UNCHANGED <<apiVars, toAgent, toApi, pc, requestVars, connected, ttl,
                   pingAt, toServer, fromServer, serverVars>>

\* request_.push_front(endpoint) and send: the first server to get the request
\* reads its number in the control frame, a later one reads an endpoint there.
Dispatch ==
    /\ pc = "dispatch"
    /\ request # NoRequest
    /\ expires > 0
    /\ aliveList # << >>
    /\ ttl[Head(aliveList)] > 0
    /\ request' = [request EXCEPT !.again = TRUE]
    /\ toServer' = Routed({Head(aliveList)},
           [name |-> "REQUEST",
            seq |-> IF request.again THEN -1 ELSE request.seq,
            of |-> request.seq])
    /\ pc' = "ping"
    /\ UNCHANGED <<apiVars, toAgent, toApi, expires, sequence, tableVars,
                   fromServer, serverVars>>

\* ping(server) for every server of conn_map_, those taken for dead included.
OnlyListed == {s \in connected : pingAt[s] = 0 /\ alive[s]}
Due == {s \in connected : pingAt[s] = 0}

Ping ==
    /\ pc = "ping"
    /\ toServer' = Routed(Due, [name |-> "PING", seq |-> -1, of |-> 0])
    /\ pingAt' = [s \in Server |-> IF s \in Due THEN PING_INTERVAL ELSE pingAt[s]]
    /\ pc' = "poll"
    /\ UNCHANGED <<apiVars, toAgent, toApi, requestVars, aliveList, connected,
                   alive, ttl, fromServer, serverVars>>

----------------------------------------------------------------------------
(***************************************************************************)
(* The servers.                                                            *)
(***************************************************************************)

\* PONG to PING; to anything else the control frame it came with, and "OK".
ServerReply(m) ==
    IF m.name = "PING"
    THEN [seq |-> -1, body |-> FALSE, of |-> 0]
    ELSE [seq |-> m.seq, body |-> TRUE, of |-> m.of]

Serve(s) ==
    /\ up[s]
    /\ link[s] = "open"
    /\ toServer[s] # << >>
    /\ toServer' = [toServer EXCEPT ![s] = Tail(@)]
    /\ fromServer' = [fromServer EXCEPT ![s] =
           Append(@, ServerReply(Head(toServer[s])))]
    /\ UNCHANGED <<apiVars, toAgent, toApi, pc, requestVars, tableVars, serverVars>>

\* A server process ends: what it had received and what it had not sent is lost.
Stop(s) ==
    /\ up[s]
    /\ stops < MaxStops
    /\ up' = [up EXCEPT ![s] = FALSE]
    /\ link' = [link EXCEPT ![s] = IF @ = "open" THEN "broken" ELSE @]
    /\ stops' = stops + 1
    /\ \E n \in 1 .. Len(toServer[s]) + 1 :
           toServer' = [toServer EXCEPT ![s] = SubSeq(@, n, Len(@))]
    /\ \E n \in 0 .. Len(fromServer[s]) :
           fromServer' = [fromServer EXCEPT ![s] = SubSeq(@, 1, n)]
    /\ UNCHANGED <<apiVars, toAgent, toApi, pc, requestVars, tableVars>>

StartServer(s) ==
    /\ ~ up[s]
    /\ up' = [up EXCEPT ![s] = TRUE]
    /\ UNCHANGED <<apiVars, toAgent, toApi, pc, requestVars, tableVars, toServer,
                   fromServer, link, stops>>

\* router_ connects to a server that runs, for the first time or again.
Link(s) ==
    /\ s \in connected
    /\ up[s]
    /\ link[s] # "open"
    /\ link' = [link EXCEPT ![s] = "open"]
    /\ UNCHANGED <<apiVars, toAgent, toApi, pc, requestVars, tableVars, toServer,
                   fromServer, up, stops>>

\* A timer, one tick later.
LessForEver(t) == t - 1
Less(t) == IF t = 0 THEN 0 ELSE t - 1

Tick ==
    /\ InPoll
    /\ app # "joining" => Len(toApi) <= MaxInFlight
    /\ \A s \in Server :
           /\ link[s] = "open" => Len(toServer[s]) < MaxInFlight
           /\ Len(fromServer[s]) < MaxInFlight
    /\ expires' = Less(expires)
    /\ ttl' = [s \in Server |-> IF s \in connected THEN Less(ttl[s]) ELSE ttl[s]]
    /\ pingAt' = [s \in Server |-> IF s \in connected THEN Less(pingAt[s]) ELSE pingAt[s]]
    /\ UNCHANGED <<apiVars, toAgent, toApi, pc, request, sequence, aliveList,
                   connected, alive, toServer, fromServer, serverVars>>

----------------------------------------------------------------------------

Application == (\E s \in Server : Connect(s)) \/ Call \/ Return \/ Finish

Agent ==
    \/ OnConnect
    \/ OnRequest
    \/ NoReply
    \/ TimerWakes
    \/ NothingToDispatch
    \/ FailRequest
    \/ DropExpired
    \/ Dispatch
    \/ Ping

Next ==
    \/ Application
    \/ Agent
    \/ PollTooLate
    \/ Tick
    \/ \E s \in Server :
        OnReply(s) \/ Serve(s) \/ Stop(s) \/ StartServer(s) \/ Link(s)

(***************************************************************************)
(* Fairness.  The two threads keep running, time passes, and poll reports   *)
(* sooner or later what any server has sent; a server that runs answers.    *)
(***************************************************************************)
Fairness ==
    /\ WF_vars(Application)
    /\ WF_vars(Agent)
    /\ SF_vars(Tick)
    /\ \A s \in Server :
           SF_vars(OnReply(s)) /\ WF_vars(Serve(s)) /\ WF_vars(Link(s))

Spec == Init /\ [][Next]_vars

FairSpec == Spec /\ Fairness

----------------------------------------------------------------------------

\* How often a server is on the list of those to use: a connected server starts
\* on it without being marked alive, so that its first message puts it there
\* again (flcliagent.hpp:146, 178).  It never gets a third place, one that is
\* marked dead has one place at most, and one that is marked alive has a place.
AliveListed ==
    /\ \A s \in Server : alive[s] => \E i \in DOMAIN aliveList : aliveList[i] = s
    /\ \A i, j \in DOMAIN aliveList :
           i < j /\ aliveList[i] = aliveList[j] => alive[aliveList[i]]
    /\ \A i, j, k \in DOMAIN aliveList :
           i < j /\ j < k /\ aliveList[i] = aliveList[j] => aliveList[j] # aliveList[k]

\* The application never waits for something that is not on its way: its
\* command, the request the agent works on, or a result (flcliapi.hpp:44).
AnswerUnderWay ==
    app = "waiting" /\ pc # "aborted" =>
        \/ \E i \in DOMAIN toAgent : toAgent[i].name = "REQUEST"
        \/ request # NoRequest
        \/ toApi # << >>

\* assert(request_.empty()), "strict request-reply cycle" (flcliagent.hpp:152).
StrictCycle ==
    InPoll /\ toAgent # << >> /\ Head(toAgent).name = "REQUEST" =>
        request = NoRequest

\* A call of request() returns, with a reply or without (flcliagent.hpp:105),
\* unless the process aborts or the agent is blocked: while it polls with a time
\* limit, no loss of requests, servers or replies holds the call up.
CallsReturn == app = "waiting" ~> app # "waiting" \/ pc \in {"aborted", "blocked"}

\* A server that stays up is used again however long it was away: it is pinged
\* although it is off the list, and its PONG puts it back (flcliagent.hpp:124).
ServersReturn ==
    \A s \in Server :
        <>[]up[s] => []<>(alive[s] \/ pc \in {"aborted", "blocked"})

=============================================================================
