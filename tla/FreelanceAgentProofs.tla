------------------------ MODULE FreelanceAgentProofs ------------------------
(***************************************************************************)
(* Safety of the freelance agent for any set of endpoints, any number of   *)
(* requests and any timers.                                                *)
(***************************************************************************)
EXTENDS FreelanceAgent, SequenceTheorems, TLAPS

\* An endpoint is connected to once: its CONNECT is on the pipe at most once,
\* and not when the agent knows it already (flclient3.cpp:15-17).
ConnectedOnce ==
    \A i \in DOMAIN toAgent : toAgent[i].name = "CONNECT" =>
        /\ toAgent[i].server \notin connected
        /\ \A j \in DOMAIN toAgent :
               toAgent[j].name = "CONNECT" /\ toAgent[j].server = toAgent[i].server => i = j

\* The agent hears of connected servers only, and lists no others, which is
\* assert(conn_map_.count(endpoint)) at flcliagent.hpp:175.
OnlyConnected ==
    /\ \A i \in DOMAIN aliveList : aliveList[i] \in connected
    /\ \A s \in Server : link[s] = "open" \/ fromServer[s] # << >> => s \in connected

\* What every step keeps: AliveListed rests on a new server not being on the
\* list yet, which is why the two invariants above are needed.
IInv == TypeOK /\ ConnectedOnce /\ OnlyConnected /\ AliveListed /\ AnswerUnderWay

----------------------------------------------------------------------------
(***************************************************************************)
(* Sequences, read position by position.                                   *)
(***************************************************************************)

LEMMA Longer ==
  ASSUME NEW S, NEW q \in Seq(S), NEW x
  PROVE  /\ DOMAIN Append(q, x) = 1 .. Len(q) + 1
         /\ DOMAIN q = 1 .. Len(q)
         /\ Len(q) \in Nat
         /\ \A i \in DOMAIN q : Append(q, x)[i] = q[i]
         /\ Append(q, x)[Len(q) + 1] = x
         /\ x \in S => Append(q, x) \in Seq(S)
         /\ Append(q, x) # << >>
  OBVIOUS

LEMMA Shorter ==
  ASSUME NEW S, NEW q \in Seq(S), q # << >>
  PROVE  /\ Len(q) \in Nat \ {0}
         /\ DOMAIN q = 1 .. Len(q)
         /\ DOMAIN Tail(q) = 1 .. Len(q) - 1
         /\ \A i \in DOMAIN Tail(q) : Tail(q)[i] = q[i + 1]
         /\ Head(q) = q[1]
         /\ Head(q) \in S
         /\ Tail(q) \in Seq(S)
  OBVIOUS

LEMMA Pieces ==
  ASSUME NEW S, NEW q \in Seq(S)
  PROVE  /\ \A n \in 1 .. Len(q) + 1 : SubSeq(q, n, Len(q)) \in Seq(S)
         /\ \A n \in 0 .. Len(q) : SubSeq(q, 1, n) \in Seq(S)
         /\ q = << >> => \A n \in 0 .. Len(q) : SubSeq(q, 1, n) = << >>
  OBVIOUS

----------------------------------------------------------------------------

\* What an action that leaves the variables of an invariant alone keeps.
LEMMA Frames ==
  /\ ConnectedOnce /\ UNCHANGED <<toAgent, connected>> => ConnectedOnce'
  /\ OnlyConnected /\ UNCHANGED <<aliveList, connected, link, fromServer>> => OnlyConnected'
  /\ AliveListed /\ UNCHANGED <<aliveList, alive>> => AliveListed'
  /\ AnswerUnderWay /\ UNCHANGED <<app, pc, toAgent, request, toApi>> => AnswerUnderWay'
  BY DEF ConnectedOnce, OnlyConnected, AliveListed, AnswerUnderWay

LEMMA InitIInv == Init => IInv
  <1> SUFFICES ASSUME Init PROVE IInv
    OBVIOUS
  <1>1. TypeOK
    BY TimersAssumption, CountsAssumption DEF Init, TypeOK, NoRequest
  <1>2. ConnectedOnce /\ OnlyConnected /\ AliveListed /\ AnswerUnderWay
    BY DEF Init, ConnectedOnce, OnlyConnected, AliveListed, AnswerUnderWay
  <1> QED
    BY <1>1, <1>2 DEF IInv

LEMMA ConnectStep ==
  ASSUME IInv, NEW s \in Server, Connect(s)
  PROVE  IInv'
  <1> DEFINE c == [name |-> "CONNECT", server |-> s]
  <1>1. TypeOK /\ ConnectedOnce /\ OnlyConnected /\ AliveListed /\ AnswerUnderWay
    BY DEF IInv
  <1>2. toAgent \in Seq(Command) /\ c \in Command
    BY <1>1 DEF TypeOK, Command
  <1>3. toAgent' = Append(toAgent, c)
    BY DEF Connect
  <1>4. TypeOK'
    BY <1>1, <1>2, <1>3, Longer
       DEF TypeOK, Connect, apiVars, requestVars, tableVars, serverVars
  <1>5. ConnectedOnce'
    <2>1. /\ s \notin connected
          /\ \A i \in DOMAIN toAgent :
                 toAgent[i].name = "CONNECT" => toAgent[i].server # s
      BY DEF Connect, Asked
    <2>2. connected' = connected
      BY DEF Connect, tableVars
    <2> QED
      BY <1>1, <1>2, <1>3, <2>1, <2>2, Longer DEF ConnectedOnce
  <1>6. OnlyConnected' /\ AliveListed'
    BY <1>1, Frames DEF Connect, tableVars, serverVars
  <1>7. AnswerUnderWay'
    BY DEF Connect, AnswerUnderWay
  <1> QED
    BY <1>4, <1>5, <1>6, <1>7 DEF IInv

LEMMA CallStep ==
  ASSUME IInv, Call
  PROVE  IInv'
  <1> DEFINE c == [name |-> "REQUEST", of |-> requests + 1]
  <1>1. TypeOK /\ ConnectedOnce /\ OnlyConnected /\ AliveListed /\ AnswerUnderWay
    BY DEF IInv
  <1>2. toAgent \in Seq(Command) /\ c \in Command
    BY <1>1 DEF TypeOK, Command
  <1>3. toAgent' = Append(toAgent, c)
    BY DEF Call
  <1>4. TypeOK'
    BY <1>1, <1>2, <1>3, Longer, CountsAssumption
       DEF TypeOK, Call, requestVars, tableVars, serverVars
  <1>5. ConnectedOnce'
    <2>1. connected' = connected
      BY DEF Call, tableVars
    <2> QED
      BY <1>1, <1>2, <1>3, <2>1, Longer DEF ConnectedOnce
  <1>6. OnlyConnected' /\ AliveListed'
    BY <1>1, Frames DEF Call, tableVars, serverVars
  <1>7. AnswerUnderWay'
    <2>1. toAgent'[Len(toAgent) + 1] = c /\ Len(toAgent) + 1 \in DOMAIN toAgent'
      BY <1>2, <1>3, Longer
    <2>2. c.name = "REQUEST"
      OBVIOUS
    <2> QED
      BY <2>1, <2>2 DEF AnswerUnderWay
  <1> QED
    BY <1>4, <1>5, <1>6, <1>7 DEF IInv

LEMMA ReturnStep ==
  ASSUME IInv, Return \/ Finish
  PROVE  IInv'
  <1>1. TypeOK /\ ConnectedOnce /\ OnlyConnected /\ AliveListed /\ AnswerUnderWay
    BY DEF IInv
  <1>2. toApi \in Seq(Result)
    BY <1>1 DEF TypeOK
  <1>3. TypeOK'
    <2>1. toApi' \in Seq(Result)
      BY <1>2, Shorter DEF Return, Finish
    <2> QED
      BY <1>1, <2>1
         DEF TypeOK, Return, Finish, requestVars, tableVars, serverVars
  <1>4. ConnectedOnce' /\ OnlyConnected' /\ AliveListed'
    BY <1>1, Frames DEF Return, Finish, tableVars, serverVars
  <1>5. AnswerUnderWay'
    BY DEF Return, Finish, AnswerUnderWay
  <1> QED
    BY <1>3, <1>4, <1>5 DEF IInv

LEMMA OnConnectStep ==
  ASSUME IInv, OnConnect
  PROVE  IInv'
  <1> DEFINE s == Head(toAgent).server
  <1>1. TypeOK /\ ConnectedOnce /\ OnlyConnected /\ AliveListed /\ AnswerUnderWay
    BY DEF IInv
  <1>2. /\ toAgent \in Seq(Command)
        /\ toAgent # << >>
        /\ toAgent' = Tail(toAgent)
        /\ toAgent[1].name = "CONNECT"
        /\ s = toAgent[1].server
        /\ 1 \in DOMAIN toAgent
    BY <1>1, Shorter DEF TypeOK, OnConnect
  <1>3. s \in Server
    BY <1>2, Shorter DEF Command
  <1>4. s \notin connected
    BY <1>1, <1>2 DEF ConnectedOnce
  <1>5. /\ aliveList \in Seq(Server)
        /\ aliveList' = Append(aliveList, s)
        /\ alive' = [alive EXCEPT ![s] = FALSE]
        /\ connected' = connected \cup {s}
    BY <1>1 DEF TypeOK, OnConnect
  <1>6. \A i \in DOMAIN aliveList : aliveList[i] # s
    BY <1>1, <1>4 DEF OnlyConnected
  <1>7. TypeOK'
    <2>1. toAgent' \in Seq(Command) /\ aliveList' \in Seq(Server)
      BY <1>2, <1>3, <1>5, Shorter, Longer
    <2>2. connected' \in SUBSET Server /\ alive' \in [Server -> BOOLEAN]
      BY <1>1, <1>3, <1>5 DEF TypeOK
    <2>3. /\ ttl' \in [Server -> 0 .. SERVER_TTL]
          /\ pingAt' \in [Server -> 0 .. PING_INTERVAL]
      <3>1. /\ ttl' = [ttl EXCEPT ![s] = SERVER_TTL]
            /\ pingAt' = [pingAt EXCEPT ![s] = PING_INTERVAL]
        BY DEF OnConnect
      <3>2. /\ ttl \in [Server -> 0 .. SERVER_TTL]
            /\ pingAt \in [Server -> 0 .. PING_INTERVAL]
        BY <1>1 DEF TypeOK
      <3>3. SERVER_TTL \in 0 .. SERVER_TTL /\ PING_INTERVAL \in 0 .. PING_INTERVAL
        BY TimersAssumption
      <3> QED
        BY <3>1, <3>2, <3>3
    <2>4. UNCHANGED <<apiVars, toApi, requestVars, toServer, fromServer, serverVars>>
          /\ pc' = "router"
      BY DEF OnConnect
    <2> HIDE DEF s
    <2> QED
      BY <1>1, <2>1, <2>2, <2>3, <2>4 DEF TypeOK, apiVars, requestVars, serverVars
  <1>8. ConnectedOnce'
    <2> SUFFICES ASSUME NEW i \in DOMAIN toAgent', toAgent'[i].name = "CONNECT"
                 PROVE  /\ toAgent'[i].server \notin connected'
                        /\ \A j \in DOMAIN toAgent' :
                               /\ toAgent'[j].name = "CONNECT"
                               /\ toAgent'[j].server = toAgent'[i].server
                               => i = j
      BY DEF ConnectedOnce
    <2>1. /\ i \in 1 .. Len(toAgent) - 1
          /\ Len(toAgent) \in Nat
          /\ DOMAIN toAgent = 1 .. Len(toAgent)
          /\ DOMAIN toAgent' = 1 .. Len(toAgent) - 1
          /\ \A j \in DOMAIN toAgent' : toAgent'[j] = toAgent[j + 1]
      BY <1>2, Shorter
    <2>2. toAgent[i + 1].server # s
      BY <1>1, <1>2, <2>1 DEF ConnectedOnce
    <2>3. toAgent'[i].server \notin connected'
      BY <1>1, <1>5, <2>1, <2>2 DEF ConnectedOnce
    <2>4. ASSUME NEW j \in DOMAIN toAgent',
                 toAgent'[j].name = "CONNECT",
                 toAgent'[j].server = toAgent'[i].server
          PROVE  i = j
      <3>1. j \in 1 .. Len(toAgent) - 1 /\ i + 1 \in DOMAIN toAgent /\ j + 1 \in DOMAIN toAgent
        BY <2>1
      <3>2. i + 1 = j + 1
        BY <1>1, <2>1, <2>4, <3>1 DEF ConnectedOnce
      <3> QED
        BY <2>1, <3>1, <3>2
    <2> QED
      BY <2>3, <2>4
  <1>9. OnlyConnected'
    BY <1>1, <1>5, Longer DEF OnlyConnected, OnConnect, serverVars
  <1>10. AliveListed'
    <2>1. \A t \in Server : alive'[t] => t # s /\ alive[t]
      BY <1>1, <1>3, <1>5 DEF TypeOK
    <2>2. /\ Len(aliveList) \in Nat
          /\ DOMAIN aliveList = 1 .. Len(aliveList)
          /\ DOMAIN aliveList' = 1 .. Len(aliveList) + 1
          /\ \A i \in DOMAIN aliveList : aliveList'[i] = aliveList[i]
          /\ \A i \in DOMAIN aliveList : aliveList[i] \in Server
          /\ aliveList'[Len(aliveList) + 1] = s
      BY <1>5, Longer
    <2>3. \A i \in DOMAIN aliveList : alive'[aliveList[i]] = alive[aliveList[i]]
      BY <1>1, <1>5, <1>6, <2>2 DEF TypeOK
    <2>4. \A i, j \in DOMAIN aliveList' :
              i < j /\ aliveList'[i] = aliveList'[j] => j \in DOMAIN aliveList
      BY <1>6, <2>2
    <2>5. \A t \in Server : alive'[t] => \E i \in DOMAIN aliveList' : aliveList'[i] = t
      BY <1>1, <2>1, <2>2 DEF AliveListed
    <2>6. \A i, j \in DOMAIN aliveList' :
              i < j /\ aliveList'[i] = aliveList'[j] => alive'[aliveList'[i]]
      BY <1>1, <2>2, <2>3, <2>4 DEF AliveListed
    <2>7. \A i, j, k \in DOMAIN aliveList' :
              i < j /\ j < k /\ aliveList'[i] = aliveList'[j] => aliveList'[j] # aliveList'[k]
      BY <1>1, <2>2, <2>4 DEF AliveListed
    <2> QED
      BY <2>5, <2>6, <2>7 DEF AliveListed
  <1>11. AnswerUnderWay'
    <2>1. /\ DOMAIN toAgent = 1 .. Len(toAgent)
          /\ DOMAIN toAgent' = 1 .. Len(toAgent) - 1
          /\ Len(toAgent) \in Nat
          /\ \A j \in DOMAIN toAgent' : toAgent'[j] = toAgent[j + 1]
      BY <1>2, Shorter
    <2>2. ASSUME NEW i \in DOMAIN toAgent, toAgent[i].name = "REQUEST"
          PROVE  \E j \in DOMAIN toAgent' : toAgent'[j].name = "REQUEST"
      <3>1. i # 1
        BY <1>2, <2>2
      <3>2. i - 1 \in DOMAIN toAgent' /\ toAgent'[i - 1] = toAgent[i]
        BY <2>1, <3>1
      <3> QED
        BY <2>2, <3>2
    <2>3. app' = app /\ request' = request /\ toApi' = toApi /\ pc # "aborted"
      BY DEF OnConnect, InPoll, apiVars, requestVars
    <2> QED
      BY <1>1, <2>2, <2>3 DEF AnswerUnderWay
  <1> QED
    BY <1>7, <1>8, <1>9, <1>10, <1>11 DEF IInv

LEMMA OnRequestStep ==
  ASSUME IInv, OnRequest
  PROVE  IInv'
  <1>1. TypeOK /\ ConnectedOnce /\ OnlyConnected /\ AliveListed /\ AnswerUnderWay
    BY DEF IInv
  <1>2. toAgent \in Seq(Command) /\ toAgent # << >> /\ toAgent' = Tail(toAgent)
    BY <1>1 DEF TypeOK, OnRequest
  <1>3. toAgent' \in Seq(Command)
    BY <1>2, Shorter
  <1>4. TypeOK'
    <2>1. request' \in [seq : Nat, again : BOOLEAN]
      <3>1. [seq |-> sequence + 1, again |-> FALSE] \in [seq : Nat, again : BOOLEAN]
        BY <1>1 DEF TypeOK
      <3>2. \/ request' = [seq |-> sequence + 1, again |-> FALSE]
            \/ request' = request
        BY DEF OnRequest, requestVars
      <3> QED
        BY <1>1, <3>1, <3>2 DEF TypeOK
    <2>2. /\ expires' \in 0 .. GLOBAL_TIMEOUT
          /\ sequence' \in Nat
          /\ pc' \in {"poll", "blocked", "router", "dispatch", "ping", "aborted"}
      BY <1>1, TimersAssumption DEF TypeOK, OnRequest, requestVars
    <2> QED
      BY <1>1, <1>3, <2>1, <2>2 DEF TypeOK, OnRequest, apiVars, tableVars, serverVars
  <1>5. ConnectedOnce'
    <2>1. connected' = connected
      BY DEF OnRequest, tableVars
    <2> QED
      BY <1>1, <1>2, <2>1, Shorter DEF ConnectedOnce
  <1>6. OnlyConnected' /\ AliveListed'
    BY <1>1, Frames DEF OnRequest, tableVars, serverVars
  <1>7. AnswerUnderWay'
    <2>1. CASE request = NoRequest
      BY <1>1, <2>1 DEF OnRequest, AnswerUnderWay, NoRequest, TypeOK
    <2>2. CASE request # NoRequest
      BY <2>2 DEF OnRequest, AnswerUnderWay
    <2> QED
      BY <2>1, <2>2
  <1> QED
    BY <1>4, <1>5, <1>6, <1>7 DEF IInv

LEMMA OnReplyStep ==
  ASSUME IInv, NEW s \in Server, OnReply(s)
  PROVE  IInv'
  <1> DEFINE r == Head(fromServer[s])
             ok == [status |-> "OK", body |-> r.body, of |-> r.of]
  <1>1. TypeOK /\ ConnectedOnce /\ OnlyConnected /\ AliveListed /\ AnswerUnderWay
    BY DEF IInv
  <1>2. /\ aliveList \in Seq(Server)
        /\ alive \in [Server -> BOOLEAN]
        /\ fromServer \in [Server -> Seq(FromServer)]
        /\ toApi \in Seq(Result)
        /\ fromServer[s] # << >>
        /\ fromServer' = [fromServer EXCEPT ![s] = Tail(@)]
        /\ alive' = [alive EXCEPT ![s] = TRUE]
        /\ aliveList' = PushIfDead(s)
    BY <1>1 DEF TypeOK, OnReply
  <1>3. r \in FromServer /\ Tail(fromServer[s]) \in Seq(FromServer)
    BY <1>2, Shorter
  <1>4. ok \in Result
    BY <1>3 DEF FromServer, Result
  <1>5. s \in connected /\ connected' = connected /\ link' = link
    BY <1>1, <1>2 DEF OnlyConnected, OnReply, serverVars
  <1>6. TypeOK'
    <2>1. fromServer' \in [Server -> Seq(FromServer)] /\ alive' \in [Server -> BOOLEAN]
      BY <1>2, <1>3
    <2>2. aliveList' \in Seq(Server)
      BY <1>2, Longer DEF PushIfDead
    <2>3. toApi' \in Seq(Result)
      <3>1. toApi' = toApi \/ toApi' = Append(toApi, ok)
        BY DEF OnReply, Tell
      <3> HIDE DEF ok
      <3>2. Append(toApi, ok) \in Seq(Result)
        BY <1>2, <1>4, Longer
      <3> QED
        BY <1>2, <3>1, <3>2
    <2>4. /\ request' \in [seq : Nat, again : BOOLEAN]
          /\ expires' \in 0 .. GLOBAL_TIMEOUT
      <3>1. \/ request' = request /\ expires' = expires
            \/ request' = NoRequest /\ expires' = 0
        BY DEF OnReply, Clear
      <3>2. NoRequest \in [seq : Nat, again : BOOLEAN] /\ 0 \in 0 .. GLOBAL_TIMEOUT
        BY TimersAssumption DEF NoRequest
      <3>3. request \in [seq : Nat, again : BOOLEAN] /\ expires \in 0 .. GLOBAL_TIMEOUT
        BY <1>1 DEF TypeOK
      <3> QED
        BY <3>1, <3>2, <3>3
    <2>5. /\ pingAt' \in [Server -> 0 .. PING_INTERVAL]
          /\ ttl' \in [Server -> 0 .. SERVER_TTL]
      BY <1>1, TimersAssumption DEF TypeOK, OnReply
    <2> QED
      BY <1>1, <2>1, <2>2, <2>3, <2>4, <2>5 DEF TypeOK, OnReply, apiVars, serverVars
  <1>7. ConnectedOnce'
    BY <1>1, <1>5, Frames DEF OnReply
  <1>8. OnlyConnected'
    <2>1. \A i \in DOMAIN aliveList' : aliveList'[i] \in connected
      BY <1>1, <1>2, <1>5, Longer DEF OnlyConnected, PushIfDead
    <2>2. \A t \in Server : fromServer'[t] # << >> => t = s \/ fromServer[t] # << >>
      BY <1>2
    <2> QED
      BY <1>1, <1>5, <2>1, <2>2 DEF OnlyConnected
  <1>9. AliveListed'
    <2>1. CASE alive[s]
      BY <1>1, <1>2, <2>1, Frames DEF PushIfDead
    <2>2. CASE ~ alive[s]
      <3>1. aliveList' = Append(aliveList, s)
        BY <1>2, <2>2 DEF PushIfDead
      <3>2. /\ Len(aliveList) \in Nat
            /\ DOMAIN aliveList = 1 .. Len(aliveList)
            /\ DOMAIN aliveList' = 1 .. Len(aliveList) + 1
            /\ \A i \in DOMAIN aliveList : aliveList'[i] = aliveList[i]
            /\ \A i \in DOMAIN aliveList : aliveList[i] \in Server
            /\ aliveList'[Len(aliveList) + 1] = s
        BY <1>2, <3>1, Longer
      <3>3. \A i, j \in DOMAIN aliveList : i < j /\ aliveList[i] = aliveList[j] => aliveList[i] # s
        BY <1>1, <2>2 DEF AliveListed
      <3>4. \A t \in Server : alive'[t] <=> t = s \/ alive[t]
        BY <1>2
      <3>5. \A t \in Server : alive'[t] => \E i \in DOMAIN aliveList' : aliveList'[i] = t
        BY <1>1, <3>2, <3>4 DEF AliveListed
      <3>6. \A i, j \in DOMAIN aliveList' :
                i < j /\ aliveList'[i] = aliveList'[j] => alive'[aliveList'[i]]
        BY <1>1, <3>2, <3>4 DEF AliveListed
      <3>7. \A i, j, k \in DOMAIN aliveList' :
                i < j /\ j < k /\ aliveList'[i] = aliveList'[j] => aliveList'[j] # aliveList'[k]
        BY <1>1, <3>2, <3>3 DEF AliveListed
      <3> QED
        BY <3>5, <3>6, <3>7 DEF AliveListed
    <2> QED
      BY <2>1, <2>2
  <1>10. AnswerUnderWay'
    <2>1. CASE Accepts(r)
      <3>1. app = "waiting" => toApi' # << >>
        BY <1>2, <1>4, <2>1, Longer DEF OnReply, Tell
      <3> QED
        BY <3>1 DEF AnswerUnderWay, OnReply, apiVars
    <2>2. CASE ~ Accepts(r)
      BY <1>1, <2>2 DEF AnswerUnderWay, OnReply, InPoll, apiVars
    <2> QED
      BY <2>1, <2>2
  <1> QED
    BY <1>6, <1>7, <1>8, <1>9, <1>10 DEF IInv

\* The actions of the agent that touch neither the pipe from the application
\* nor the list.
LEMMA AgentStep ==
  ASSUME IInv, NoReply \/ TimerWakes \/ PollTooLate \/ NothingToDispatch \/ Ping \/ Tick
  PROVE  IInv'
  <1>1. TypeOK /\ ConnectedOnce /\ OnlyConnected /\ AliveListed /\ AnswerUnderWay
    BY DEF IInv
  <1>2. TypeOK'
    <2>1. CASE NoReply \/ TimerWakes \/ PollTooLate \/ NothingToDispatch
      BY <1>1, <2>1 DEF TypeOK, NoReply, TimerWakes, PollTooLate, NothingToDispatch,
         apiVars, requestVars, tableVars, serverVars
    <2>2. CASE Ping
      <3>1. toServer' \in [Server -> Seq(ToServer)]
        <4> DEFINE ping == [name |-> "PING", seq |-> -1, of |-> 0]
        <4>1. ping \in ToServer
          BY DEF ToServer, Stoseq
        <4>2. \A s \in Server : Append(toServer[s], ping) \in Seq(ToServer)
          BY <1>1, <4>1, Longer DEF TypeOK
        <4> QED
          BY <1>1, <2>2, <4>2 DEF TypeOK, Ping, Routed
      <3>2. pingAt' \in [Server -> 0 .. PING_INTERVAL]
        BY <1>1, <2>2, TimersAssumption DEF TypeOK, Ping
      <3> QED
        BY <1>1, <2>2, <3>1, <3>2 DEF TypeOK, Ping, apiVars, requestVars, serverVars
    <2>3. CASE Tick
      <3>1. \A n \in Nat : \A t \in 0 .. n : Less(t) \in 0 .. n
        BY DEF Less
      <3>2. /\ expires' \in 0 .. GLOBAL_TIMEOUT
            /\ ttl' \in [Server -> 0 .. SERVER_TTL]
            /\ pingAt' \in [Server -> 0 .. PING_INTERVAL]
        BY <1>1, <2>3, <3>1, TimersAssumption DEF TypeOK, Tick
      <3> QED
        BY <1>1, <2>3, <3>2 DEF TypeOK, Tick, apiVars, serverVars
    <2> QED
      BY <2>1, <2>2, <2>3
  <1>3. ConnectedOnce' /\ OnlyConnected' /\ AliveListed'
    BY <1>1, Frames DEF NoReply, TimerWakes, PollTooLate, NothingToDispatch, Ping, Tick,
       tableVars, serverVars
  <1>4. AnswerUnderWay'
    BY <1>1 DEF AnswerUnderWay, NoReply, TimerWakes, PollTooLate, NothingToDispatch,
       Ping, Tick, InPoll, apiVars, requestVars
  <1> QED
    BY <1>2, <1>3, <1>4 DEF IInv

LEMMA FailRequestStep ==
  ASSUME IInv, FailRequest
  PROVE  IInv'
  <1> DEFINE failed == [status |-> "FAILED", body |-> FALSE, of |-> request.seq]
  <1>1. TypeOK /\ ConnectedOnce /\ OnlyConnected /\ AliveListed /\ AnswerUnderWay
    BY DEF IInv
  <1>2. toApi \in Seq(Result) /\ failed \in Result
    BY <1>1 DEF TypeOK, Result
  <1>3. toApi' = IF app = "joining" THEN toApi ELSE Append(toApi, failed)
    BY DEF FailRequest, Tell
  <1>4. TypeOK'
    <2>1. toApi' \in Seq(Result)
      BY <1>2, <1>3, Longer
    <2>2. request' \in [seq : Nat, again : BOOLEAN] /\ expires' \in 0 .. GLOBAL_TIMEOUT
      BY TimersAssumption DEF FailRequest, Clear, NoRequest
    <2> QED
      BY <1>1, <2>1, <2>2 DEF TypeOK, FailRequest, apiVars, tableVars, serverVars
  <1>5. ConnectedOnce' /\ OnlyConnected' /\ AliveListed'
    BY <1>1, Frames DEF FailRequest, tableVars, serverVars
  <1>6. AnswerUnderWay'
    BY <1>2, <1>3, Longer DEF AnswerUnderWay, FailRequest, apiVars
  <1> QED
    BY <1>4, <1>5, <1>6 DEF IInv

LEMMA DispatchStep ==
  ASSUME IInv, Dispatch
  PROVE  IInv'
  <1>1. TypeOK /\ ConnectedOnce /\ OnlyConnected /\ AliveListed /\ AnswerUnderWay
    BY DEF IInv
  <1>2. request \in [seq : Nat, again : BOOLEAN] /\ request' = [request EXCEPT !.again = TRUE]
    BY <1>1 DEF TypeOK, Dispatch
  <1>3. TypeOK'
    <2> DEFINE m == [name |-> "REQUEST",
                     seq |-> IF request.again THEN -1 ELSE request.seq,
                     of |-> request.seq]
    <2>1. m \in ToServer
      BY <1>2 DEF ToServer, Stoseq
    <2>2. \A s \in Server : Append(toServer[s], m) \in Seq(ToServer)
      BY <1>1, <2>1, Longer DEF TypeOK
    <2>3. toServer' = Routed({Head(aliveList)}, m)
      BY DEF Dispatch
    <2>4. toServer' \in [Server -> Seq(ToServer)]
      BY <1>1, <2>2, <2>3 DEF TypeOK, Routed
    <2>5. request' \in [seq : Nat, again : BOOLEAN]
      BY <1>2
    <2> QED
      BY <1>1, <2>4, <2>5 DEF TypeOK, Dispatch, apiVars, tableVars, serverVars
  <1>4. ConnectedOnce' /\ OnlyConnected' /\ AliveListed'
    BY <1>1, Frames DEF Dispatch, tableVars, serverVars
  <1>5. AnswerUnderWay'
    <2>1. request'.again = TRUE
      BY <1>2
    <2> QED
      BY <2>1 DEF AnswerUnderWay, NoRequest
  <1> QED
    BY <1>3, <1>4, <1>5 DEF IInv

LEMMA DropExpiredStep ==
  ASSUME IInv, DropExpired
  PROVE  IInv'
  <1> DEFINE s == Head(aliveList)
  <1>1. TypeOK /\ ConnectedOnce /\ OnlyConnected /\ AliveListed /\ AnswerUnderWay
    BY DEF IInv
  <1>2. /\ aliveList \in Seq(Server)
        /\ alive \in [Server -> BOOLEAN]
        /\ aliveList # << >>
        /\ aliveList' = Tail(aliveList)
        /\ alive' = [alive EXCEPT ![s] = FALSE]
    BY <1>1 DEF TypeOK, DropExpired, MarkDead
  <1>3. /\ Len(aliveList) \in Nat \ {0}
        /\ DOMAIN aliveList = 1 .. Len(aliveList)
        /\ DOMAIN aliveList' = 1 .. Len(aliveList) - 1
        /\ \A i \in DOMAIN aliveList' : aliveList'[i] = aliveList[i + 1]
        /\ s = aliveList[1]
        /\ s \in Server
        /\ aliveList' \in Seq(Server)
        /\ \A i \in DOMAIN aliveList : aliveList[i] \in Server
    BY <1>2, Shorter
  <1> HIDE DEF s
  <1>4. TypeOK'
    BY <1>1, <1>2, <1>3 DEF TypeOK, DropExpired, apiVars, requestVars, serverVars
  <1>5. ConnectedOnce'
    BY <1>1, Frames DEF DropExpired
  <1>6. OnlyConnected'
    BY <1>1, <1>3 DEF OnlyConnected, DropExpired, serverVars
  <1>7. AliveListed'
    <2>1. \A t \in Server : alive'[t] <=> t # s /\ alive[t]
      BY <1>2, <1>3
    <2>2. ASSUME NEW t \in Server, alive'[t]
          PROVE  \E i \in DOMAIN aliveList' : aliveList'[i] = t
      <3>1. PICK i \in DOMAIN aliveList : aliveList[i] = t
        BY <1>1, <2>1, <2>2 DEF AliveListed
      <3>2. i # 1
        BY <1>3, <2>1, <2>2, <3>1
      <3>3. i - 1 \in DOMAIN aliveList' /\ aliveList'[i - 1] = t
        BY <1>3, <3>1, <3>2
      <3> QED
        BY <3>3
    <2>3. ASSUME NEW i \in DOMAIN aliveList', NEW j \in DOMAIN aliveList',
                 i < j, aliveList'[i] = aliveList'[j]
          PROVE  alive'[aliveList'[i]]
      <3>1. /\ 1 \in DOMAIN aliveList /\ i + 1 \in DOMAIN aliveList /\ j + 1 \in DOMAIN aliveList
            /\ 1 < i + 1 /\ i + 1 < j + 1
            /\ aliveList[i + 1] = aliveList[j + 1]
        BY <1>3, <2>3
      <3>2. alive[aliveList[i + 1]] /\ aliveList[1] # aliveList[i + 1]
        BY <1>1, <3>1 DEF AliveListed
      <3> QED
        BY <1>3, <2>1, <3>1, <3>2
    <2>4. ASSUME NEW i \in DOMAIN aliveList', NEW j \in DOMAIN aliveList',
                 NEW k \in DOMAIN aliveList', i < j, j < k, aliveList'[i] = aliveList'[j]
          PROVE  aliveList'[j] # aliveList'[k]
      <3>1. /\ i + 1 \in DOMAIN aliveList /\ j + 1 \in DOMAIN aliveList /\ k + 1 \in DOMAIN aliveList
            /\ i + 1 < j + 1 /\ j + 1 < k + 1
            /\ aliveList[i + 1] = aliveList[j + 1]
        BY <1>3, <2>4
      <3> QED
        BY <1>1, <1>3, <3>1 DEF AliveListed
    <2> QED
      BY <2>2, <2>3, <2>4 DEF AliveListed
  <1>8. AnswerUnderWay'
    BY <1>1, Frames DEF DropExpired, apiVars, requestVars
  <1> QED
    BY <1>4, <1>5, <1>6, <1>7, <1>8 DEF IInv

LEMMA ServerStep ==
  ASSUME IInv, NEW s \in Server, Serve(s) \/ Stop(s) \/ StartServer(s) \/ Link(s)
  PROVE  IInv'
  <1>1. TypeOK /\ ConnectedOnce /\ OnlyConnected /\ AliveListed /\ AnswerUnderWay
    BY DEF IInv
  <1>2. toServer[s] \in Seq(ToServer) /\ fromServer[s] \in Seq(FromServer)
    BY <1>1 DEF TypeOK
  <1>3. TypeOK'
    <2>1. CASE Serve(s)
      <3>1. Head(toServer[s]) \in ToServer /\ Tail(toServer[s]) \in Seq(ToServer)
        BY <1>2, <2>1, Shorter DEF Serve
      <3>2. ServerReply(Head(toServer[s])) \in FromServer
        BY <3>1 DEF ServerReply, FromServer, ToServer, Stoseq
      <3>3. Append(fromServer[s], ServerReply(Head(toServer[s]))) \in Seq(FromServer)
        BY <1>2, <3>2, Longer
      <3>4. toServer' \in [Server -> Seq(ToServer)] /\ fromServer' \in [Server -> Seq(FromServer)]
        BY <1>1, <2>1, <3>1, <3>3 DEF TypeOK, Serve
      <3> QED
        BY <1>1, <2>1, <3>4 DEF TypeOK, Serve, apiVars, requestVars, tableVars, serverVars
    <2>2. CASE Stop(s)
      <3>1. /\ \A n \in 1 .. Len(toServer[s]) + 1 :
                   SubSeq(toServer[s], n, Len(toServer[s])) \in Seq(ToServer)
            /\ \A n \in 0 .. Len(fromServer[s]) :
                   SubSeq(fromServer[s], 1, n) \in Seq(FromServer)
        BY <1>2, Pieces
      <3>2. toServer' \in [Server -> Seq(ToServer)] /\ fromServer' \in [Server -> Seq(FromServer)]
        BY <1>1, <2>2, <3>1 DEF TypeOK, Stop
      <3>3. /\ up' \in [Server -> BOOLEAN]
            /\ link' \in [Server -> {"never", "open", "broken"}]
            /\ stops' \in 0 .. MaxStops
        BY <1>1, <2>2, CountsAssumption DEF TypeOK, Stop
      <3> QED
        BY <1>1, <2>2, <3>2, <3>3 DEF TypeOK, Stop, apiVars, requestVars, tableVars
    <2>3. CASE StartServer(s) \/ Link(s)
      BY <1>1, <2>3 DEF TypeOK, StartServer, Link, apiVars, requestVars, tableVars
    <2> QED
      BY <2>1, <2>2, <2>3
  <1>4. ConnectedOnce' /\ AliveListed'
    BY <1>1, Frames DEF Serve, Stop, StartServer, Link, tableVars
  <1>5. OnlyConnected'
    <2>1. aliveList' = aliveList /\ connected' = connected
      BY DEF Serve, Stop, StartServer, Link, tableVars
    <2>2. ASSUME NEW t \in Server, link'[t] = "open" \/ fromServer'[t] # << >>
          PROVE  t \in connected
      <3>1. CASE t # s
        BY <1>1, <2>2, <3>1
           DEF OnlyConnected, TypeOK, Serve, Stop, StartServer, Link, serverVars
      <3>2. CASE t = s /\ Serve(s)
        BY <1>1, <3>2 DEF OnlyConnected, Serve
      <3>3. CASE t = s /\ Stop(s)
        <4>1. fromServer'[s] # << >> => fromServer[s] # << >>
          BY <1>1, <1>2, <3>3, Pieces DEF TypeOK, Stop
        <4>2. link'[s] = "open" => link[s] = "open"
          BY <1>1, <3>3 DEF TypeOK, Stop
        <4> QED
          BY <1>1, <2>2, <3>3, <4>1, <4>2 DEF OnlyConnected
      <3>4. CASE t = s /\ (StartServer(s) \/ Link(s))
        BY <1>1, <2>2, <3>4 DEF OnlyConnected, StartServer, Link
      <3> QED
        BY <3>1, <3>2, <3>3, <3>4
    <2> QED
      BY <1>1, <2>1, <2>2 DEF OnlyConnected
  <1>6. AnswerUnderWay'
    BY <1>1, Frames DEF Serve, Stop, StartServer, Link, apiVars, requestVars
  <1> QED
    BY <1>3, <1>4, <1>5, <1>6 DEF IInv

LEMMA NextIInv == IInv /\ [Next]_vars => IInv'
  <1> SUFFICES ASSUME IInv, [Next]_vars PROVE IInv'
    OBVIOUS
  <1>1. CASE Application
    BY <1>1, ConnectStep, CallStep, ReturnStep DEF Application
  <1>2. CASE Agent
    BY <1>2, OnConnectStep, OnRequestStep, AgentStep, FailRequestStep, DropExpiredStep,
       DispatchStep DEF Agent
  <1>3. CASE PollTooLate \/ Tick
    BY <1>3, AgentStep
  <1>4. ASSUME NEW s \in Server,
               OnReply(s) \/ Serve(s) \/ Stop(s) \/ StartServer(s) \/ Link(s)
        PROVE  IInv'
    BY <1>4, OnReplyStep, ServerStep
  <1>5. CASE UNCHANGED vars
    <2>1. TypeOK'
      BY <1>5 DEF IInv, TypeOK, vars
    <2>2. ConnectedOnce' /\ OnlyConnected' /\ AliveListed' /\ AnswerUnderWay'
      BY <1>5, Frames DEF IInv, vars
    <2> QED
      BY <2>1, <2>2 DEF IInv
  <1> QED
    BY <1>1, <1>2, <1>3, <1>4, <1>5 DEF Next

----------------------------------------------------------------------------

\* Everything the agent and the application do keeps IInv.
THEOREM Invariance == Spec => []IInv
  BY InitIInv, NextIInv, PTL DEF Spec

\* The variables keep their types, timers included: a timer that is set again or
\* runs out never leaves its range (flcliserver.hpp, flcliagent.hpp:106).
THEOREM TypeCorrect == Spec => []TypeOK
  <1>1. IInv => TypeOK
    BY DEF IInv
  <1> QED
    BY <1>1, Invariance, PTL

\* A server is on the list while it counts as alive and never has more than two
\* places on it, although it starts there without being marked
\* (flcliagent.hpp:146, 118, 178).
THEOREM AliveAreListed == Spec => []AliveListed
  <1>1. IInv => AliveListed
    BY DEF IInv
  <1> QED
    BY <1>1, Invariance, PTL

\* A waiting application has its command, the agent's request or a result under
\* way to it (flcliapi.hpp:44, flcliagent.hpp:105, 194).
THEOREM AnswersUnderWay == Spec => []AnswerUnderWay
  <1>1. IInv => AnswerUnderWay
    BY DEF IInv
  <1> QED
    BY <1>1, Invariance, PTL

\* assert(conn_map_.count(endpoint)) at flcliagent.hpp:175 never fails: whoever
\* the agent hears from is a server it has connected to.
THEOREM HeardAreConnected ==
  Spec => [](\A s \in Server : fromServer[s] # << >> => s \in connected)
  <1>1. IInv => \A s \in Server : fromServer[s] # << >> => s \in connected
    BY DEF IInv, OnlyConnected
  <1> QED
    BY <1>1, Invariance, PTL

=============================================================================
