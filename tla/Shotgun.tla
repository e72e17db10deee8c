------------------------------ MODULE Shotgun ------------------------------
(***************************************************************************)
(* Freelance, model two: a client (flclient2.cpp) that blasts each request *)
(* to all its servers (flserver2.cpp) over one DEALER socket and waits for *)
(* the first matching reply, for GLOBAL_TIMEOUT at most.                   *)
(*                                                                         *)
(* A request is known by its sequence number, which is all that is sent.   *)
(* The socket has a pipe to each server from connect on, whether it runs   *)
(* or not, and sends to the pipes in turn, past those that hold HWM; when  *)
(* a server stops it takes with it what has left the pipe and the replies  *)
(* that have not reached the client.                                       *)
(***************************************************************************)
EXTENDS Integers, Sequences, FiniteSets, Functions

CONSTANTS Server,
          TOTAL_REQUESTS,
          HWM,       \* messages that a pipe of the client's socket holds
          MaxStops   \* bound: how often a server stops

None == 0

VARIABLES
    caller,      \* where the client is
    requests,    \* requests still to make
    sequence_,
    sends,       \* requests sent in the loop over servers_
    turn,        \* the pipes the socket has sent to in this turn
    expired,     \* the time of the call is over
    reply,       \* the number of the reply that the call has, or None
    running,     \* the servers that run
    stops,
    pipe,        \* pipe[s]: requests on their way to s
    answers      \* answers[s]: replies on their way from s

callVars == <<requests, sequence_, sends, turn, expired, reply>>
serverVars == <<running, stops>>
vars == <<caller, callVars, serverVars, pipe, answers>>

servers_ == Cardinality(Server)

Number == 1 .. TOTAL_REQUESTS

TypeOK ==
    /\ caller \in {"calling", "sending", "polling", "returned", "ended"}
    /\ requests \in 0 .. TOTAL_REQUESTS
    /\ sequence_ \in 0 .. TOTAL_REQUESTS
    /\ sends \in 0 .. servers_
    /\ turn \subseteq Server
    /\ expired \in BOOLEAN
    /\ reply \in Number \cup {None}
    /\ running \subseteq Server
    /\ stops \in 0 .. MaxStops
    /\ pipe \in [Server -> Seq(Number)]
    /\ answers \in [Server -> Seq(Number)]

Init ==
    /\ caller = "calling"
    /\ requests = TOTAL_REQUESTS
    /\ sequence_ = 0
    /\ sends = 0
    /\ turn = {}
    /\ expired = FALSE
    /\ reply = None
    /\ running = {}
    /\ stops = 0
    /\ pipe = [s \in Server |-> << >>]
    /\ answers = [s \in Server |-> << >>]

----------------------------------------------------------------------------
(***************************************************************************)
(* main and flclient_t::request.                                           *)
(***************************************************************************)

Call ==
    /\ caller = "calling"
    /\ requests > 0
    /\ caller' = "sending"
    /\ sequence_' = sequence_ + 1
    /\ sends' = 0
    /\ expired' = FALSE
    /\ reply' = None
    /\ UNCHANGED <<requests, turn, serverVars, pipe, answers>>

Room == {s \in Server : Len(pipe[s]) < HWM}

\* The socket sends to each pipe with room once before it starts over; it blocks
\* while there is none.
SendFrames(s) ==
    /\ caller = "sending"
    /\ sends < servers_
    /\ s \in IF Room \ turn = {} THEN Room ELSE Room \ turn
    /\ turn' = (IF Room \ turn = {} THEN {} ELSE turn) \cup {s}
    /\ pipe' = [pipe EXCEPT ![s] = Append(@, sequence_)]
    /\ sends' = sends + 1
    /\ UNCHANGED <<caller, requests, sequence_, expired, reply, serverVars, answers>>

StartPolling ==
    /\ caller = "sending"
    /\ sends = servers_
    /\ caller' = "polling"
    /\ UNCHANGED <<callVars, serverVars, pipe, answers>>

TimePasses ==
    /\ caller = "polling"
    /\ ~ expired
    /\ expired' = TRUE
    /\ UNCHANGED <<caller, requests, sequence_, sends, turn, reply, serverVars, pipe,
                   answers>>

\* Any reply is kept; the loop goes on with one that does not match.
Receive(s) ==
    /\ caller = "polling"
    /\ answers[s] # << >>
    /\ reply' = Head(answers[s])
    /\ answers' = [answers EXCEPT ![s] = Tail(@)]
    /\ caller' = IF reply' = sequence_ \/ expired THEN "returned" ELSE "polling"
    /\ UNCHANGED <<requests, sequence_, sends, turn, expired, serverVars, pipe>>

Never == FALSE
TimeIsUp == expired

\* The last poll has found nothing.
GiveUp ==
    /\ caller = "polling"
    /\ TimeIsUp
    /\ caller' = "returned"
    /\ UNCHANGED <<callVars, serverVars, pipe, answers>>

\* main: "name service not available, aborting..."
NextRequest ==
    /\ caller = "returned"
    /\ IF reply = None THEN caller' = "ended" /\ UNCHANGED requests
                       ELSE caller' = "calling" /\ requests' = requests - 1
    /\ UNCHANGED <<sequence_, sends, turn, expired, reply, serverVars, pipe, answers>>

AllMade ==
    /\ caller = "calling"
    /\ requests = 0
    /\ caller' = "ended"
    /\ UNCHANGED <<callVars, serverVars, pipe, answers>>

----------------------------------------------------------------------------
(***************************************************************************)
(* A server.                                                               *)
(***************************************************************************)

Start(s) ==
    /\ s \notin running
    /\ running' = running \cup {s}
    /\ UNCHANGED <<caller, callVars, stops, pipe, answers>>

Stop(s) ==
    /\ s \in running
    /\ stops < MaxStops
    /\ running' = running \ {s}
    /\ stops' = stops + 1
    /\ \E taken \in 0 .. Len(pipe[s]), left \in 0 .. Len(answers[s]) :
           /\ pipe' = [pipe EXCEPT ![s] = SubSeq(@, taken + 1, Len(@))]
           /\ answers' = [answers EXCEPT ![s] = SubSeq(@, 1, left)]
    /\ UNCHANGED <<caller, callVars>>

\* request is the number, once the REP socket has put the envelope aside.
Serve(s) ==
    /\ s \in running
    /\ pipe[s] # << >>
    /\ pipe' = [pipe EXCEPT ![s] = Tail(@)]
    /\ answers' = [answers EXCEPT ![s] = Append(@, Head(pipe[s]))]
    /\ UNCHANGED <<caller, callVars, serverVars>>

----------------------------------------------------------------------------

Request ==
    \/ Call \/ StartPolling \/ GiveUp \/ NextRequest \/ AllMade
    \/ \E s \in Server : SendFrames(s) \/ Receive(s)

Next ==
    \/ Request
    \/ TimePasses
    \/ \E s \in Server : Start(s) \/ Stop(s) \/ Serve(s)

(***************************************************************************)
(* Fairness.  The client runs, time passes, a server that runs answers.    *)
(***************************************************************************)
Fairness ==
    /\ WF_vars(Request)
    /\ WF_vars(TimePasses)
    /\ \A s \in Server : WF_vars(Serve(s))

Spec == Init /\ [][Next]_vars

FairSpec == Spec /\ Fairness

----------------------------------------------------------------------------

\* With one server that stays up, every call returns: its sends do not block for
\* good on the full pipes of other servers, and when that server was left out, for
\* a full pipe of its own, the time limit ends the call.  A call that returns
\* before has the reply to itself, whatever replies to earlier calls were queued
\* up; at the time limit it returns one of those (flclient2.cpp:118, 134-144).
CallsReturn ==
    \A s \in Server, n \in Number :
        <>[](s \in running) =>
            ((caller = "sending" /\ sequence_ = n) ~>
                 (caller = "returned" /\ sequence_ = n /\ (reply = n \/ expired)))

=============================================================================
