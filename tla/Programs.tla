------------------------------ MODULE Programs ------------------------------
(***************************************************************************)
(* The programs that stand alone.  They share no state and never talk to   *)
(* each other: each behavior is one of one program, chosen at the start,   *)
(* while the variables of the others keep their initial values.  Each      *)
(* program is fair while it is the one.                                    *)
(***************************************************************************)
EXTENDS Pipeline

CONSTANTS Server, TOTAL_REQUESTS, PipeSize, MaxStops,  \* of Shotgun
          SyncCalls, AsyncCalls, HWM,                  \* of RoundTrip
          Subscriber, SUBSCRIBERS_EXPECTED, Updates,   \* of SyncPublisher
          Client, Id, MaxReplies, MaxRequests          \* of AsyncServer

\* There are so many threads and servers as are counted, and the rest are numbers
\* of things.
ASSUME ProgramsAssumption ==
    /\ IsFiniteSet(Worker) /\ IsFiniteSet(Server)
    /\ {TOTAL_REQUESTS, PipeSize, MaxStops} \subseteq Nat
    /\ {SyncCalls, AsyncCalls, HWM} \subseteq Nat
    /\ {SUBSCRIBERS_EXPECTED, Updates} \subseteq Nat
    /\ {MaxReplies, MaxRequests} \subseteq Nat

VARIABLE program

VARIABLES caller, requests, sequence_, sends, turn, expired, reply, running, stops,
          pipe, answers
FL2 == INSTANCE Shotgun WITH HWM <- PipeSize
fl2Vars == <<caller, requests, sequence_, sends, turn, expired, reply,
             running, stops, pipe, answers>>

VARIABLES test, sent, received, atFrontend, atWorker, atBackend, atClient,
          connected, lost
RT == INSTANCE RoundTrip
rtVars == <<test, sent, received, atFrontend, atWorker, atBackend, atClient,
            connected, lost>>

VARIABLES boss, workers_fired, overtime, hiBoss, workload, thread
RW == INSTANCE RouterWorkers
rwVars == <<boss, workers_fired, overtime, hiBoss, workload, thread>>

VARIABLES publisher, subscribers, published, effective, reports, subscriber,
          update_nbr, inbox
SY == INSTANCE SyncPublisher
syVars == <<publisher, subscribers, published, effective, reports, subscriber,
            update_nbr, inbox>>

VARIABLES identity, routed, request_nbr, frontend, jobs, task, left, backend, dump
AS == INSTANCE AsyncServer
asVars == <<identity, routed, request_nbr, frontend, jobs, task, left,
            backend, dump>>

\* The identity of every client while another program runs.
AnId == CHOOSE id \in Id : TRUE

ProgramsInit ==
    /\ program \in {"pipeline", "flclient2", "tripping", "rtreq", "syncpub", "asyncsrv"}
    /\ Init /\ FL2!Init /\ RT!Init /\ RW!Init /\ SY!Init /\ AS!Init
    /\ program = "asyncsrv" \/ \A c \in Client : identity[c] = AnId

PipelineStep ==
    /\ program = "pipeline" /\ Next
    /\ UNCHANGED <<program, fl2Vars, rtVars, rwVars, syVars, asVars>>

Flclient2Step ==
    /\ program = "flclient2" /\ FL2!Next
    /\ UNCHANGED <<program, vars, rtVars, rwVars, syVars, asVars>>

TrippingStep ==
    /\ program = "tripping" /\ RT!Next
    /\ UNCHANGED <<program, vars, fl2Vars, rwVars, syVars, asVars>>

RtreqStep ==
    /\ program = "rtreq" /\ RW!Next
    /\ UNCHANGED <<program, vars, fl2Vars, rtVars, syVars, asVars>>

SyncpubStep ==
    /\ program = "syncpub" /\ SY!Next
    /\ UNCHANGED <<program, vars, fl2Vars, rtVars, rwVars, asVars>>

AsyncsrvStep ==
    /\ program = "asyncsrv" /\ AS!Next
    /\ UNCHANGED <<program, vars, fl2Vars, rtVars, rwVars, syVars>>

ProgramsNext ==
    \/ PipelineStep
    \/ Flclient2Step
    \/ TrippingStep
    \/ RtreqStep
    \/ SyncpubStep
    \/ AsyncsrvStep

ProgramsVars ==
    <<program, vars, fl2Vars, rtVars, rwVars, syVars, asVars>>

\* The fairness of each program, while it is the one that runs.
ProgramsFairness ==
    /\ WF_vars(program = "pipeline" /\ Ventilator)
    /\ WF_vars(program = "pipeline" /\ Sink)
    /\ \A w \in Worker : WF_vars(program = "pipeline" /\ WorkerLoop(w))
    /\ WF_fl2Vars(program = "flclient2" /\ FL2!Request)
    /\ WF_fl2Vars(program = "flclient2" /\ FL2!TimePasses)
    /\ \A s \in Server : WF_fl2Vars(program = "flclient2" /\ FL2!Serve(s))
    /\ WF_rtVars(program = "tripping" /\ RT!ClientTask)
    /\ WF_rtVars(program = "tripping" /\ RT!ToWorker)
    /\ WF_rtVars(program = "tripping" /\ RT!ToClient)
    /\ WF_rtVars(program = "tripping" /\ RT!Echo)
    /\ WF_rwVars(program = "rtreq" /\ RW!TimePasses)
    /\ WF_rwVars(program = "rtreq" /\ RW!Boss)
    /\ \A w \in Worker : WF_rwVars(program = "rtreq" /\ RW!WorkerThread(w))
    /\ WF_syVars(program = "syncpub" /\ SY!Publisher)
    /\ \A s \in Subscriber : WF_syVars(program = "syncpub" /\ SY!Receive(s))
    /\ WF_asVars(program = "asyncsrv" /\ AS!Proxy)
    /\ \A w \in Worker : WF_asVars(program = "asyncsrv" /\ AS!WorkerThread(w))

ProgramsSpec == ProgramsInit /\ [][ProgramsNext]_ProgramsVars /\ ProgramsFairness

\* The type invariants of the six programs.
ProgramsTypeOK ==
    /\ TypeOK /\ FL2!TypeOK /\ RT!TypeOK /\ RW!TypeOK /\ SY!TypeOK /\ AS!TypeOK

\* Whoever is fired is fired once, as RouterWorkers states it (rtreq.cpp:68).
FiredOnce == RW!FiredOnce

\* Replies reach who asked for them, as AsyncServer states it (asyncsrv.cpp:93).
OwnReplies == AS!OwnReplies

\* The boss and its workers end, as RouterWorkers states it (rtreq.cpp:77).
BossEnds == RW!BossEnds

\* A call of the shotgun client returns, as Shotgun states it (flclient2.cpp:144).
CallsReturn == FL2!CallsReturn

\* The round-trip tests end, as RoundTrip states it (tripping.cpp:98).
TestsEnd == RT!TestsEnd

\* Nothing is missed in time, as SyncPublisher states it (syncpub.cpp:27).
InTimeGetAll == SY!InTimeGetAll

\* Every request is answered, as AsyncServer states it (asyncsrv.cpp:93).
Answered == AS!Answered

=============================================================================
