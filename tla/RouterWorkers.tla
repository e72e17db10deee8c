--------------------------- MODULE RouterWorkers ---------------------------
(***************************************************************************)
(* A boss that hands out work over a ROUTER socket to workers with REQ     *)
(* (rtreq.cpp) or DEALER sockets (rtdealer.cpp) until its time is up, then *)
(* fires them and joins their threads.                                     *)
(*                                                                         *)
(* The two programs differ in who writes the empty frame of a message, the *)
(* socket or the worker; what a worker may do next is in both the loop's   *)
(* doing, not the socket's.  The boss does not know its workers: it counts *)
(* how often it has answered "Fired!" to somebody.                         *)
(***************************************************************************)
EXTENDS Integers, Sequences, FiniteSets, Functions

CONSTANT Worker

WorkHarder == "Work harder"
Fired == "Fired!"

VARIABLES
    boss,          \* where main is
    workers_fired,
    overtime,      \* end_time has passed
    hiBoss,        \* hiBoss[w]: messages of w that wait at the broker
    workload,      \* workload[w]: replies on their way to w
    thread         \* thread[w]: where the thread of w is

vars == <<boss, workers_fired, overtime, hiBoss, workload, thread>>

TypeOK ==
    /\ boss \in {"answering", "joining", "ended"}
    /\ workers_fired \in 0 .. Cardinality(Worker)
    /\ overtime \in BOOLEAN
    /\ hiBoss \in [Worker -> Nat]
    /\ workload \in [Worker -> Seq({WorkHarder, Fired})]
    /\ thread \in [Worker -> {"asking", "waiting", "working", "ended"}]

Init ==
    /\ boss = "answering"
    /\ workers_fired = 0
    /\ overtime = FALSE
    /\ hiBoss = [w \in Worker |-> 0]
    /\ workload = [w \in Worker |-> << >>]
    /\ thread = [w \in Worker |-> "asking"]

TimePasses ==
    /\ ~ overtime
    /\ overtime' = TRUE
    /\ UNCHANGED <<boss, workers_fired, hiBoss, workload, thread>>

----------------------------------------------------------------------------
(***************************************************************************)
(* The boss.                                                               *)
(***************************************************************************)

\* The end of the loop: workers_fired < total_workers.
OneTooMany(n) == n > Cardinality(Worker)
AllFired(n) == n = Cardinality(Worker)

\* Three frames in, three frames out, to the worker that the first one names.
Answer(w) ==
    /\ boss = "answering"
    /\ ~ AllFired(workers_fired)
    /\ hiBoss[w] > 0
    /\ hiBoss' = [hiBoss EXCEPT ![w] = @ - 1]
    /\ workload' = [workload EXCEPT ![w] =
                       Append(@, IF overtime THEN Fired ELSE WorkHarder)]
    /\ workers_fired' = workers_fired + (IF overtime THEN 1 ELSE 0)
    /\ UNCHANGED <<boss, overtime, thread>>

StopAnswering ==
    /\ boss = "answering"
    /\ AllFired(workers_fired)
    /\ boss' = "joining"
    /\ UNCHANGED <<workers_fired, overtime, hiBoss, workload, thread>>

Join ==
    /\ boss = "joining"
    /\ \A w \in Worker : thread[w] = "ended"
    /\ boss' = "ended"
    /\ UNCHANGED <<workers_fired, overtime, hiBoss, workload, thread>>

----------------------------------------------------------------------------
(***************************************************************************)
(* A worker.                                                               *)
(***************************************************************************)

\* A DEALER socket would let the worker ask again before it has an answer.
AsksAhead(w) == thread[w] \in {"asking", "waiting"} /\ hiBoss[w] < 2
MayAsk(w) == thread[w] = "asking"

Ask(w) ==
    /\ MayAsk(w)
    /\ hiBoss' = [hiBoss EXCEPT ![w] = @ + 1]
    /\ thread' = [thread EXCEPT ![w] = "waiting"]
    /\ UNCHANGED <<boss, workers_fired, overtime, workload>>

Receive(w) ==
    /\ thread[w] = "waiting"
    /\ workload[w] # << >>
    /\ workload' = [workload EXCEPT ![w] = Tail(@)]
    /\ thread' = [thread EXCEPT ![w] =
                     IF Head(workload[w]) = Fired THEN "ended" ELSE "working"]
    /\ UNCHANGED <<boss, workers_fired, overtime, hiBoss>>

\* The sleep is over.
WorkDone(w) ==
    /\ thread[w] = "working"
    /\ thread' = [thread EXCEPT ![w] = "asking"]
    /\ UNCHANGED <<boss, workers_fired, overtime, hiBoss, workload>>

----------------------------------------------------------------------------

Boss == StopAnswering \/ Join \/ \E w \in Worker : Answer(w)

WorkerThread(w) == Ask(w) \/ Receive(w) \/ WorkDone(w)

Next ==
    \/ TimePasses
    \/ Boss
    \/ \E w \in Worker : WorkerThread(w)

(***************************************************************************)
(* Fairness.  The threads run, and five seconds pass.                      *)
(***************************************************************************)
Fairness ==
    /\ WF_vars(TimePasses)
    /\ WF_vars(Boss)
    /\ \A w \in Worker : WF_vars(WorkerThread(w))

Spec == Init /\ [][Next]_vars

FairSpec == Spec /\ Fairness

----------------------------------------------------------------------------

HasNotice(w) == thread[w] = "ended" \/ Fired \in Range(workload[w])

\* Each "Fired!" the boss has counted is for a worker of its own, whose thread
\* has ended or has only that left to read: when the boss joins the threads, none
\* is left that would hang in recv, and the join with it (rtreq.cpp:68, 77,
\* rtdealer.cpp:63, 72).
FiredOnce ==
    /\ workers_fired = Cardinality({w \in Worker : HasNotice(w)})
    /\ \A w \in Worker : HasNotice(w) => hiBoss[w] = 0 /\ Len(workload[w]) <= 1
    /\ boss # "answering" => \A w \in Worker : HasNotice(w)

\* When the time is up the boss and its workers all end, and "We're done!" is
\* printed (rtreq.cpp:79, rtdealer.cpp:74).
BossEnds == overtime ~> boss = "ended"

=============================================================================
