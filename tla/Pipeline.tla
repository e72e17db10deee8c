------------------------------ MODULE Pipeline ------------------------------
(***************************************************************************)
(* Divide and conquer: the ventilator (taskvent.cpp) hands out a batch of  *)
(* tasks, workers (taskwork.cpp) do them, the sink (tasksink.cpp) counts   *)
(* the results and sends KILL to the workers.                              *)
(*                                                                         *)
(* The ventilator tells the sink to start and gives the workers their      *)
(* tasks over different connections, so that a result may be at the sink   *)
(* before the start signal.  Neither is looked at: the sink reads one      *)
(* message and then one for each task.  A task is known by its name and    *)
(* where it is: place[t] and the worker it was sent to.  What waits on a   *)
(* connection is taken in any order, since no program could tell.          *)
(***************************************************************************)
EXTENDS Integers, FiniteSets

CONSTANTS Task,  \* the tasks of the batch, as many as sink and ventilator count
          Worker

ASSUME BatchAssumption == IsFiniteSet(Task)

VARIABLES
    vpc,        \* where the ventilator is
    start,      \* the start signal
    place,      \* place[t]: where task t, or its result, is
    holder,     \* holder[t]: the worker that task t was sent to
    joined,     \* the workers that the ventilator's socket is connected to
    wpc,        \* wpc[w]: where worker w is
    revents,    \* revents[w]: what the last poll of w found ready
    subscribed, \* the workers whose subscription the sink's controller knows
    killed,     \* the workers to which KILL is on its way
    spc,        \* where the sink is
    task_nbr    \* task_nbr of the sink

workerVars == <<wpc, revents>>
sinkVars == <<spc, task_nbr>>
vars == <<vpc, start, place, holder, joined, wpc, revents, subscribed, killed,
          spc, task_nbr>>

Nobody == "nobody"

\* A poll of a worker never finds a task and KILL at the same time.
TypeOK ==
    /\ vpc \in {"asking", "sending", "ended"}
    /\ start \in {"unsent", "sent", "read"}
    /\ place \in [Task -> {"vent", "sent", "work", "result", "counted", "lost"}]
    /\ holder \in [Task -> Worker \cup {Nobody}]
    /\ joined \in SUBSET Worker
    /\ wpc \in [Worker -> {"new", "poll", "receive", "working", "control", "ended"}]
    /\ revents \in [Worker -> {{}, {"task"}, {"KILL"}}]
    /\ subscribed \in SUBSET Worker
    /\ killed \in SUBSET Worker
    /\ spc \in {"waiting", "counting", "ended"}
    /\ task_nbr \in 0 .. Cardinality(Task)

Init ==
    /\ vpc = "asking"
    /\ start = "unsent"
    /\ place = [t \in Task |-> "vent"]
    /\ holder = [t \in Task |-> Nobody]
    /\ joined = {}
    /\ wpc = [w \in Worker |-> "new"]
    /\ revents = [w \in Worker |-> {}]
    /\ subscribed = {}
    /\ killed = {}
    /\ spc = "waiting"
    /\ task_nbr = 0

Move(t, to) == place' = [place EXCEPT ![t] = to]

Waiting(w) == {t \in Task : place[t] = "sent" /\ holder[t] = w}

----------------------------------------------------------------------------
(***************************************************************************)
(* The ventilator.                                                         *)
(***************************************************************************)

\* The user presses enter.
Go ==
    /\ vpc = "asking"
    /\ vpc' = "sending"
    /\ start' = "sent"
    /\ UNCHANGED <<place, holder, joined, workerVars, subscribed, killed, sinkVars>>

\* sender.send blocks while no worker is connected.
SendTask(t, w) ==
    /\ vpc = "sending"
    /\ place[t] = "vent"
    /\ w \in joined
    /\ Move(t, "sent")
    /\ holder' = [holder EXCEPT ![t] = w]
    /\ UNCHANGED <<vpc, start, joined, workerVars, subscribed, killed, sinkVars>>

VentEnds ==
    /\ vpc = "sending"
    /\ \A t \in Task : place[t] # "vent"
    /\ vpc' = "ended"
    /\ UNCHANGED <<start, place, holder, joined, workerVars, subscribed, killed,
                   sinkVars>>

----------------------------------------------------------------------------
(***************************************************************************)
(* A worker.                                                               *)
(***************************************************************************)

Start(w) ==
    /\ wpc[w] = "new"
    /\ wpc' = [wpc EXCEPT ![w] = "poll"]
    /\ UNCHANGED <<vpc, start, place, holder, joined, revents, subscribed, killed,
                   sinkVars>>

\* The worker's connections come up, each at its time, if the other side is there.
Join(w) ==
    /\ wpc[w] \notin {"new", "ended"}
    /\ vpc # "ended"
    /\ joined' = joined \cup {w}
    /\ UNCHANGED <<vpc, start, place, holder, workerVars, subscribed, killed, sinkVars>>

Subscribe(w) ==
    /\ wpc[w] \notin {"new", "ended"}
    /\ spc # "ended"
    /\ subscribed' = subscribed \cup {w}
    /\ UNCHANGED <<vpc, start, place, holder, joined, workerVars, killed, sinkVars>>

\* zmq::poll of items[0] and items[1], without a time limit.
Ready(w) ==
    {i \in {"task", "KILL"} :
        IF i = "task" THEN Waiting(w) # {} ELSE w \in killed}

Poll(w) ==
    /\ wpc[w] = "poll"
    /\ Ready(w) # {}
    /\ revents' = [revents EXCEPT ![w] = Ready(w)]
    /\ wpc' = [wpc EXCEPT ![w] = IF "task" \in Ready(w) THEN "receive" ELSE "control"]
    /\ UNCHANGED <<vpc, start, place, holder, joined, subscribed, killed, sinkVars>>

Receive(w) ==
    /\ wpc[w] = "receive"
    /\ \E t \in Waiting(w) : Move(t, "work")
    /\ wpc' = [wpc EXCEPT ![w] = "working"]
    /\ UNCHANGED <<vpc, start, holder, joined, revents, subscribed, killed, sinkVars>>

\* The sleep is over.
SendResult(w) ==
    /\ wpc[w] = "working"
    /\ \E t \in Task : place[t] = "work" /\ holder[t] = w /\ Move(t, "result")
    /\ wpc' = [wpc EXCEPT ![w] = "control"]
    /\ UNCHANGED <<vpc, start, holder, joined, revents, subscribed, killed, sinkVars>>

\* The worker looks at items[1] only, and does not read it.
GoOn(w) ==
    /\ wpc[w] = "control"
    /\ "KILL" \notin revents[w]
    /\ wpc' = [wpc EXCEPT ![w] = "poll"]
    /\ UNCHANGED <<vpc, start, place, holder, joined, revents, subscribed, killed,
                   sinkVars>>

\* The tasks that wait on a connection end with it.
Terminate(w) ==
    /\ wpc[w] = "control"
    /\ "KILL" \in revents[w]
    /\ wpc' = [wpc EXCEPT ![w] = "ended"]
    /\ place' = [t \in Task |-> IF t \in Waiting(w) THEN "lost" ELSE place[t]]
    /\ joined' = joined \ {w}
    /\ subscribed' = subscribed \ {w}
    /\ UNCHANGED <<vpc, start, holder, revents, killed, sinkVars>>

----------------------------------------------------------------------------
(***************************************************************************)
(* The sink.                                                               *)
(***************************************************************************)

\* receiver.recv, from the ventilator or from a worker.
ReadStart == start = "sent" /\ start' = "read" /\ UNCHANGED place

ReadResult(t) == place[t] = "result" /\ Move(t, "counted") /\ UNCHANGED start

Read == ReadStart \/ \E t \in Task : ReadResult(t)

\* The end of the loop: task_nbr < 100.
OneShort(n) == n + 1 = Cardinality(Task)
OneMore(n) == n = Cardinality(Task) + 1
AllCounted(n) == n = Cardinality(Task)

ReadFirst ==
    /\ spc = "waiting"
    /\ Read
    /\ spc' = "counting"
    /\ UNCHANGED <<vpc, holder, joined, workerVars, subscribed, killed, task_nbr>>

ReadNext ==
    /\ spc = "counting"
    /\ ~ AllCounted(task_nbr)
    /\ Read
    /\ task_nbr' = task_nbr + 1
    /\ UNCHANGED <<vpc, holder, joined, workerVars, subscribed, killed, spc>>

SendKill ==
    /\ spc = "counting"
    /\ AllCounted(task_nbr)
    /\ killed' = subscribed
    /\ spc' = "ended"
    /\ UNCHANGED <<vpc, start, place, holder, joined, workerVars, subscribed, task_nbr>>

----------------------------------------------------------------------------

Ventilator == VentEnds \/ \E t \in Task, w \in Worker : SendTask(t, w)

WorkerLoop(w) ==
    Poll(w) \/ Receive(w) \/ SendResult(w) \/ GoOn(w) \/ Terminate(w)

Sink == ReadFirst \/ ReadNext \/ SendKill

Next ==
    \/ Go
    \/ Ventilator
    \/ \E w \in Worker : Start(w) \/ Join(w) \/ Subscribe(w) \/ WorkerLoop(w)
    \/ Sink

(***************************************************************************)
(* Fairness.  The three programs run once they are started; nobody is      *)
(* forced to start them, nor a connection to come up.                      *)
(***************************************************************************)
Fairness ==
    /\ WF_vars(Ventilator)
    /\ WF_vars(Sink)
    /\ \A w \in Worker : WF_vars(WorkerLoop(w))

Spec == Init /\ [][Next]_vars

FairSpec == Spec /\ Fairness

----------------------------------------------------------------------------

\* KILL goes out when every task is done and counted and the start signal read,
\* although the sink may have taken a result for the start signal and the signal
\* for a result (tasksink.cpp:49, 57): no worker ends with a task.
KillIsLast ==
    spc = "ended" => start = "read" /\ \A t \in Task : place[t] = "counted"

\* A batch with one worker connected is counted to its end, and then the workers
\* that have subscribed by that time end (tasksink.cpp:76, taskwork.cpp:94).
BatchEnds ==
    vpc # "asking" /\ joined # {} ~>
        spc = "ended" /\ \A w \in killed : wpc[w] = "ended"

=============================================================================
