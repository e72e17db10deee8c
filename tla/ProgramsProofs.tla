--------------------------- MODULE ProgramsProofs ---------------------------
(***************************************************************************)
(* The programs that stand alone, for every number of tasks, threads,      *)
(* clients and messages: each keeps its types; KILL is the last message of *)
(* a batch, whatever the order of the others; the boss of rtreq.cpp fires  *)
(* each of its workers once.                                               *)
(***************************************************************************)
EXTENDS Programs, FiniteSetTheorems, SequenceTheorems, TLAPS

----------------------------------------------------------------------------
(***************************************************************************)
(* The pipeline.                                                           *)
(***************************************************************************)

Counted == {t \in Task : place[t] = "counted"}

\* What the sink has read, from the ventilator and from the workers.
StartsRead == IF start = "read" THEN 1 ELSE 0
MessagesRead == StartsRead + Cardinality(Counted)

\* The sink has read task_nbr messages after the first.
Tally ==
    /\ vpc = "asking" => start = "unsent"
    /\ spc = "waiting" => task_nbr = 0 /\ MessagesRead = 0
    /\ spc = "counting" => MessagesRead = task_nbr + 1

NoKillBefore == spc # "ended" => killed = {}

IInv == TypeOK /\ Tally /\ NoKillBefore /\ KillIsLast

----------------------------------------------------------------------------

\* No set of tasks is larger than the batch, and one that is as large is all of it.
LEMMA CountedIsFinite ==
    /\ IsFiniteSet(Counted)
    /\ Cardinality(Counted) \in Nat
    /\ Cardinality(Task) \in Nat
    /\ Cardinality(Counted) <= Cardinality(Task)
    /\ Cardinality(Counted) = Cardinality(Task) => Counted = Task
  <1>1. Counted \in SUBSET Task
    BY DEF Counted
  <1> QED
    BY <1>1, BatchAssumption, FS_Subset, FS_CardinalityType

\* Each read is of one message more.
LEMMA ReadCounts ==
    ASSUME TypeOK, Read
    PROVE  /\ MessagesRead' = MessagesRead + 1
           /\ start' \in {"unsent", "sent", "read"}
           /\ place' \in [Task -> {"vent", "sent", "work", "result", "counted", "lost"}]
           /\ start = "unsent" => start' = "unsent"
  <1>1. CASE ReadStart
    <2>1. Counted' = Counted /\ StartsRead = 0 /\ StartsRead' = 1
      BY <1>1 DEF ReadStart, Counted, StartsRead
    <2> QED
      BY <1>1, <2>1, CountedIsFinite DEF MessagesRead, ReadStart, TypeOK
  <1>2. ASSUME NEW t \in Task, ReadResult(t) PROVE MessagesRead' = MessagesRead + 1
    <2>1. Counted' = Counted \cup {t} /\ t \notin Counted
      BY <1>2 DEF ReadResult, Move, Counted, TypeOK
    <2>2. Cardinality(Counted \cup {t}) = Cardinality(Counted) + 1
      BY <2>1, CountedIsFinite, FS_AddElement
    <2>3. StartsRead' = StartsRead /\ StartsRead \in Nat
      BY <1>2 DEF ReadResult, StartsRead
    <2> QED
      BY <2>1, <2>2, <2>3, CountedIsFinite DEF MessagesRead
  <1>3. ASSUME NEW t \in Task, ReadResult(t)
        PROVE  /\ start' = start
               /\ place' \in [Task -> {"vent", "sent", "work", "result", "counted", "lost"}]
    BY <1>3 DEF ReadResult, Move, TypeOK
  <1> QED
    BY <1>1, <1>2, <1>3 DEF Read, ReadStart, TypeOK

\* A step that the sink takes no part in changes neither the tally nor, when the
\* sink has ended, where tasks are.
LEMMA ElsewhereKeeps ==
    ASSUME IInv, TypeOK', UNCHANGED <<sinkVars, killed>>, Counted' = Counted,
           start' = start \/ (vpc = "asking" /\ start' = "sent" /\ vpc' = "sending"),
           vpc' = "asking" => vpc = "asking",
           spc = "ended" => UNCHANGED place
    PROVE  IInv'
  <1> USE DEF IInv
  <1>1. start' = "read" <=> start = "read"
    BY DEF Tally
  <1>2. MessagesRead' = MessagesRead
    BY <1>1 DEF MessagesRead, StartsRead
  <1>3. vpc' = "asking" => start' = "unsent"
    BY DEF Tally
  <1>4. Tally'
    BY <1>2, <1>3 DEF Tally, sinkVars
  <1>5. NoKillBefore' /\ KillIsLast'
    BY <1>1 DEF NoKillBefore, KillIsLast, sinkVars
  <1> QED
    BY <1>4, <1>5

----------------------------------------------------------------------------

LEMMA InitIInv == Init => IInv
  <1> SUFFICES ASSUME Init PROVE IInv
    OBVIOUS
  <1>1. TypeOK
    BY CountedIsFinite DEF Init, TypeOK
  <1>2. Counted = {} /\ StartsRead = 0
    BY DEF Init, Counted, StartsRead
  <1>3. Tally
    BY <1>2, FS_EmptySet DEF Init, Tally, MessagesRead
  <1> QED
    BY <1>1, <1>3 DEF IInv, Init, NoKillBefore, KillIsLast

LEMMA VentilatorStep ==
    ASSUME IInv, Go \/ VentEnds \/ \E t \in Task, w \in Worker : SendTask(t, w)
    PROVE  IInv'
  <1> USE DEF IInv
  <1>1. CASE Go
    <2>1. TypeOK' /\ Counted' = Counted
      BY <1>1 DEF Go, TypeOK, Counted, workerVars, sinkVars
    <2> QED
      BY <1>1, <2>1, ElsewhereKeeps DEF Go
  <1>2. CASE VentEnds
    <2>1. TypeOK' /\ Counted' = Counted
      BY <1>2 DEF VentEnds, TypeOK, Counted, workerVars, sinkVars
    <2> QED
      BY <1>2, <2>1, ElsewhereKeeps DEF VentEnds
  <1>3. ASSUME NEW t \in Task, NEW w \in Worker, SendTask(t, w) PROVE IInv'
    <2>1. spc # "ended"
      BY <1>3 DEF SendTask, KillIsLast
    <2>2. TypeOK'
      BY <1>3 DEF SendTask, Move, TypeOK, workerVars, sinkVars
    <2>3. Counted' = Counted
      BY <1>3 DEF SendTask, Move, Counted, TypeOK
    <2> QED
      BY <1>3, <2>1, <2>2, <2>3, ElsewhereKeeps DEF SendTask
  <1> QED
    BY <1>1, <1>2, <1>3

\* A worker's connections, and the steps of its loop that leave tasks alone.
LEMMA WorkerGoesOnStep ==
    ASSUME IInv, NEW w \in Worker,
           Start(w) \/ Join(w) \/ Subscribe(w) \/ Poll(w) \/ GoOn(w)
    PROVE  IInv'
  <1> USE DEF IInv
  <1>1. UNCHANGED <<vpc, start, place, holder, killed, sinkVars>>
    BY DEF Start, Join, Subscribe, Poll, GoOn
  <1>2. Counted' = Counted
    BY <1>1 DEF Counted
  <1>3. Ready(w) \in {{}, {"task"}, {"KILL"}}
    <2>1. CASE spc = "ended"
      <3>1. Waiting(w) = {}
        BY <2>1 DEF KillIsLast, Waiting
      <3> QED
        BY <3>1 DEF Ready
    <2>2. CASE spc # "ended"
      <3>1. w \notin killed
        BY <2>2 DEF NoKillBefore
      <3> QED
        BY <3>1 DEF Ready
    <2> QED
      BY <2>1, <2>2
  <1>4. revents' \in [Worker -> {{}, {"task"}, {"KILL"}}]
    BY <1>3 DEF Start, Join, Subscribe, Poll, GoOn, TypeOK, workerVars
  <1>5. /\ wpc' \in [Worker -> {"new", "poll", "receive", "working", "control", "ended"}]
        /\ joined' \in SUBSET Worker
        /\ subscribed' \in SUBSET Worker
    BY DEF Start, Join, Subscribe, Poll, GoOn, TypeOK, workerVars
  <1>6. TypeOK'
    BY <1>1, <1>4, <1>5 DEF TypeOK, sinkVars
  <1> QED
    BY <1>1, <1>2, <1>6, ElsewhereKeeps

\* The steps that move tasks: none is counted yet.
LEMMA WorkerTaskStep ==
    ASSUME IInv, NEW w \in Worker, Receive(w) \/ SendResult(w)
    PROVE  IInv'
  <1> USE DEF IInv
  <1>1. PICK t \in Task, to \in {"work", "result"} :
            place[t] \in {"sent", "work"} /\ Move(t, to)
    BY DEF Receive, SendResult, Waiting
  <1>2. UNCHANGED <<vpc, start, holder, joined, revents, subscribed, killed, sinkVars>>
    BY DEF Receive, SendResult
  <1>3. /\ place' \in [Task -> {"vent", "sent", "work", "result", "counted", "lost"}]
        /\ wpc' \in [Worker -> {"new", "poll", "receive", "working", "control", "ended"}]
    BY <1>1 DEF Receive, SendResult, Move, TypeOK
  <1>4. TypeOK'
    BY <1>2, <1>3 DEF TypeOK, sinkVars
  <1>5. Counted' = Counted
    BY <1>1 DEF Move, Counted, TypeOK
  <1>6. spc # "ended"
    BY <1>1 DEF KillIsLast
  <1> QED
    BY <1>2, <1>4, <1>5, <1>6, ElsewhereKeeps

LEMMA TerminateStep ==
    ASSUME IInv, NEW w \in Worker, Terminate(w)
    PROVE  IInv'
  <1> USE DEF IInv
  <1>1. TypeOK'
    BY DEF Terminate, TypeOK, sinkVars
  <1>2. Counted' = Counted
    BY DEF Terminate, Counted, Waiting
  <1>3. spc = "ended" => UNCHANGED place
    <2>1. spc = "ended" => Waiting(w) = {}
      BY DEF KillIsLast, Waiting
    <2> QED
      BY <2>1 DEF Terminate, TypeOK
  <1> QED
    BY <1>1, <1>2, <1>3, ElsewhereKeeps DEF Terminate

----------------------------------------------------------------------------

LEMMA ReadFirstStep == ASSUME IInv, ReadFirst PROVE IInv'
  <1> USE DEF IInv
  <1>1. Read /\ spc = "waiting" /\ spc' = "counting" /\ task_nbr' = task_nbr
    BY DEF ReadFirst
  <1>2. TypeOK'
    BY <1>1, ReadCounts DEF ReadFirst, TypeOK, workerVars
  <1>3. Tally'
    BY <1>1, ReadCounts DEF ReadFirst, Tally
  <1> QED
    BY <1>1, <1>2, <1>3 DEF ReadFirst, NoKillBefore, KillIsLast

LEMMA ReadNextStep == ASSUME IInv, ReadNext PROVE IInv'
  <1> USE DEF IInv
  <1>1. Read /\ spc = "counting" /\ spc' = "counting" /\ task_nbr' = task_nbr + 1
    BY DEF ReadNext
  <1>2. task_nbr' \in 0 .. Cardinality(Task)
    BY <1>1, CountedIsFinite DEF ReadNext, AllCounted, TypeOK
  <1>3. TypeOK'
    BY <1>1, <1>2, ReadCounts DEF ReadNext, TypeOK, workerVars
  <1>4. Tally'
    BY <1>1, ReadCounts DEF ReadNext, Tally, TypeOK
  <1> QED
    BY <1>1, <1>3, <1>4 DEF ReadNext, NoKillBefore, KillIsLast

\* The count is complete only with the start signal and every result.
LEMMA SendKillStep == ASSUME IInv, SendKill PROVE IInv'
  <1> USE DEF IInv
  <1>1. StartsRead + Cardinality(Counted) = Cardinality(Task) + 1
    BY DEF SendKill, AllCounted, Tally, MessagesRead
  <1>2. StartsRead = 1 /\ Cardinality(Counted) = Cardinality(Task)
    BY <1>1, CountedIsFinite DEF StartsRead
  <1>3. start = "read" /\ Counted = Task
    BY <1>2, CountedIsFinite DEF StartsRead
  <1>4. KillIsLast'
    BY <1>3 DEF SendKill, Counted, KillIsLast
  <1>5. TypeOK'
    BY DEF SendKill, TypeOK, workerVars
  <1>6. Tally' /\ NoKillBefore'
    BY DEF SendKill, Tally, NoKillBefore
  <1> QED
    BY <1>4, <1>5, <1>6

LEMMA NextIInv == IInv /\ [Next]_vars => IInv'
  <1> SUFFICES ASSUME IInv, [Next]_vars PROVE IInv'
    OBVIOUS
  <1>1. CASE Go \/ Ventilator
    BY <1>1, VentilatorStep DEF Ventilator
  <1>2. ASSUME NEW w \in Worker, Start(w) \/ Join(w) \/ Subscribe(w) \/ WorkerLoop(w)
        PROVE  IInv'
    BY <1>2, WorkerGoesOnStep, WorkerTaskStep, TerminateStep DEF WorkerLoop
  <1>3. CASE Sink
    BY <1>3, ReadFirstStep, ReadNextStep, SendKillStep DEF Sink
  <1>4. CASE UNCHANGED vars
    BY <1>4 DEF vars, IInv, TypeOK, Tally, MessagesRead, StartsRead, Counted,
       NoKillBefore, KillIsLast
  <1> QED
    BY <1>1, <1>2, <1>3, <1>4 DEF Next

\* Ventilator, workers and sink keep the invariant.
THEOREM BatchInvariance == Spec => []IInv
  BY InitIInv, NextIInv, PTL DEF Spec

\* The programs keep their types, and no poll of a worker finds a task and KILL
\* together (taskwork.cpp:74).
THEOREM TypeCorrect == Spec => []TypeOK
  <1>1. IInv => TypeOK
    BY DEF IInv
  <1> QED
    BY <1>1, BatchInvariance, PTL

\* KILL goes out when every task is counted, in whatever order the start signal
\* and the results arrive (tasksink.cpp:49, 57).
THEOREM KillComesLast == Spec => []KillIsLast
  <1>1. IInv => KillIsLast
    BY DEF IInv
  <1> QED
    BY <1>1, BatchInvariance, PTL

----------------------------------------------------------------------------
(***************************************************************************)
(* The boss and its workers.                                               *)
(***************************************************************************)

\* Between a worker and the boss there is one message at a time, or none while
\* the worker has something to do or has ended.
Lockstep ==
    \A w \in Worker :
        \/ thread[w] # "waiting" /\ hiBoss[w] = 0 /\ workload[w] = << >>
        \/ thread[w] = "waiting" /\ hiBoss[w] = 1 /\ workload[w] = << >>
        \/ thread[w] = "waiting" /\ hiBoss[w] = 0 /\ Len(workload[w]) = 1

Notified == {w \in Worker : RW!HasNotice(w)}

\* Without Lockstep the count says nothing: a worker that had asked twice would
\* be counted twice.
BossInv == RW!TypeOK /\ Lockstep /\ RW!FiredOnce

----------------------------------------------------------------------------

\* The instance has the sizes of sets that its theory is about.
LEMMA SameCardinality == \A S : RW!Cardinality(S) = Cardinality(S)
  <1>1. \A S : RW!IsFiniteSet(S) = IsFiniteSet(S)
    BY DEF RW!IsFiniteSet, IsFiniteSet
  <1> QED
    BY <1>1 DEF RW!Cardinality, Cardinality

LEMMA NotifiedIsFinite ==
  ASSUME IsFiniteSet(Worker)
  PROVE  /\ IsFiniteSet(Notified)
         /\ Cardinality(Notified) \in Nat
         /\ Cardinality(Worker) \in Nat
         /\ Cardinality(Notified) <= Cardinality(Worker)
         /\ Cardinality(Notified) = Cardinality(Worker) => Notified = Worker
  <1>1. Notified \in SUBSET Worker
    BY DEF Notified
  <1> QED
    BY <1>1, FS_Subset, FS_CardinalityType

\* A worker that asks has no notice, and neither has one without a reply.
LEMMA NoNotice ==
  ASSUME BossInv, NEW w \in Worker, thread[w] # "ended", workload[w] = << >>
  PROVE  ~ RW!HasNotice(w)
  BY DEF RW!HasNotice, RW!Range

LEMMA OneMessage ==
  ASSUME NEW S, NEW q \in Seq(S), Len(q) = 1
  PROVE  /\ Tail(q) \in Seq(S)
         /\ Tail(q) = << >>
         /\ RW!Range(q) = {Head(q)}
  <1>1. DOMAIN q = {1} /\ Head(q) = q[1]
    OBVIOUS
  <1>2. RW!Range(q) = {Head(q)}
    BY <1>1 DEF RW!Range
  <1>3. Tail(q) \in Seq(S) /\ Len(Tail(q)) = 0
    OBVIOUS
  <1>4. Tail(q) = << >>
    BY <1>3, EmptySeq
  <1> QED
    BY <1>2, <1>3, <1>4

LEMMA BossInit ==
  ASSUME IsFiniteSet(Worker), RW!Init
  PROVE  BossInv
  <1>1. Cardinality(Worker) \in Nat
    BY FS_CardinalityType
  <1>2. RW!TypeOK
    <2>1. << >> \in Seq({RW!WorkHarder, RW!Fired})
      OBVIOUS
    <2>2. workload \in [Worker -> Seq({RW!WorkHarder, RW!Fired})]
      BY <2>1 DEF RW!Init
    <2>3. hiBoss \in [Worker -> Nat]
      BY DEF RW!Init
    <2>4. thread \in [Worker -> {"asking", "waiting", "working", "ended"}]
      BY DEF RW!Init
    <2>5. boss = "answering" /\ workers_fired = 0 /\ overtime = FALSE
      BY DEF RW!Init
    <2>6. workers_fired \in 0 .. Cardinality(Worker)
      BY <1>1, <2>5
    <2>7. boss \in {"answering", "joining", "ended"} /\ overtime \in BOOLEAN
      BY <2>5
    <2> QED
      BY SameCardinality, <2>2, <2>3, <2>4, <2>6, <2>7, Zenon DEF RW!TypeOK
  <1>3. Lockstep
    BY DEF RW!Init, Lockstep
  <1>4. {w \in Worker : RW!HasNotice(w)} = {}
    BY DEF RW!Init, RW!HasNotice, RW!Range
  <1>5. RW!FiredOnce
    BY SameCardinality, <1>4, FS_EmptySet DEF RW!Init, RW!FiredOnce
  <1> QED
    BY <1>2, <1>3, <1>5 DEF BossInv

\* The boss answers a worker that waits, and has nothing else to read.
LEMMA AnswerStep ==
  ASSUME IsFiniteSet(Worker), BossInv, NEW w \in Worker, RW!Answer(w)
  PROVE  BossInv'
  <1> DEFINE m == IF overtime THEN RW!Fired ELSE RW!WorkHarder
  <1>1. RW!TypeOK /\ Lockstep /\ RW!FiredOnce
    BY DEF BossInv
  <1>2. /\ hiBoss \in [Worker -> Nat]
        /\ workload \in [Worker -> Seq({RW!WorkHarder, RW!Fired})]
        /\ workers_fired \in 0 .. Cardinality(Worker)
        /\ m \in {RW!WorkHarder, RW!Fired}
        /\ workload' = [workload EXCEPT ![w] = Append(@, m)]
        /\ hiBoss' = [hiBoss EXCEPT ![w] = @ - 1]
        /\ thread' = thread /\ boss' = boss /\ overtime' = overtime
        /\ boss = "answering"
    BY SameCardinality, <1>1 DEF RW!TypeOK, RW!Answer
  <1>3. thread[w] = "waiting" /\ hiBoss[w] = 1 /\ workload[w] = << >>
    BY <1>1 DEF Lockstep, RW!Answer
  <1>4. workload'[w] = <<m>> /\ hiBoss'[w] = 0
    BY <1>2, <1>3
  <1>5. \A v \in Worker : v # w => workload'[v] = workload[v] /\ hiBoss'[v] = hiBoss[v]
    BY <1>2
  <1>6. Lockstep'
    <2>1. Len(<<m>>) = 1
      OBVIOUS
    <2> HIDE DEF m
    <2> QED
      BY <1>1, <1>2, <1>3, <1>4, <1>5, <2>1 DEF Lockstep
  <1>7. ~ RW!HasNotice(w)
    BY <1>3, NoNotice
  <1>8. Notified' = IF overtime THEN Notified \cup {w} ELSE Notified
    <2>1. \A v \in Worker : v # w => (RW!HasNotice(v)' <=> RW!HasNotice(v))
      BY <1>2, <1>5 DEF RW!HasNotice
    <2>2. RW!HasNotice(w)' <=> m = RW!Fired
      <3>1. thread'[w] # "ended"
        BY <1>2, <1>3
      <3>2. RW!Range(workload'[w]) = {m}
        <4> HIDE DEF m
        <4> QED
          BY <1>4 DEF RW!Range
      <3> QED
        BY <3>1, <3>2 DEF RW!HasNotice
    <2>3. m = RW!Fired <=> overtime
      BY DEF RW!Fired, RW!WorkHarder
    <2> QED
      BY <1>7, <2>1, <2>2, <2>3 DEF Notified
  <1>9. workers_fired = Cardinality(Notified) /\ workers_fired # Cardinality(Worker)
    BY SameCardinality, <1>1 DEF RW!FiredOnce, Notified, RW!Answer, RW!AllFired
  <1>10. workers_fired' = Cardinality(Notified') /\ workers_fired' \in 0 .. Cardinality(Worker)
    <2>1. w \notin Notified
      BY <1>7 DEF Notified
    <2>2. CASE overtime
      <3>1. workers_fired' = workers_fired + 1
        BY <2>2 DEF RW!Answer
      <3>2. Cardinality(Notified \cup {w}) = Cardinality(Notified) + 1
        BY <2>1, NotifiedIsFinite, FS_AddElement
      <3> QED
        BY <1>8, <1>9, <2>2, <3>1, <3>2, NotifiedIsFinite
    <2>3. CASE ~ overtime
      <3>1. workers_fired' = workers_fired
        BY <1>2, <2>3 DEF RW!Answer
      <3> QED
        BY <1>2, <1>8, <1>9, <2>3, <3>1
    <2> QED
      BY <2>2, <2>3
  <1>11. RW!TypeOK'
    <2>1. workload' \in [Worker -> Seq({RW!WorkHarder, RW!Fired})]
      <3>1. Append(workload[w], m) \in Seq({RW!WorkHarder, RW!Fired})
        BY <1>2
      <3> HIDE DEF m
      <3> QED
        BY <1>2, <3>1
    <2>2. hiBoss' \in [Worker -> Nat]
      BY <1>2, <1>3
    <2> QED
      BY SameCardinality, <1>1, <1>2, <1>10, <2>1, <2>2 DEF RW!TypeOK
  <1>12. RW!FiredOnce'
    <2>1. \A v \in Worker : RW!HasNotice(v)' => hiBoss'[v] = 0 /\ Len(workload'[v]) <= 1
      <3>1. ASSUME NEW v \in Worker, RW!HasNotice(v)'
            PROVE  hiBoss'[v] = 0 /\ Len(workload'[v]) <= 1
        <4>1. CASE v = w
          <5>1. Len(<<m>>) = 1
            OBVIOUS
          <5> HIDE DEF m
          <5>2. hiBoss'[w] = 0 /\ Len(workload'[w]) = 1
            BY <1>4, <5>1
          <5> QED
            BY <4>1, <5>2
        <4>2. CASE v # w
          <5>1. RW!HasNotice(v)
            BY <1>2, <1>5, <3>1, <4>2 DEF RW!HasNotice
          <5> QED
            BY <1>1, <1>5, <4>2, <5>1 DEF RW!FiredOnce
        <4> QED
          BY <4>1, <4>2
      <3> QED
        BY <3>1
    <2> QED
      BY SameCardinality, <1>2, <1>10, <2>1 DEF RW!FiredOnce, Notified
  <1> QED
    BY <1>6, <1>11, <1>12 DEF BossInv

\* The loop is left when all are notified.
LEMMA EndStep ==
  ASSUME IsFiniteSet(Worker), BossInv, RW!StopAnswering \/ RW!Join \/ RW!TimePasses
  PROVE  BossInv'
  <1>1. RW!TypeOK /\ Lockstep /\ RW!FiredOnce
    BY DEF BossInv
  <1>2. UNCHANGED <<workers_fired, hiBoss, workload, thread>>
    BY DEF RW!StopAnswering, RW!Join, RW!TimePasses
  <1>3. RW!TypeOK' /\ Lockstep'
    BY <1>1, <1>2 DEF RW!TypeOK, Lockstep, RW!StopAnswering, RW!Join, RW!TimePasses
  <1>4. Notified' = Notified
    BY <1>2 DEF Notified, RW!HasNotice
  <1>5. boss' # "answering" => \A w \in Worker : RW!HasNotice(w)
    <2>1. CASE RW!StopAnswering
      <3>1. Cardinality(Notified) = Cardinality(Worker)
        BY SameCardinality, <1>1, <2>1 DEF RW!StopAnswering, RW!AllFired, RW!FiredOnce, Notified
      <3> QED
        BY <3>1, NotifiedIsFinite DEF Notified
    <2>2. CASE RW!Join \/ RW!TimePasses
      BY <1>1, <2>2 DEF RW!Join, RW!TimePasses, RW!FiredOnce
    <2> QED
      BY <2>1, <2>2
  <1>6. RW!FiredOnce'
    BY <1>1, <1>2, <1>4, <1>5 DEF RW!FiredOnce, RW!HasNotice, Notified
  <1> QED
    BY <1>3, <1>6 DEF BossInv

\* A worker changes nothing for the others, and who has a notice keeps it.
LEMMA ThreadStep ==
  ASSUME BossInv, NEW w \in Worker, RW!WorkerThread(w)
  PROVE  BossInv'
  <1>1. RW!TypeOK /\ Lockstep /\ RW!FiredOnce
    BY DEF BossInv
  <1>2. /\ hiBoss \in [Worker -> Nat]
        /\ workload \in [Worker -> Seq({RW!WorkHarder, RW!Fired})]
        /\ thread \in [Worker -> {"asking", "waiting", "working", "ended"}]
        /\ UNCHANGED <<boss, workers_fired, overtime>>
    BY <1>1 DEF RW!TypeOK, RW!WorkerThread, RW!Ask, RW!Receive, RW!WorkDone
  <1>3. \A v \in Worker : v # w =>
            workload'[v] = workload[v] /\ hiBoss'[v] = hiBoss[v] /\ thread'[v] = thread[v]
    BY <1>2 DEF RW!WorkerThread, RW!Ask, RW!Receive, RW!WorkDone
  <1>4. /\ hiBoss' \in [Worker -> Nat]
        /\ workload' \in [Worker -> Seq({RW!WorkHarder, RW!Fired})]
        /\ thread' \in [Worker -> {"asking", "waiting", "working", "ended"}]
        /\ \/ thread'[w] # "waiting" /\ hiBoss'[w] = 0 /\ workload'[w] = << >>
           \/ thread'[w] = "waiting" /\ hiBoss'[w] = 1 /\ workload'[w] = << >>
        /\ RW!HasNotice(w)' <=> RW!HasNotice(w)
    <2>1. CASE RW!Ask(w)
      <3>1. thread[w] = "asking" /\ hiBoss[w] = 0 /\ workload[w] = << >>
        BY <1>1, <2>1 DEF RW!Ask, RW!MayAsk, Lockstep
      <3>2. /\ hiBoss' = [hiBoss EXCEPT ![w] = @ + 1]
            /\ thread' = [thread EXCEPT ![w] = "waiting"]
            /\ workload' = workload
        BY <2>1 DEF RW!Ask
      <3> QED
        BY <1>2, <3>1, <3>2 DEF RW!HasNotice, RW!Range
    <2>2. CASE RW!Receive(w)
      <3>1. thread[w] = "waiting" /\ hiBoss[w] = 0 /\ Len(workload[w]) = 1
        BY <1>1, <2>2 DEF RW!Receive, Lockstep
      <3>2. /\ workload' = [workload EXCEPT ![w] = Tail(@)]
            /\ thread' = [thread EXCEPT ![w] =
                             IF Head(workload[w]) = RW!Fired THEN "ended" ELSE "working"]
            /\ hiBoss' = hiBoss
        BY <2>2 DEF RW!Receive
      <3>3. Tail(workload[w]) = << >> /\ Tail(workload[w]) \in Seq({RW!WorkHarder, RW!Fired})
        BY <1>2, <3>1, OneMessage
      <3>4. RW!Range(workload[w]) = {Head(workload[w])}
        BY <1>2, <3>1, OneMessage
      <3>5. RW!HasNotice(w) <=> Head(workload[w]) = RW!Fired
        BY <3>1, <3>4 DEF RW!HasNotice
      <3>6. RW!HasNotice(w)' <=> thread'[w] = "ended"
        BY <1>2, <3>2, <3>3 DEF RW!HasNotice, RW!Range
      <3> QED
        BY <1>2, <3>1, <3>2, <3>3, <3>5, <3>6
    <2>3. CASE RW!WorkDone(w)
      <3>1. thread[w] = "working" /\ hiBoss[w] = 0 /\ workload[w] = << >>
        BY <1>1, <2>3 DEF RW!WorkDone, Lockstep
      <3>2. thread' = [thread EXCEPT ![w] = "asking"] /\ UNCHANGED <<hiBoss, workload>>
        BY <2>3 DEF RW!WorkDone
      <3> QED
        BY <1>2, <3>1, <3>2 DEF RW!HasNotice, RW!Range
    <2> QED
      BY <2>1, <2>2, <2>3 DEF RW!WorkerThread
  <1>5. RW!TypeOK'
    BY <1>1, <1>2, <1>4 DEF RW!TypeOK
  <1>6. Lockstep'
    BY <1>1, <1>3, <1>4 DEF Lockstep
  <1>7. \A v \in Worker : RW!HasNotice(v)' <=> RW!HasNotice(v)
    BY <1>3, <1>4 DEF RW!HasNotice
  <1>8. \A v \in Worker : RW!HasNotice(v) => hiBoss'[v] = 0 /\ Len(workload'[v]) <= 1
    <2>1. ASSUME NEW v \in Worker, RW!HasNotice(v), v = w
          PROVE  hiBoss'[v] = 0 /\ workload'[v] = << >>
      BY <1>1, <1>4, <2>1, NoNotice DEF RW!WorkerThread, RW!Ask, RW!MayAsk, RW!Receive, RW!WorkDone, Lockstep
    <2> QED
      BY <1>1, <1>3, <2>1 DEF RW!FiredOnce
  <1>9. RW!FiredOnce'
    <2>1. {v \in Worker : RW!HasNotice(v)}' = {v \in Worker : RW!HasNotice(v)}
      BY <1>7
    <2> QED
      BY <1>1, <1>2, <1>7, <1>8, <2>1 DEF RW!FiredOnce
  <1> QED
    BY <1>5, <1>6, <1>9 DEF BossInv

LEMMA BossNext ==
  ASSUME IsFiniteSet(Worker), BossInv, [RW!Next]_RW!vars
  PROVE  BossInv'
  <1>1. CASE RW!TimePasses \/ RW!Boss
    BY <1>1, AnswerStep, EndStep DEF RW!Boss
  <1>2. ASSUME NEW w \in Worker, RW!WorkerThread(w) PROVE BossInv'
    BY <1>2, ThreadStep
  <1>3. CASE UNCHANGED RW!vars
    BY <1>3 DEF RW!vars, BossInv, RW!TypeOK, Lockstep, RW!FiredOnce, RW!HasNotice
  <1> QED
    BY <1>1, <1>2, <1>3 DEF RW!Next

----------------------------------------------------------------------------

\* Boss and workers keep the invariant.
THEOREM BossInvariance ==
  ASSUME IsFiniteSet(Worker)
  PROVE  RW!Spec => []BossInv
  <1>1. RW!Init => BossInv
    BY BossInit
  <1>2. BossInv /\ [RW!Next]_RW!vars => BossInv'
    BY BossNext
  <1> QED
    BY <1>1, <1>2, PTL DEF RW!Spec

\* The count of notices never passes the number of workers, and messages and
\* threads keep their types (rtreq.cpp:43).
THEOREM BossTypeCorrect ==
  ASSUME IsFiniteSet(Worker)
  PROVE  RW!Spec => []RW!TypeOK
  <1>1. BossInv => RW!TypeOK
    BY DEF BossInv
  <1> QED
    BY <1>1, BossInvariance, PTL

\* The boss counts each worker's notice once, and joins when each has its own
\* (rtreq.cpp:68, 77, rtdealer.cpp:63, 72).
THEOREM EachFiredOnce ==
  ASSUME IsFiniteSet(Worker)
  PROVE  RW!Spec => []RW!FiredOnce
  <1>1. BossInv => RW!FiredOnce
    BY DEF BossInv
  <1> QED
    BY <1>1, BossInvariance, PTL

----------------------------------------------------------------------------
(***************************************************************************)
(* The shotgun client.                                                     *)
(***************************************************************************)

\* A call has the number of the requests begun so far.
Numbered ==
    /\ caller = "calling" => sequence_ + requests = TOTAL_REQUESTS
    /\ caller \in {"sending", "polling", "returned"} =>
           /\ requests > 0
           /\ sequence_ + requests = TOTAL_REQUESTS + 1

ShotgunInv == FL2!TypeOK /\ Numbered

LEMMA ServersAreCounted == FL2!servers_ \in Nat
  <1>1. \A S : FL2!IsFiniteSet(S) = IsFiniteSet(S)
    BY DEF FL2!IsFiniteSet, IsFiniteSet
  <1>2. FL2!Cardinality(Server) = Cardinality(Server)
    BY <1>1 DEF FL2!Cardinality, Cardinality
  <1> QED
    BY <1>2, ProgramsAssumption, FS_CardinalityType DEF FL2!servers_

LEMMA ShotgunInit == FL2!Init => ShotgunInv
  <1> SUFFICES ASSUME FL2!Init PROVE ShotgunInv
    OBVIOUS
  <1>1. << >> \in Seq(FL2!Number)
    OBVIOUS
  <1>2. /\ pipe \in [Server -> Seq(FL2!Number)]
        /\ answers \in [Server -> Seq(FL2!Number)]
    BY <1>1 DEF FL2!Init
  <1>3. TOTAL_REQUESTS \in Nat /\ MaxStops \in Nat
    BY ProgramsAssumption
  <1>4. /\ 0 \in 0 .. FL2!servers_
        /\ {} \subseteq Server
        /\ TOTAL_REQUESTS \in 0 .. TOTAL_REQUESTS /\ 0 \in 0 .. TOTAL_REQUESTS
        /\ 0 \in 0 .. MaxStops
    BY <1>3, ServersAreCounted
  <1>5. FL2!TypeOK
    BY <1>2, <1>4 DEF FL2!Init, FL2!None, FL2!TypeOK
  <1>6. Numbered
    BY <1>3 DEF FL2!Init, Numbered
  <1> QED
    BY <1>5, <1>6 DEF ShotgunInv

\* The steps that leave the connections alone.
LEMMA ShotgunCallerStep ==
  ASSUME ShotgunInv, FL2!Call \/ FL2!StartPolling \/ FL2!GiveUp \/ FL2!NextRequest
                     \/ FL2!AllMade \/ FL2!TimePasses
  PROVE  ShotgunInv'
  <1>1. FL2!TypeOK /\ Numbered /\ TOTAL_REQUESTS \in Nat
    BY ProgramsAssumption DEF ShotgunInv
  <1>2. UNCHANGED <<turn, running, stops, pipe, answers>>
    BY DEF FL2!Call, FL2!StartPolling, FL2!GiveUp, FL2!NextRequest, FL2!AllMade,
       FL2!TimePasses, FL2!callVars, FL2!serverVars
  <1>3. /\ caller' \in {"calling", "sending", "polling", "returned", "ended"}
        /\ requests' \in 0 .. TOTAL_REQUESTS
        /\ sequence_' \in 0 .. TOTAL_REQUESTS
        /\ sends' \in 0 .. FL2!servers_
        /\ expired' \in BOOLEAN
        /\ reply' \in FL2!Number \cup {FL2!None}
        /\ Numbered'
    <2>1. 0 \in 0 .. FL2!servers_
      BY ServersAreCounted
    <2>2. CASE FL2!Call
      <3>1. sequence_' \in 0 .. TOTAL_REQUESTS
        BY <1>1, <2>2 DEF FL2!TypeOK, Numbered, FL2!Call
      <3>2. Numbered'
        BY <1>1, <2>2 DEF FL2!TypeOK, Numbered, FL2!Call
      <3> QED
        BY <1>1, <2>1, <2>2, <3>1, <3>2 DEF FL2!TypeOK, FL2!Call
    <2>3. CASE FL2!NextRequest
      <3>1. requests' \in 0 .. TOTAL_REQUESTS
        BY <1>1, <2>3 DEF FL2!TypeOK, Numbered, FL2!NextRequest
      <3>2. Numbered'
        BY <1>1, <2>3 DEF FL2!TypeOK, Numbered, FL2!NextRequest
      <3> QED
        BY <1>1, <2>3, <3>1, <3>2 DEF FL2!TypeOK, FL2!NextRequest
    <2>4. CASE FL2!StartPolling \/ FL2!GiveUp \/ FL2!AllMade \/ FL2!TimePasses
      BY <1>1, <2>4 DEF FL2!TypeOK, Numbered, FL2!StartPolling, FL2!GiveUp,
         FL2!AllMade, FL2!TimePasses, FL2!callVars
    <2> QED
      BY <2>2, <2>3, <2>4
  <1> QED
    BY <1>1, <1>2, <1>3 DEF ShotgunInv, FL2!TypeOK

LEMMA ShotgunSendStep ==
  ASSUME ShotgunInv, NEW s \in Server, FL2!SendFrames(s)
  PROVE  ShotgunInv'
  <1>1. FL2!TypeOK /\ Numbered /\ TOTAL_REQUESTS \in Nat
    BY ProgramsAssumption DEF ShotgunInv
  <1>2. sequence_ \in FL2!Number
    BY <1>1 DEF Numbered, FL2!SendFrames, FL2!TypeOK, FL2!Number
  <1>3. pipe' \in [Server -> Seq(FL2!Number)]
    <2>1. pipe \in [Server -> Seq(FL2!Number)]
      BY <1>1 DEF FL2!TypeOK
    <2>2. Append(pipe[s], sequence_) \in Seq(FL2!Number)
      BY <1>2, <2>1
    <2> QED
      BY <2>1, <2>2 DEF FL2!SendFrames
  <1>4. turn' \subseteq Server
    BY <1>1 DEF FL2!SendFrames, FL2!TypeOK
  <1>5. sends' \in 0 .. FL2!servers_
    BY <1>1, ServersAreCounted DEF FL2!SendFrames, FL2!TypeOK
  <1> QED
    BY <1>1, <1>3, <1>4, <1>5
    DEF ShotgunInv, Numbered, FL2!TypeOK, FL2!SendFrames, FL2!serverVars

LEMMA ShotgunReceiveStep ==
  ASSUME ShotgunInv, NEW s \in Server, FL2!Receive(s)
  PROVE  ShotgunInv'
  <1>1. FL2!TypeOK /\ Numbered
    BY DEF ShotgunInv
  <1>2. answers \in [Server -> Seq(FL2!Number)]
    BY <1>1 DEF FL2!TypeOK
  <1>3. Head(answers[s]) \in FL2!Number /\ Tail(answers[s]) \in Seq(FL2!Number)
    BY <1>2 DEF FL2!Receive
  <1>4. answers' \in [Server -> Seq(FL2!Number)]
    BY <1>2, <1>3 DEF FL2!Receive
  <1>5. reply' \in FL2!Number
    BY <1>3 DEF FL2!Receive
  <1> QED
    BY <1>1, <1>4, <1>5
    DEF ShotgunInv, Numbered, FL2!TypeOK, FL2!Receive, FL2!serverVars

LEMMA ShotgunServerStep ==
  ASSUME ShotgunInv, NEW s \in Server, FL2!Start(s) \/ FL2!Stop(s) \/ FL2!Serve(s)
  PROVE  ShotgunInv'
  <1>1. FL2!TypeOK /\ Numbered
    BY DEF ShotgunInv
  <1>2. pipe \in [Server -> Seq(FL2!Number)] /\ answers \in [Server -> Seq(FL2!Number)]
    BY <1>1 DEF FL2!TypeOK
  <1>3. pipe' \in [Server -> Seq(FL2!Number)] /\ answers' \in [Server -> Seq(FL2!Number)]
    <2>1. CASE FL2!Start(s)
      BY <1>2, <2>1 DEF FL2!Start
    <2>2. CASE FL2!Stop(s)
      <3>1. PICK taken \in 0 .. Len(pipe[s]), stay \in 0 .. Len(answers[s]) :
                /\ pipe' = [pipe EXCEPT ![s] = SubSeq(@, taken + 1, Len(@))]
                /\ answers' = [answers EXCEPT ![s] = SubSeq(@, 1, stay)]
        BY <2>2 DEF FL2!Stop
      <3>2. /\ SubSeq(pipe[s], taken + 1, Len(pipe[s])) \in Seq(FL2!Number)
            /\ SubSeq(answers[s], 1, stay) \in Seq(FL2!Number)
        BY <1>2, SubSeqProperties
      <3> QED
        BY <1>2, <3>1, <3>2
    <2>3. CASE FL2!Serve(s)
      <3>1. Head(pipe[s]) \in FL2!Number /\ Tail(pipe[s]) \in Seq(FL2!Number)
        BY <1>2, <2>3 DEF FL2!Serve
      <3>2. Append(answers[s], Head(pipe[s])) \in Seq(FL2!Number)
        BY <1>2, <3>1
      <3> QED
        BY <1>2, <2>3, <3>1, <3>2 DEF FL2!Serve
    <2> QED
      BY <2>1, <2>2, <2>3
  <1>4. running' \subseteq Server /\ stops' \in 0 .. MaxStops
    <2>1. MaxStops \in Nat
      BY ProgramsAssumption
    <2> QED
      BY <1>1, <2>1 DEF FL2!TypeOK, FL2!Start, FL2!Stop, FL2!Serve, FL2!serverVars
  <1>5. UNCHANGED <<caller, requests, sequence_, sends, turn, expired, reply>>
    BY DEF FL2!Start, FL2!Stop, FL2!Serve, FL2!callVars
  <1> QED
    BY <1>1, <1>3, <1>4, <1>5 DEF ShotgunInv, Numbered, FL2!TypeOK

LEMMA ShotgunNext == ShotgunInv /\ [FL2!Next]_FL2!vars => ShotgunInv'
  <1> SUFFICES ASSUME ShotgunInv, [FL2!Next]_FL2!vars PROVE ShotgunInv'
    OBVIOUS
  <1>1. CASE FL2!Request \/ FL2!TimePasses
    BY <1>1, ShotgunCallerStep, ShotgunSendStep, ShotgunReceiveStep DEF FL2!Request
  <1>2. ASSUME NEW s \in Server, FL2!Start(s) \/ FL2!Stop(s) \/ FL2!Serve(s)
        PROVE  ShotgunInv'
    BY <1>2, ShotgunServerStep
  <1>3. CASE UNCHANGED FL2!vars
    BY <1>3 DEF FL2!vars, FL2!callVars, FL2!serverVars, ShotgunInv, Numbered, FL2!TypeOK
  <1> QED
    BY <1>1, <1>2, <1>3 DEF FL2!Next

\* A reply has the number of a request that was made, and no call sends more than one
\* request to each server (flclient2.cpp:112, 117).
THEOREM ShotgunTypeCorrect == FL2!Spec => []FL2!TypeOK
  <1>1. ShotgunInv => FL2!TypeOK
    BY DEF ShotgunInv
  <1> QED
    BY <1>1, ShotgunInit, ShotgunNext, PTL DEF FL2!Spec

----------------------------------------------------------------------------
(***************************************************************************)
(* The round-trip demonstrator.  Its types are inductive as they stand.    *)
(***************************************************************************)

LEMMA TrippingInit == RT!Init => RT!TypeOK
  <1> SUFFICES ASSUME RT!Init PROVE RT!TypeOK
    OBVIOUS
  <1>1. SyncCalls \in Nat /\ AsyncCalls \in Nat
    BY ProgramsAssumption
  <1>2. 0 \in 0 .. SyncCalls + AsyncCalls
    BY <1>1
  <1> QED
    <2>1. {atFrontend, atWorker, atBackend, atClient, lost} \subseteq Nat
      BY DEF RT!Init
    <2>2. sent \in 0 .. SyncCalls + AsyncCalls /\ received \in 0 .. SyncCalls + AsyncCalls
      BY <1>2, Zenon DEF RT!Init
    <2>3. test = "pause" /\ connected = FALSE
      BY DEF RT!Init
    <2> QED
      BY <2>1, <2>2, <2>3, Zenon DEF RT!TypeOK

LEMMA TrippingNext == RT!TypeOK /\ [RT!Next]_RT!vars => RT!TypeOK'
  <1> SUFFICES ASSUME RT!TypeOK, [RT!Next]_RT!vars PROVE RT!TypeOK'
    OBVIOUS
  <1>1. SyncCalls \in Nat /\ AsyncCalls \in Nat
    BY ProgramsAssumption
  <1>2. CASE RT!StartTests \/ RT!EndTest
    BY <1>1, <1>2 DEF RT!StartTests, RT!EndTest, RT!Begin, RT!TypeOK, RT!flow
  <1>3. CASE RT!Send
    BY <1>1, <1>3 DEF RT!Send, RT!MaySend, RT!TypeOK
  <1>4. CASE RT!Receive
    BY <1>1, <1>4 DEF RT!Receive, RT!MayReceive, RT!TypeOK
  <1>5. CASE RT!ToWorker
    <2>1. {atFrontend', atWorker', atBackend', atClient', lost'} \subseteq Nat
      BY <1>5 DEF RT!ToWorker, RT!TypeOK
    <2> QED
      BY <1>5, <2>1 DEF RT!ToWorker, RT!TypeOK
  <1>6. CASE RT!ToClient
    BY <1>6 DEF RT!ToClient, RT!TypeOK
  <1>7. CASE RT!Connect
    BY <1>7, Zenon DEF RT!Connect, RT!TypeOK, RT!flow
  <1>8. CASE RT!Echo
    BY <1>8 DEF RT!Echo, RT!TypeOK
  <1>9. CASE UNCHANGED RT!vars
    BY <1>9 DEF RT!vars, RT!flow, RT!TypeOK
  <1> QED
    BY <1>2, <1>3, <1>4, <1>5, <1>6, <1>7, <1>8, <1>9 DEF RT!Next, RT!ClientTask

\* No test sends or receives more than its calls, and no count of messages goes
\* below zero (tripping.cpp:46, 59, 64).
THEOREM TrippingTypeCorrect == RT!Spec => []RT!TypeOK
  BY TrippingInit, TrippingNext, PTL DEF RT!Spec

----------------------------------------------------------------------------
(***************************************************************************)
(* The synchronized publisher.                                             *)
(***************************************************************************)

\* What s has counted and what is on its way to it, without END, which is last, are
\* updates that have been published.
Accounted(s) ==
    \/ update_nbr[s] + Len(inbox[s]) <= published
    \/ /\ publisher = "ended"
       /\ inbox[s] # << >>
       /\ inbox[s][Len(inbox[s])] = SY!END
       /\ update_nbr[s] + Len(inbox[s]) <= published + 1

SyncpubInv == SY!TypeOK /\ \A s \in Subscriber : Accounted(s)

LEMMA SyncpubInit == SY!Init => SyncpubInv
  <1> SUFFICES ASSUME SY!Init PROVE SyncpubInv
    OBVIOUS
  <1>1. << >> \in Seq({SY!Rhubarb, SY!END}) /\ Len(<< >>) = 0
    OBVIOUS
  <1>2. SUBSCRIBERS_EXPECTED \in Nat /\ Updates \in Nat
    BY ProgramsAssumption
  <1>3. 0 \in 0 .. SUBSCRIBERS_EXPECTED /\ 0 \in 0 .. Updates
    BY <1>2
  <1>4. inbox \in [Subscriber -> Seq({SY!Rhubarb, SY!END})]
    BY <1>1 DEF SY!Init
  <1>5. SY!TypeOK
    BY <1>3, <1>4 DEF SY!Init, SY!TypeOK
  <1>6. \A s \in Subscriber : Accounted(s)
    BY <1>1 DEF SY!Init, Accounted
  <1> QED
    BY <1>5, <1>6 DEF SyncpubInv

\* The steps that leave messages alone, and do not go back on the end.
LEMMA SyncpubQuietStep ==
  ASSUME SyncpubInv, NEW s \in Subscriber,
         SY!TakeReport(s) \/ SY!StartSending \/ SY!Report(s) \/ SY!TakeEffect(s)
  PROVE  SyncpubInv'
  <1>1. SY!TypeOK /\ \A u \in Subscriber : Accounted(u)
    BY DEF SyncpubInv
  <1>2. UNCHANGED <<published, update_nbr, inbox>>
    BY DEF SY!TakeReport, SY!StartSending, SY!Report, SY!TakeEffect
  <1>3. publisher = "ended" => publisher' = "ended"
    BY DEF SY!TakeReport, SY!StartSending, SY!Report, SY!TakeEffect
  <1>4. \A u \in Subscriber : Accounted(u)'
    BY <1>1, <1>2, <1>3 DEF Accounted
  <1>5. subscribers' \in 0 .. SUBSCRIBERS_EXPECTED
    <2>1. SUBSCRIBERS_EXPECTED \in Nat
      BY ProgramsAssumption
    <2> QED
      BY <1>1, <2>1 DEF SY!TypeOK, SY!TakeReport, SY!StartSending, SY!Report,
         SY!TakeEffect, SY!AllReported
  <1>6. SY!TypeOK'
    BY <1>1, <1>2, <1>5 DEF SY!TypeOK, SY!TakeReport, SY!StartSending, SY!Report,
       SY!TakeEffect
  <1> QED
    BY <1>4, <1>6 DEF SyncpubInv

LEMMA SyncpubSendStep ==
  ASSUME SyncpubInv, SY!Publish \/ SY!SendEnd
  PROVE  SyncpubInv'
  <1>1. SY!TypeOK /\ \A u \in Subscriber : Accounted(u)
    BY DEF SyncpubInv
  <1>2. /\ inbox \in [Subscriber -> Seq({SY!Rhubarb, SY!END})]
        /\ update_nbr \in [Subscriber -> 0 .. Updates]
        /\ published \in 0 .. Updates
        /\ publisher = "sending"
        /\ Updates \in Nat
    BY <1>1, ProgramsAssumption DEF SY!TypeOK, SY!Publish, SY!SendEnd
  <1>3. PICK m \in {SY!Rhubarb, SY!END} :
            /\ SY!Send(m)
            /\ m = SY!Rhubarb => published' = published + 1
            /\ m = SY!END => published' = published /\ publisher' = "ended"
    BY DEF SY!Publish, SY!SendEnd, SY!Rhubarb, SY!END
  <1>4. ASSUME NEW s \in Subscriber
        PROVE  /\ inbox'[s] \in Seq({SY!Rhubarb, SY!END})
               /\ Accounted(s)'
    <2>1. update_nbr'[s] = update_nbr[s] /\ update_nbr[s] \in Nat
      BY <1>2 DEF SY!Publish, SY!SendEnd
    <2>2. update_nbr[s] + Len(inbox[s]) <= published
      BY <1>1, <1>2 DEF Accounted
    <2>3. CASE s \in effective
      <3>1. inbox'[s] = Append(inbox[s], m)
        BY <1>3, <2>3 DEF SY!Send
      <3>2. /\ inbox'[s] \in Seq({SY!Rhubarb, SY!END})
            /\ Len(inbox'[s]) = Len(inbox[s]) + 1
            /\ inbox'[s][Len(inbox'[s])] = m
        BY <1>2, <3>1
      <3>3. Len(inbox[s]) \in Nat /\ inbox'[s] # << >>
        BY <1>2, <3>2
      <3>4. update_nbr'[s] + Len(inbox'[s]) <= published + 1
        BY <1>2, <2>1, <2>2, <3>2, <3>3
      <3> QED
        BY <1>3, <3>2, <3>3, <3>4 DEF Accounted
    <2>4. CASE s \notin effective
      <3>1. inbox'[s] = inbox[s]
        BY <1>3, <2>4 DEF SY!Send
      <3>2. published' >= published /\ Len(inbox[s]) \in Nat
        BY <1>2, <1>3
      <3>3. update_nbr'[s] + Len(inbox'[s]) <= published'
        BY <1>2, <1>3, <2>1, <2>2, <3>1, <3>2
      <3> QED
        BY <1>2, <3>1, <3>3 DEF Accounted
    <2> QED
      BY <2>3, <2>4
  <1>5. inbox' \in [Subscriber -> Seq({SY!Rhubarb, SY!END})]
    BY <1>3, <1>4 DEF SY!Send
  <1>6. published' \in 0 .. Updates
    BY <1>2 DEF SY!Publish, SY!SendEnd
  <1>7. SY!TypeOK'
    BY <1>1, <1>5, <1>6 DEF SY!TypeOK, SY!Publish, SY!SendEnd
  <1> QED
    BY <1>4, <1>7 DEF SyncpubInv

\* END leaves no update behind it to count.
LEMMA SyncpubReceiveStep ==
  ASSUME SyncpubInv, NEW s \in Subscriber, SY!Receive(s)
  PROVE  SyncpubInv'
  <1>1. SY!TypeOK /\ \A u \in Subscriber : Accounted(u)
    BY DEF SyncpubInv
  <1>2. /\ inbox \in [Subscriber -> Seq({SY!Rhubarb, SY!END})]
        /\ update_nbr \in [Subscriber -> 0 .. Updates]
        /\ published \in 0 .. Updates
        /\ subscriber \in [Subscriber -> {"new", "reporting", "receiving", "ended"}]
        /\ Updates \in Nat
    BY <1>1, ProgramsAssumption DEF SY!TypeOK
  <1>3. /\ inbox[s] # << >> /\ inbox' = [inbox EXCEPT ![s] = Tail(@)]
        /\ UNCHANGED <<publisher, subscribers, published, effective, reports>>
    BY DEF SY!Receive
  <1>4. /\ Tail(inbox[s]) \in Seq({SY!Rhubarb, SY!END})
        /\ Len(Tail(inbox[s])) = Len(inbox[s]) - 1
        /\ Len(inbox[s]) \in Nat /\ Len(inbox[s]) >= 1
        /\ \A i \in 1 .. Len(inbox[s]) - 1 : Tail(inbox[s])[i] = inbox[s][i + 1]
        /\ Head(inbox[s]) = inbox[s][1]
    BY <1>2, <1>3
  <1>5. inbox' \in [Subscriber -> Seq({SY!Rhubarb, SY!END})]
        /\ inbox'[s] = Tail(inbox[s])
    BY <1>2, <1>3, <1>4
  <1>6. update_nbr[s] \in Nat
    BY <1>2
  <1>7. /\ update_nbr' \in [Subscriber -> 0 .. Updates]
        /\ subscriber' \in [Subscriber -> {"new", "reporting", "receiving", "ended"}]
        /\ Accounted(s)'
    <2>1. CASE Head(inbox[s]) = SY!END
      <3>1. update_nbr' = update_nbr /\ subscriber' = [subscriber EXCEPT ![s] = "ended"]
        BY <2>1 DEF SY!Receive
      <3>2. update_nbr[s] + Len(inbox[s]) <= published + 1
        BY <1>1, <1>2, <1>4, <1>6 DEF Accounted
      <3>3. update_nbr'[s] + Len(inbox'[s]) <= published'
        BY <1>2, <1>3, <1>4, <1>5, <1>6, <3>1, <3>2
      <3> QED
        BY <1>2, <3>1, <3>3 DEF Accounted
    <2>2. CASE Head(inbox[s]) # SY!END
      <3>1. /\ update_nbr' = [update_nbr EXCEPT ![s] = @ + 1]
            /\ subscriber' = subscriber
        BY <2>2 DEF SY!Receive
      <3>2. update_nbr'[s] = update_nbr[s] + 1
        BY <1>2, <3>1
      <3>3. update_nbr'[s] + Len(inbox'[s]) = update_nbr[s] + Len(inbox[s])
        <4>1. Len(inbox'[s]) = Len(inbox[s]) - 1 /\ Len(inbox[s]) \in Nat
          BY <1>4, <1>5
        <4> QED
          BY <1>6, <3>2, <4>1
      <3>4. CASE update_nbr[s] + Len(inbox[s]) <= published
        <4>1. update_nbr[s] + 1 \in 0 .. Updates
          <5>1. /\ published \in Nat /\ published <= Updates
                /\ Len(inbox[s]) \in Nat /\ Len(inbox[s]) >= 1
            BY <1>2, <1>4
          <5> QED
            BY <1>2, <1>6, <3>4, <5>1
        <4>2. Accounted(s)'
          BY <1>3, <3>3, <3>4 DEF Accounted
        <4> QED
          BY <1>2, <3>1, <4>1, <4>2
      <3>5. CASE /\ publisher = "ended"
                 /\ inbox[s][Len(inbox[s])] = SY!END
                 /\ update_nbr[s] + Len(inbox[s]) <= published + 1
        <4>1. Len(inbox[s]) >= 2
          BY <1>4, <2>2, <3>5
        <4>2. update_nbr[s] + 1 \in 0 .. Updates
          BY <1>2, <1>4, <1>6, <3>5, <4>1
        <4>3. /\ inbox'[s] # << >>
              /\ inbox'[s][Len(inbox'[s])] = SY!END
          BY <1>4, <1>5, <3>5, <4>1
        <4>4. Accounted(s)'
          BY <1>3, <3>3, <3>5, <4>3 DEF Accounted
        <4> QED
          BY <1>2, <3>1, <4>2, <4>4
      <3> QED
        BY <1>1, <3>4, <3>5 DEF Accounted
    <2> QED
      BY <2>1, <2>2
  <1>8. ASSUME NEW u \in Subscriber, u # s PROVE Accounted(u)'
    <2>1. inbox'[u] = inbox[u] /\ update_nbr'[u] = update_nbr[u]
      BY <1>2, <1>3, <1>8 DEF SY!Receive
    <2> QED
      BY <1>1, <1>3, <2>1 DEF Accounted
  <1>9. SY!TypeOK'
    BY <1>1, <1>3, <1>5, <1>7 DEF SY!TypeOK
  <1> QED
    BY <1>7, <1>8, <1>9 DEF SyncpubInv

LEMMA SyncpubNext == SyncpubInv /\ [SY!Next]_SY!vars => SyncpubInv'
  <1> SUFFICES ASSUME SyncpubInv, [SY!Next]_SY!vars PROVE SyncpubInv'
    OBVIOUS
  <1>1. CASE SY!Publisher
    <2>1. CASE SY!StartSending /\ Subscriber = {}
      BY <2>1, ProgramsAssumption
      DEF SyncpubInv, SY!TypeOK, SY!StartSending, SY!AllReported
    <2>2. CASE SY!StartSending /\ Subscriber # {}
      <3>1. PICK s \in Subscriber : TRUE
        BY <2>2
      <3> QED
        BY <2>2, <3>1, SyncpubQuietStep
    <2> QED
      BY <1>1, <2>1, <2>2, SyncpubQuietStep, SyncpubSendStep DEF SY!Publisher
  <1>2. ASSUME NEW s \in Subscriber, SY!Report(s) \/ SY!TakeEffect(s) \/ SY!Receive(s)
        PROVE  SyncpubInv'
    BY <1>2, SyncpubQuietStep, SyncpubReceiveStep
  <1>3. CASE UNCHANGED SY!vars
    BY <1>3 DEF SY!vars, SyncpubInv, SY!TypeOK, Accounted
  <1> QED
    BY <1>1, <1>2, <1>3 DEF SY!Next

\* No subscriber counts more updates than there are (syncsub.cpp:37).
THEOREM SyncpubTypeCorrect == SY!Spec => []SY!TypeOK
  <1>1. SyncpubInv => SY!TypeOK
    BY DEF SyncpubInv
  <1> QED
    BY <1>1, SyncpubInit, SyncpubNext, PTL DEF SY!Spec

----------------------------------------------------------------------------
(***************************************************************************)
(* The asynchronous client and server.                                     *)
(***************************************************************************)

\* A worker that has replies to send has taken a request.
AsyncsrvInv == AS!TypeOK /\ DOMAIN task = Worker

LEMMA AsyncsrvInit == AS!Init => AsyncsrvInv
  <1> SUFFICES ASSUME AS!Init PROVE AsyncsrvInv
    OBVIOUS
  <1>1. << >> \in Seq(Nat) /\ << >> \in Seq(AS!Message)
    OBVIOUS
  <1>2. 0 \in 0 .. MaxReplies /\ 0 \in 0 .. MaxRequests
    BY ProgramsAssumption
  <1>3. /\ frontend \in [Client -> Seq(Nat)]
        /\ jobs \in [Worker -> Seq(AS!Message)]
        /\ backend \in [Worker -> Seq(AS!Message)]
        /\ dump \in [Client -> Seq(AS!Message)]
    BY <1>1 DEF AS!Init
  <1>4. /\ left \in [Worker -> 0 .. MaxReplies]
        /\ request_nbr \in [Client -> 0 .. MaxRequests]
        /\ \A w \in Worker : left[w] = 0
    BY <1>2 DEF AS!Init
  <1> QED
    BY <1>3, <1>4 DEF AS!Init, AsyncsrvInv, AS!TypeOK

LEMMA AsyncsrvClientStep ==
  ASSUME AsyncsrvInv, NEW c \in Client, AS!Connect(c) \/ AS!Send(c) \/ AS!Dump(c)
  PROVE  AsyncsrvInv'
  <1>1. AS!TypeOK /\ DOMAIN task = Worker
    BY DEF AsyncsrvInv
  <1>2. UNCHANGED <<identity, jobs, task, left, backend>>
    BY DEF AS!Connect, AS!Send, AS!Dump, AS!workerVars
  <1>3. routed' \subseteq Client
    BY <1>1 DEF AS!TypeOK, AS!Connect, AS!Send, AS!Dump
  <1>4. request_nbr' \in [Client -> 0 .. MaxRequests] /\ frontend' \in [Client -> Seq(Nat)]
    <2>1. /\ request_nbr \in [Client -> 0 .. MaxRequests]
          /\ frontend \in [Client -> Seq(Nat)]
          /\ MaxRequests \in Nat
      BY <1>1, ProgramsAssumption DEF AS!TypeOK
    <2>2. CASE AS!Send(c)
      <3>1. request_nbr[c] + 1 \in 0 .. MaxRequests
        BY <2>1, <2>2 DEF AS!Send
      <3>2. Append(frontend[c], request_nbr[c] + 1) \in Seq(Nat)
        BY <2>1, <3>1
      <3> QED
        BY <2>1, <2>2, <3>1, <3>2 DEF AS!Send
    <2> QED
      BY <2>1, <2>2 DEF AS!Connect, AS!Dump
  <1>5. dump' \in [Client -> Seq(AS!Message)]
    <2>1. dump \in [Client -> Seq(AS!Message)]
      BY <1>1 DEF AS!TypeOK
    <2>2. CASE AS!Dump(c)
      <3>1. Tail(dump[c]) \in Seq(AS!Message)
        BY <2>1, <2>2 DEF AS!Dump
      <3> QED
        BY <2>1, <2>2, <3>1 DEF AS!Dump
    <2> QED
      BY <2>1, <2>2 DEF AS!Connect, AS!Send
  <1> QED
    BY <1>1, <1>2, <1>3, <1>4, <1>5 DEF AsyncsrvInv, AS!TypeOK

LEMMA AsyncsrvProxyStep ==
  ASSUME AsyncsrvInv, AS!Proxy
  PROVE  AsyncsrvInv'
  <1>1. AS!TypeOK /\ DOMAIN task = Worker
    BY DEF AsyncsrvInv
  <1>2. /\ identity \in [Client -> Id] /\ routed \subseteq Client
        /\ frontend \in [Client -> Seq(Nat)]
        /\ jobs \in [Worker -> Seq(AS!Message)]
        /\ backend \in [Worker -> Seq(AS!Message)]
        /\ dump \in [Client -> Seq(AS!Message)]
    BY <1>1 DEF AS!TypeOK
  <1>3. ASSUME NEW w \in Worker, NEW c \in Client, AS!ProxyRequest(c, w) PROVE AsyncsrvInv'
    <2> DEFINE m == [id |-> identity[c], of |-> c, nbr |-> Head(frontend[c])]
    <2>1. Head(frontend[c]) \in Nat /\ Tail(frontend[c]) \in Seq(Nat)
      BY <1>2, <1>3 DEF AS!ProxyRequest
    <2>2. m \in AS!Message
      BY <1>2, <2>1 DEF AS!Message
    <2>3. jobs' = [jobs EXCEPT ![w] = Append(@, m)]
      BY <1>3 DEF AS!ProxyRequest
    <2> HIDE DEF m
    <2>4. Append(jobs[w], m) \in Seq(AS!Message)
      BY <1>2, <2>2
    <2>5. jobs' \in [Worker -> Seq(AS!Message)]
      BY <1>2, <2>3, <2>4
    <2>6. frontend' \in [Client -> Seq(Nat)]
      BY <1>2, <1>3, <2>1 DEF AS!ProxyRequest
    <2> QED
      BY <1>1, <1>3, <2>5, <2>6
      DEF AsyncsrvInv, AS!TypeOK, AS!ProxyRequest, AS!workerVars
  <1>4. ASSUME NEW w \in Worker, AS!ProxyReply(w) PROVE AsyncsrvInv'
    <2>1. Head(backend[w]) \in AS!Message /\ Tail(backend[w]) \in Seq(AS!Message)
      BY <1>2, <1>4 DEF AS!ProxyReply
    <2>2. backend' \in [Worker -> Seq(AS!Message)]
      BY <1>2, <1>4, <2>1 DEF AS!ProxyReply
    <2>3. PICK c \in routed : dump' = [dump EXCEPT ![c] = Append(@, Head(backend[w]))]
      BY <1>4 DEF AS!ProxyReply
    <2>4. Append(dump[c], Head(backend[w])) \in Seq(AS!Message)
      BY <1>2, <2>1
    <2>5. dump' \in [Client -> Seq(AS!Message)]
      BY <1>2, <2>3, <2>4
    <2> QED
      BY <1>1, <1>4, <2>2, <2>5
      DEF AsyncsrvInv, AS!TypeOK, AS!ProxyReply, AS!workerVars
  <1> QED
    BY <1>3, <1>4 DEF AS!Proxy

LEMMA AsyncsrvWorkerStep ==
  ASSUME AsyncsrvInv, NEW w \in Worker, AS!WorkerThread(w)
  PROVE  AsyncsrvInv'
  <1>1. AS!TypeOK /\ DOMAIN task = Worker
    BY DEF AsyncsrvInv
  <1>2. /\ jobs \in [Worker -> Seq(AS!Message)]
        /\ backend \in [Worker -> Seq(AS!Message)]
        /\ left \in [Worker -> 0 .. MaxReplies]
        /\ MaxReplies \in Nat
    BY <1>1, ProgramsAssumption DEF AS!TypeOK
  <1>3. CASE AS!Take(w)
    <2>1. Head(jobs[w]) \in AS!Message /\ Tail(jobs[w]) \in Seq(AS!Message)
      BY <1>2, <1>3 DEF AS!Take
    <2>2. jobs' \in [Worker -> Seq(AS!Message)]
      BY <1>2, <1>3, <2>1 DEF AS!Take
    <2>3. left' \in [Worker -> 0 .. MaxReplies]
          /\ \A v \in Worker : v # w => left'[v] = left[v]
      BY <1>2, <1>3 DEF AS!Take, AS!Replies
    <2>4. /\ DOMAIN task' = Worker
          /\ task'[w] = Head(jobs[w])
          /\ \A v \in Worker : v # w => task'[v] = task[v]
      BY <1>1, <1>3 DEF AS!Take, AS!Received
    <2>5. \A v \in Worker : left'[v] > 0 => task'[v] \in AS!Message
      BY <1>1, <2>1, <2>3, <2>4 DEF AS!TypeOK
    <2> QED
      BY <1>1, <1>3, <2>2, <2>3, <2>4, <2>5 DEF AsyncsrvInv, AS!TypeOK, AS!Take
  <1>4. CASE AS!Reply(w)
    <2>1. task[w] \in AS!Message /\ left[w] > 0
      BY <1>1, <1>4 DEF AS!TypeOK, AS!Reply
    <2>2. Append(backend[w], task[w]) \in Seq(AS!Message)
      BY <1>2, <2>1
    <2>3. backend' \in [Worker -> Seq(AS!Message)]
      BY <1>2, <1>4, <2>2 DEF AS!Reply
    <2>4. /\ left' \in [Worker -> 0 .. MaxReplies]
          /\ \A v \in Worker : left'[v] > 0 => left[v] > 0
      BY <1>2, <1>4, <2>1 DEF AS!Reply
    <2> QED
      BY <1>1, <1>4, <2>3, <2>4 DEF AsyncsrvInv, AS!TypeOK, AS!Reply
  <1> QED
    BY <1>3, <1>4 DEF AS!WorkerThread

LEMMA AsyncsrvNext == AsyncsrvInv /\ [AS!Next]_AS!vars => AsyncsrvInv'
  <1> SUFFICES ASSUME AsyncsrvInv, [AS!Next]_AS!vars PROVE AsyncsrvInv'
    OBVIOUS
  <1>1. CASE UNCHANGED AS!vars
    BY <1>1 DEF AS!vars, AS!workerVars, AsyncsrvInv, AS!TypeOK
  <1> QED
    BY <1>1, AsyncsrvClientStep, AsyncsrvProxyStep, AsyncsrvWorkerStep DEF AS!Next

\* Whatever a worker replies to is a request it has taken (asyncsrv.cpp:127-128).
THEOREM AsyncsrvTypeCorrect == AS!Spec => []AS!TypeOK
  <1>1. AsyncsrvInv => AS!TypeOK
    BY DEF AsyncsrvInv
  <1> QED
    BY <1>1, AsyncsrvInit, AsyncsrvNext, PTL DEF AS!Spec

\* Whose message m is: that of a client which has been taken with the identity in
\* front of m, and which has made the request.
IsOwn(m) ==
    /\ m.of \in routed
    /\ m.id = identity[m.of]
    /\ m.nbr \in 1 .. request_nbr[m.of]

\* No two clients that are taken have one identity; and whatever is on its way, or
\* in the hand of a worker, has the identity of its client.
Addressed ==
    /\ \A c, d \in routed : identity[c] = identity[d] => c = d
    /\ \A c \in Client : \A n \in AS!Range(frontend[c]) : n \in 1 .. request_nbr[c]
    /\ \A w \in Worker : \A m \in AS!Range(jobs[w]) : IsOwn(m)
    /\ \A w \in Worker : left[w] > 0 => IsOwn(task[w])
    /\ \A w \in Worker : \A m \in AS!Range(backend[w]) : IsOwn(m)
    /\ AS!OwnReplies

LEMMA RangeOfTail ==
  ASSUME NEW S, NEW q \in Seq(S), q # << >>
  PROVE  /\ Head(q) \in AS!Range(q) /\ Head(q) \in S
         /\ Tail(q) \in Seq(S)
         /\ AS!Range(Tail(q)) \subseteq AS!Range(q)
  <1>1. /\ Len(q) \in Nat /\ Len(q) >= 1 /\ DOMAIN q = 1 .. Len(q)
        /\ Head(q) = q[1] /\ Head(q) \in S
        /\ Tail(q) \in Seq(S)
        /\ DOMAIN Tail(q) = 1 .. Len(q) - 1
        /\ \A i \in 1 .. Len(q) - 1 : Tail(q)[i] = q[i + 1]
    OBVIOUS
  <1>2. \A i \in DOMAIN Tail(q) : i + 1 \in DOMAIN q /\ Tail(q)[i] = q[i + 1]
    BY <1>1
  <1> QED
    BY <1>1, <1>2 DEF AS!Range

LEMMA RangeOfAppend ==
  ASSUME NEW S, NEW q \in Seq(S), NEW x \in S
  PROVE  /\ Append(q, x) \in Seq(S)
         /\ AS!Range(Append(q, x)) = AS!Range(q) \cup {x}
  <1>1. /\ Append(q, x) \in Seq(S) /\ Len(q) \in Nat
        /\ DOMAIN q = 1 .. Len(q)
        /\ DOMAIN Append(q, x) = 1 .. Len(q) + 1
        /\ \A i \in 1 .. Len(q) : Append(q, x)[i] = q[i]
        /\ Append(q, x)[Len(q) + 1] = x
    OBVIOUS
  <1>2. DOMAIN Append(q, x) = DOMAIN q \cup {Len(q) + 1}
    BY <1>1
  <1>3. \A i \in DOMAIN q : Append(q, x)[i] = q[i]
    BY <1>1
  <1> QED
    BY <1>1, <1>2, <1>3 DEF AS!Range

LEMMA AddressedInit == AS!Init => Addressed
  <1> SUFFICES ASSUME AS!Init PROVE Addressed
    OBVIOUS
  <1>1. AS!Range(<< >>) = {}
    BY DEF AS!Range
  <1> QED
    BY <1>1 DEF AS!Init, Addressed, AS!OwnReplies

\* An identity is drawn once, and numbers only grow.
LEMMA OwnStays ==
  ASSUME AsyncsrvInv, identity' = identity, routed \subseteq routed', routed' \subseteq Client,
         \A c \in Client : request_nbr'[c] \in Nat /\ request_nbr[c] <= request_nbr'[c]
  PROVE  /\ \A m \in AS!Message : IsOwn(m) => IsOwn(m)'
         /\ \A c \in Client : \A n \in Nat :
                n \in 1 .. request_nbr[c] => n \in 1 .. request_nbr'[c]
  <1>1. ASSUME NEW c \in Client, NEW n \in Nat, n \in 1 .. request_nbr[c]
        PROVE  n \in 1 .. request_nbr'[c]
    <2>1. request_nbr[c] \in Nat /\ request_nbr'[c] \in Nat /\ request_nbr[c] <= request_nbr'[c]
      BY DEF AsyncsrvInv, AS!TypeOK
    <2> QED
      BY <1>1, <2>1
  <1>2. ASSUME NEW m \in AS!Message, IsOwn(m) PROVE IsOwn(m)'
    <2>1. m.of \in Client /\ m.nbr \in Nat
      BY DEF AS!Message
    <2>2. m.of \in routed /\ m.id = identity[m.of] /\ m.nbr \in 1 .. request_nbr[m.of]
      BY <1>2 DEF IsOwn
    <2> QED
      BY <1>1, <2>1, <2>2 DEF IsOwn
  <1> QED
    BY <1>1, <1>2

\* What is on its way is of its type.
LEMMA OnItsWay ==
  ASSUME AsyncsrvInv
  PROVE  /\ \A c \in Client : /\ frontend[c] \in Seq(Nat) /\ dump[c] \in Seq(AS!Message)
                              /\ AS!Range(frontend[c]) \subseteq Nat
                              /\ AS!Range(dump[c]) \subseteq AS!Message
         /\ \A w \in Worker : /\ jobs[w] \in Seq(AS!Message) /\ backend[w] \in Seq(AS!Message)
                              /\ AS!Range(jobs[w]) \subseteq AS!Message
                              /\ AS!Range(backend[w]) \subseteq AS!Message
  <1>1. ASSUME NEW S, NEW q \in Seq(S) PROVE AS!Range(q) \subseteq S
    <2>1. \A i \in DOMAIN q : q[i] \in S
      OBVIOUS
    <2> QED
      BY <2>1 DEF AS!Range
  <1> QED
    BY <1>1 DEF AsyncsrvInv, AS!TypeOK

\* Where nothing new is on its way, everything stays addressed.
LEMMA StaysAddressed ==
  ASSUME AsyncsrvInv, Addressed, identity' = identity, routed \subseteq routed',
         routed' \subseteq Client,
         \A c \in Client : request_nbr'[c] \in Nat /\ request_nbr[c] <= request_nbr'[c]
  PROVE  /\ \A c \in Client : \A n \in AS!Range(frontend[c]) : n \in 1 .. request_nbr'[c]
         /\ \A w \in Worker : \A m \in AS!Range(jobs[w]) : IsOwn(m)'
         /\ \A w \in Worker : left[w] > 0 => task[w] \in AS!Message /\ IsOwn(task[w])
         /\ \A m \in AS!Message : IsOwn(m) => IsOwn(m)'
         /\ \A w \in Worker : \A m \in AS!Range(backend[w]) : IsOwn(m)'
         /\ \A c \in Client : \A m \in AS!Range(dump[c]) :
                m.of = c /\ m.nbr \in 1 .. request_nbr'[c]
  <1>1. /\ \A m \in AS!Message : IsOwn(m) => IsOwn(m)'
        /\ \A c \in Client : \A n \in Nat :
               n \in 1 .. request_nbr[c] => n \in 1 .. request_nbr'[c]
    BY OwnStays
  <1>2. \A m \in AS!Message : m.nbr \in Nat
    BY DEF AS!Message
  <1>3. \A w \in Worker : left[w] > 0 => task[w] \in AS!Message
    BY DEF AsyncsrvInv, AS!TypeOK
  <1>4. \A w \in Worker : \A m \in AS!Range(jobs[w]) \cup AS!Range(backend[w]) : IsOwn(m)'
    BY <1>1, OnItsWay DEF Addressed
  <1>5. \A c \in Client : \A n \in AS!Range(frontend[c]) : n \in 1 .. request_nbr'[c]
    BY <1>1, OnItsWay DEF Addressed
  <1>6. \A c \in Client : \A m \in AS!Range(dump[c]) :
            m.of = c /\ m.nbr \in 1 .. request_nbr'[c]
    <2> SUFFICES ASSUME NEW c \in Client, NEW m \in AS!Range(dump[c])
                 PROVE  m.of = c /\ m.nbr \in 1 .. request_nbr'[c]
      OBVIOUS
    <2>1. m \in AS!Message /\ m.of = c /\ m.nbr \in 1 .. request_nbr[c]
      BY OnItsWay DEF Addressed, AS!OwnReplies
    <2> QED
      BY <1>1, <1>2, <2>1
  <1> QED
    BY <1>1, <1>3, <1>4, <1>5, <1>6 DEF Addressed

LEMMA AddressedClientStep ==
  ASSUME AsyncsrvInv, Addressed, NEW c \in Client, AS!Connect(c) \/ AS!Send(c) \/ AS!Dump(c)
  PROVE  Addressed'
  <1>1. /\ request_nbr \in [Client -> 0 .. MaxRequests] /\ MaxRequests \in Nat
        /\ routed \subseteq Client
        /\ frontend \in [Client -> Seq(Nat)] /\ dump \in [Client -> Seq(AS!Message)]
    BY ProgramsAssumption DEF AsyncsrvInv, AS!TypeOK
  <1>2. UNCHANGED <<identity, jobs, task, left, backend>>
    BY DEF AS!Connect, AS!Send, AS!Dump, AS!workerVars
  <1>3. routed \subseteq routed' /\ routed' \subseteq Client
    BY <1>1 DEF AS!Connect, AS!Send, AS!Dump
  <1>4. \A d \in Client : request_nbr'[d] \in Nat /\ request_nbr[d] <= request_nbr'[d]
    BY <1>1 DEF AS!Connect, AS!Send, AS!Dump
  <1>5. /\ \A d \in Client : \A n \in AS!Range(frontend[d]) : n \in 1 .. request_nbr'[d]
        /\ \A w \in Worker : \A m \in AS!Range(jobs[w]) : IsOwn(m)'
        /\ \A w \in Worker : left[w] > 0 => task[w] \in AS!Message /\ IsOwn(task[w])
        /\ \A m \in AS!Message : IsOwn(m) => IsOwn(m)'
        /\ \A w \in Worker : \A m \in AS!Range(backend[w]) : IsOwn(m)'
        /\ \A d \in Client : \A m \in AS!Range(dump[d]) :
               m.of = d /\ m.nbr \in 1 .. request_nbr'[d]
    BY <1>2, <1>3, <1>4, StaysAddressed
  <1>6. \A d, e \in routed' : identity'[d] = identity'[e] => d = e
    BY <1>2 DEF Addressed, AS!Connect, AS!Send, AS!Dump
  <1>7. \A d \in Client : \A n \in AS!Range(frontend'[d]) : n \in 1 .. request_nbr'[d]
    <2>1. CASE AS!Send(c)
      <3> DEFINE n == request_nbr[c] + 1
      <3>1. /\ n \in Nat /\ n \in 1 .. n /\ request_nbr'[c] = n
            /\ frontend'[c] = Append(frontend[c], n)
            /\ \A d \in Client : d # c => frontend'[d] = frontend[d]
        BY <1>1, <2>1 DEF AS!Send
      <3> HIDE DEF n
      <3>2. AS!Range(frontend'[c]) = AS!Range(frontend[c]) \cup {n}
        <4>1. frontend[c] \in Seq(Nat) /\ n \in Nat
          BY <1>1, <3>1
        <4>2. AS!Range(Append(frontend[c], n)) = AS!Range(frontend[c]) \cup {n}
          BY <4>1, RangeOfAppend
        <4> QED
          BY <3>1, <4>2
      <3> QED
        BY <1>5, <3>1, <3>2
    <2>2. CASE frontend' = frontend
      BY <1>5, <2>2
    <2> QED
      BY <2>1, <2>2 DEF AS!Connect, AS!Dump
  <1>8. \A d \in Client : \A m \in AS!Range(dump'[d]) :
            m.of = d /\ m.nbr \in 1 .. request_nbr'[d]
    <2>1. CASE AS!Dump(c)
      <3>1. /\ dump'[c] = Tail(dump[c]) /\ dump[c] # << >>
            /\ \A d \in Client : d # c => dump'[d] = dump[d]
        BY <1>1, <2>1 DEF AS!Dump
      <3>2. AS!Range(Tail(dump[c])) \subseteq AS!Range(dump[c])
        BY <1>1, <3>1, RangeOfTail
      <3> QED
        BY <1>5, <3>1, <3>2
    <2>2. CASE dump' = dump
      BY <1>5, <2>2
    <2> QED
      BY <2>1, <2>2 DEF AS!Connect, AS!Send
  <1> QED
    BY <1>2, <1>5, <1>6, <1>7, <1>8 DEF Addressed, AS!OwnReplies

LEMMA AddressedServerStep ==
  ASSUME AsyncsrvInv, Addressed, AS!Proxy \/ \E w \in Worker : AS!WorkerThread(w)
  PROVE  Addressed'
  <1>1. /\ request_nbr \in [Client -> 0 .. MaxRequests] /\ MaxRequests \in Nat
        /\ routed \subseteq Client /\ identity \in [Client -> Id]
        /\ frontend \in [Client -> Seq(Nat)] /\ dump \in [Client -> Seq(AS!Message)]
        /\ jobs \in [Worker -> Seq(AS!Message)] /\ backend \in [Worker -> Seq(AS!Message)]
        /\ left \in [Worker -> 0 .. MaxReplies] /\ MaxReplies \in Nat
        /\ DOMAIN task = Worker
    BY ProgramsAssumption DEF AsyncsrvInv, AS!TypeOK
  <1>2. UNCHANGED <<identity, routed, request_nbr>>
    BY DEF AS!Proxy, AS!ProxyReply, AS!ProxyRequest, AS!WorkerThread, AS!Take, AS!Reply
  <1>3. \A d \in Client : request_nbr'[d] \in Nat /\ request_nbr[d] <= request_nbr'[d]
    BY <1>1, <1>2
  <1>4. /\ \A d \in Client : \A n \in AS!Range(frontend[d]) : n \in 1 .. request_nbr'[d]
        /\ \A w \in Worker : \A m \in AS!Range(jobs[w]) : IsOwn(m)'
        /\ \A w \in Worker : left[w] > 0 => IsOwn(task[w])
        /\ \A m : IsOwn(m)' = IsOwn(m)
        /\ \A w \in Worker : \A m \in AS!Range(backend[w]) : IsOwn(m)'
        /\ \A d \in Client : \A m \in AS!Range(dump[d]) :
               m.of = d /\ m.nbr \in 1 .. request_nbr'[d]
    <2>1. \A m : IsOwn(m)' = IsOwn(m)
      BY <1>2 DEF IsOwn
    <2> QED
      BY <1>1, <1>2, <1>3, <2>1, StaysAddressed
  <1>5. \A d, e \in routed' : identity'[d] = identity'[e] => d = e
    BY <1>2 DEF Addressed
  <1>6. ASSUME NEW c \in Client, NEW w \in Worker, AS!ProxyRequest(c, w)
        PROVE  Addressed'
    <2> DEFINE n == Head(frontend[c])
               m == [id |-> identity[c], of |-> c, nbr |-> n]
    <2>1. /\ c \in routed /\ frontend[c] # << >>
          /\ frontend' = [frontend EXCEPT ![c] = Tail(@)]
          /\ jobs' = [jobs EXCEPT ![w] = Append(@, m)]
          /\ UNCHANGED <<task, left, backend, dump>>
      BY <1>6 DEF AS!ProxyRequest, AS!workerVars
    <2>2. n \in AS!Range(frontend[c]) /\ n \in Nat
          /\ AS!Range(Tail(frontend[c])) \subseteq AS!Range(frontend[c])
      BY <1>1, <2>1, RangeOfTail
    <2>3. m \in AS!Message /\ IsOwn(m)
      BY <1>1, <1>2, <1>4, <2>1, <2>2 DEF IsOwn, AS!Message
    <2> HIDE DEF m, n
    <2>4. AS!Range(jobs'[w]) = AS!Range(jobs[w]) \cup {m}
          /\ \A v \in Worker : v # w => jobs'[v] = jobs[v]
      BY <1>1, <2>1, <2>3, RangeOfAppend
    <2>5. \A v \in Worker : \A x \in AS!Range(jobs'[v]) : IsOwn(x)'
      BY <1>4, <2>3, <2>4
    <2>6. \A d \in Client : \A x \in AS!Range(frontend'[d]) : x \in 1 .. request_nbr'[d]
      BY <1>1, <1>4, <2>1, <2>2
    <2> QED
      BY <1>4, <1>5, <2>1, <2>5, <2>6 DEF Addressed, AS!OwnReplies
  <1>7. ASSUME NEW w \in Worker, AS!ProxyReply(w)
        PROVE  Addressed'
    <2> DEFINE m == Head(backend[w])
    <2>1. /\ backend[w] # << >> /\ backend' = [backend EXCEPT ![w] = Tail(@)]
          /\ UNCHANGED <<frontend, jobs, task, left>>
      BY <1>7 DEF AS!ProxyReply, AS!workerVars
    <2>2. m \in AS!Range(backend[w]) /\ m \in AS!Message
          /\ AS!Range(Tail(backend[w])) \subseteq AS!Range(backend[w])
      BY <1>1, <2>1, RangeOfTail
    <2>3. PICK c \in routed : /\ identity[c] = m.id
                              /\ dump' = [dump EXCEPT ![c] = Append(@, m)]
      BY <1>7 DEF AS!ProxyReply
    <2> HIDE DEF m
    <2>4. m.of \in routed /\ m.id = identity[m.of] /\ m.nbr \in 1 .. request_nbr[m.of]
      BY <1>4, <2>2 DEF IsOwn
    <2>5. m.of = c
      BY <2>3, <2>4 DEF Addressed
    <2>6. AS!Range(dump'[c]) = AS!Range(dump[c]) \cup {m}
          /\ \A d \in Client : d # c => dump'[d] = dump[d]
      BY <1>1, <2>2, <2>3, RangeOfAppend
    <2>7. \A d \in Client : \A x \in AS!Range(dump'[d]) :
              x.of = d /\ x.nbr \in 1 .. request_nbr'[d]
      BY <1>2, <1>4, <2>4, <2>5, <2>6
    <2>8. \A v \in Worker : \A x \in AS!Range(backend'[v]) : IsOwn(x)'
      BY <1>1, <1>4, <2>1, <2>2
    <2> QED
      BY <1>4, <1>5, <2>1, <2>7, <2>8 DEF Addressed, AS!OwnReplies
  <1>8. ASSUME NEW w \in Worker, AS!Take(w)
        PROVE  Addressed'
    <2> DEFINE m == Head(jobs[w])
    <2>1. /\ jobs[w] # << >> /\ jobs' = [jobs EXCEPT ![w] = Tail(@)]
          /\ task' = [task EXCEPT ![w] = m]
          /\ \A v \in Worker : v # w => left'[v] = left[v]
          /\ UNCHANGED <<frontend, backend, dump>>
      BY <1>1, <1>8 DEF AS!Take, AS!Received
    <2>2. m \in AS!Range(jobs[w]) /\ AS!Range(Tail(jobs[w])) \subseteq AS!Range(jobs[w])
      BY <1>1, <2>1, RangeOfTail
    <2> HIDE DEF m
    <2>3. task'[w] = m /\ \A v \in Worker : v # w => task'[v] = task[v]
      BY <1>1, <2>1
    <2>4. \A v \in Worker : left'[v] > 0 => IsOwn(task'[v])
      BY <1>4, <2>1, <2>2, <2>3
    <2>5. \A v \in Worker : left'[v] > 0 => IsOwn(task[v])'
      BY <1>2, <2>4 DEF IsOwn
    <2>6. \A v \in Worker : \A x \in AS!Range(jobs'[v]) : IsOwn(x)'
      BY <1>1, <1>4, <2>1, <2>2
    <2> QED
      BY <1>4, <1>5, <2>1, <2>5, <2>6 DEF Addressed, AS!OwnReplies
  <1>9. ASSUME NEW w \in Worker, AS!Reply(w)
        PROVE  Addressed'
    <2>1. /\ left[w] > 0 /\ left' = [left EXCEPT ![w] = @ - 1]
          /\ backend' = [backend EXCEPT ![w] = Append(@, task[w])]
          /\ UNCHANGED <<frontend, jobs, task, dump>>
      BY <1>9 DEF AS!Reply
    <2>2. task[w] \in AS!Message
      BY <2>1 DEF AsyncsrvInv, AS!TypeOK
    <2>3. AS!Range(backend'[w]) = AS!Range(backend[w]) \cup {task[w]}
          /\ \A v \in Worker : v # w => backend'[v] = backend[v]
      BY <1>1, <2>1, <2>2, RangeOfAppend
    <2>4. \A v \in Worker : left'[v] > 0 => left[v] > 0
      BY <1>1, <2>1
    <2>5. \A v \in Worker : left'[v] > 0 => IsOwn(task[v])'
      BY <1>2, <1>4, <2>1, <2>4 DEF IsOwn
    <2>6. \A v \in Worker : \A x \in AS!Range(backend'[v]) : IsOwn(x)'
      BY <1>4, <2>1, <2>3
    <2> QED
      BY <1>4, <1>5, <2>1, <2>5, <2>6 DEF Addressed, AS!OwnReplies
  <1> QED
    BY <1>6, <1>7, <1>8, <1>9 DEF AS!Proxy, AS!WorkerThread

LEMMA AddressedNext == AsyncsrvInv /\ Addressed /\ [AS!Next]_AS!vars => Addressed'
  <1> SUFFICES ASSUME AsyncsrvInv, Addressed, [AS!Next]_AS!vars PROVE Addressed'
    OBVIOUS
  <1>1. CASE UNCHANGED AS!vars
    BY <1>1 DEF AS!vars, AS!workerVars, Addressed, AS!OwnReplies, IsOwn
  <1> QED
    BY <1>1, AddressedClientStep, AddressedServerStep DEF AS!Next

\* A reply reaches the client that has made the request, though identities are drawn
\* at random and may be the same (asyncsrv.cpp:53, 93, 124, 145).
THEOREM RepliesAreOwn == AS!Spec => []AS!OwnReplies
  <1>1. Addressed => AS!OwnReplies
    BY DEF Addressed
  <1> QED
    BY <1>1, AsyncsrvInit, AsyncsrvNext, AddressedInit, AddressedNext, PTL DEF AS!Spec

----------------------------------------------------------------------------
(***************************************************************************)
(* All of them.                                                            *)
(***************************************************************************)

\* What the programs do is what the one that runs does.
LEMMA ProgramsStep ==
  [ProgramsNext]_ProgramsVars =>
      /\ [Next]_vars /\ [FL2!Next]_FL2!vars /\ [RT!Next]_RT!vars
      /\ [RW!Next]_RW!vars /\ [SY!Next]_SY!vars /\ [AS!Next]_AS!vars
  <1> SUFFICES ASSUME [ProgramsNext]_ProgramsVars
               PROVE  /\ [Next]_vars /\ [FL2!Next]_FL2!vars /\ [RT!Next]_RT!vars
                      /\ [RW!Next]_RW!vars /\ [SY!Next]_SY!vars /\ [AS!Next]_AS!vars
    OBVIOUS
  <1>1. UNCHANGED fl2Vars => UNCHANGED FL2!vars
    BY DEF fl2Vars, FL2!vars, FL2!callVars, FL2!serverVars
  <1>2. UNCHANGED rtVars => UNCHANGED RT!vars
    BY DEF rtVars, RT!vars, RT!flow
  <1>3. UNCHANGED rwVars => UNCHANGED RW!vars
    BY DEF rwVars, RW!vars
  <1>4. UNCHANGED syVars => UNCHANGED SY!vars
    BY DEF syVars, SY!vars
  <1>5. UNCHANGED asVars => UNCHANGED AS!vars
    BY DEF asVars, AS!vars, AS!workerVars
  <1> QED
    BY <1>1, <1>2, <1>3, <1>4, <1>5
    DEF ProgramsNext, ProgramsVars, PipelineStep, Flclient2Step, TrippingStep, RtreqStep,
        SyncpubStep, AsyncsrvStep

\* So the behaviors of all of them are behaviors of each: nothing is lost by running
\* them in one specification.
THEOREM ProgramsAreEach ==
  ProgramsSpec =>
      Spec /\ FL2!Spec /\ RT!Spec /\ RW!Spec /\ SY!Spec /\ AS!Spec
  <1>1. ProgramsInit => Init /\ FL2!Init /\ RT!Init /\ RW!Init /\ SY!Init /\ AS!Init
    BY DEF ProgramsInit
  <1> QED
    BY <1>1, ProgramsStep, PTL
    DEF ProgramsSpec, Spec, FL2!Spec, RT!Spec, RW!Spec, SY!Spec, AS!Spec

\* Each of the programs keeps its types.
THEOREM ProgramsTypeCorrect == ProgramsSpec => []ProgramsTypeOK
  <1>1. TypeOK /\ FL2!TypeOK /\ RT!TypeOK /\ RW!TypeOK /\ SY!TypeOK /\ AS!TypeOK
            => ProgramsTypeOK
    BY DEF ProgramsTypeOK
  <1>2. IsFiniteSet(Worker)
    BY ProgramsAssumption
  <1>3. RW!Spec => []RW!TypeOK
    BY <1>2, BossTypeCorrect
  <1> QED
    BY <1>1, <1>3, ProgramsAreEach, TypeCorrect, ShotgunTypeCorrect, TrippingTypeCorrect,
       SyncpubTypeCorrect, AsyncsrvTypeCorrect, PTL

\* KILL is the last message of a batch (tasksink.cpp:57), in the programs that run.
THEOREM ProgramsKillComesLast == ProgramsSpec => []KillIsLast
  BY ProgramsAreEach, KillComesLast, PTL

\* The boss fires each worker once (rtreq.cpp:68), in the programs that run.
THEOREM ProgramsFireOnce == ProgramsSpec => []FiredOnce
  <1>1. RW!FiredOnce => FiredOnce
    BY DEF FiredOnce
  <1>2. IsFiniteSet(Worker)
    BY ProgramsAssumption
  <1>3. RW!Spec => []RW!FiredOnce
    BY <1>2, EachFiredOnce
  <1> QED
    BY <1>1, <1>3, ProgramsAreEach, PTL

\* Replies reach who asked for them (asyncsrv.cpp:93), in the programs that run.
THEOREM ProgramsReplyToOwn == ProgramsSpec => []OwnReplies
  <1>1. AS!OwnReplies => OwnReplies
    BY DEF OwnReplies
  <1> QED
    BY <1>1, ProgramsAreEach, RepliesAreOwn, PTL

=============================================================================
