------------------------ MODULE ParanoidPirateProofs ------------------------
(***************************************************************************)
(* Safety of the Paranoid Pirate queue for any number of workers, any set  *)
(* of requests, any time to live and any liveness count.                   *)
(***************************************************************************)
EXTENDS ParanoidPirate, QueueLemmas

----------------------------------------------------------------------------
(***************************************************************************)
(* What the operations of workers_t keep: the types of the deque and of    *)
(* the table, and their agreement.                                         *)
(***************************************************************************)

\* RemoveAt drops one entry and moves those behind it up.
LEMMA RemoveAtProperties ==
    ASSUME NEW q \in Seq(Worker), NEW k \in 1 .. Len(q)
    PROVE  /\ RemoveAt(q, k) \in Seq(Worker)
           /\ Len(RemoveAt(q, k)) = Len(q) - 1
           /\ \A i \in 1 .. k - 1 : RemoveAt(q, k)[i] = q[i]
           /\ \A i \in k .. Len(q) - 1 : RemoveAt(q, k)[i] = q[i + 1]
  <1>1. Len(q) \in Nat /\ \A i \in 1 .. Len(q) : q[i] \in Worker
    OBVIOUS
  <1>2. PICK n \in Nat : n = Len(q)
    BY <1>1
  <1>3. PICK a : a = SubSeq(q, 1, k - 1)
    OBVIOUS
  <1>4. PICK b : b = SubSeq(q, k + 1, n)
    OBVIOUS
  <1>5. /\ a \in Seq(Worker)
        /\ Len(a) = k - 1
        /\ \A i \in 1 .. k - 1 : a[i] = q[i]
    <2>1. k - 1 \in Int /\ \A i \in 1 .. k - 1 : q[i] \in Worker
      BY <1>1
    <2>2. /\ a \in Seq(Worker)
          /\ Len(a) = IF 1 <= k - 1 THEN k - 1 - 1 + 1 ELSE 0
          /\ \A i \in 1 .. k - 1 - 1 + 1 : a[i] = q[1 + i - 1]
      BY <1>3, <2>1, SubSeqProperties
    <2> QED
      BY <1>1, <2>2
  <1>6. /\ b \in Seq(Worker)
        /\ Len(b) = n - k
        /\ \A i \in 1 .. n - k : b[i] = q[i + k]
    <2>1. k + 1 \in Int /\ \A i \in k + 1 .. n : q[i] \in Worker
      BY <1>1, <1>2
    <2>2. /\ b \in Seq(Worker)
          /\ Len(b) = IF k + 1 <= n THEN n - (k + 1) + 1 ELSE 0
          /\ \A i \in 1 .. n - (k + 1) + 1 : b[i] = q[k + 1 + i - 1]
      BY <1>4, <2>1, SubSeqProperties
    <2>3. Len(b) = n - k
      <3>1. CASE k < n
        BY <1>2, <2>2, <3>1
      <3>2. CASE k = n
        BY <1>2, <2>2, <3>2
      <3> QED
        BY <1>2, <3>1, <3>2
    <2>4. ASSUME NEW i \in 1 .. n - k PROVE b[i] = q[i + k]
      <3>1. i \in 1 .. n - (k + 1) + 1 /\ k + 1 + i - 1 = i + k
        BY <1>2
      <3> QED
        BY <2>2, <3>1
    <2> QED
      BY <2>2, <2>3, <2>4
  <1>7. RemoveAt(q, k) = a \o b
    BY <1>2, <1>3, <1>4 DEF RemoveAt
  <1>8. /\ a \o b \in Seq(Worker)
        /\ Len(a \o b) = Len(a) + Len(b)
        /\ \A i \in 1 .. Len(a) + Len(b) :
               (a \o b)[i] = IF i <= Len(a) THEN a[i] ELSE b[i - Len(a)]
    BY <1>5, <1>6, ConcatProperties
  <1>9. ASSUME NEW i \in 1 .. k - 1 PROVE (a \o b)[i] = q[i]
    BY <1>2, <1>5, <1>6, <1>8
  <1>10. ASSUME NEW i \in k .. n - 1 PROVE (a \o b)[i] = q[i + 1]
    <2>1. (a \o b)[i] = b[i - (k - 1)] /\ i - (k - 1) \in 1 .. n - k
      BY <1>2, <1>5, <1>6, <1>8
    <2>2. b[i - (k - 1)] = q[i - (k - 1) + k]
      BY <1>6, <2>1
    <2> QED
      BY <1>2, <2>1, <2>2
  <1>11. Len(a \o b) = n - 1
    BY <1>2, <1>5, <1>6, <1>8
  <1> QED
    BY <1>2, <1>7, <1>8, <1>9, <1>10, <1>11

\* The deque without the identity that find_if found in it.
LEMMA RemoveKeeps ==
    ASSUME NEW q \in Seq(Worker), NEW id \in Range(q), IsInjective(q)
    PROVE  LET s == RemoveAt(q, Position(q, id)) IN
           /\ s \in Seq(Worker)
           /\ IsInjective(s)
           /\ Range(s) = Range(q) \ {id}
  <1> DEFINE k == Position(q, id)
             s == RemoveAt(q, k)
             n == Len(q)
  <1>1. n \in Nat /\ DOMAIN q = 1 .. n /\ \A i \in 1 .. n : q[i] \in Worker
    OBVIOUS
  <1>2. PICK p \in 1 .. n : q[p] = id
    BY <1>1 DEF Range
  <1>3. \A j \in 1 .. n : q[j] = id => p <= j
    BY <1>1, <1>2 DEF IsInjective
  <1>4. k \in 1 .. n /\ q[k] = id
    BY <1>1, <1>2, <1>3 DEF Position
  <1> HIDE DEF k
  <1>5. /\ s \in Seq(Worker)
        /\ Len(s) = n - 1
        /\ \A i \in 1 .. k - 1 : s[i] = q[i]
        /\ \A i \in k .. n - 1 : s[i] = q[i + 1]
    BY <1>4, RemoveAtProperties
  <1>6. DOMAIN s = 1 .. n - 1
    BY <1>1, <1>5
  <1> HIDE DEF s
  <1>7. IsInjective(s)
    <2> SUFFICES ASSUME NEW a \in 1 .. n - 1, NEW b \in 1 .. n - 1, s[a] = s[b]
                 PROVE  a = b
      BY <1>6 DEF IsInjective
    <2> DEFINE From(c) == IF c < k THEN c ELSE c + 1
    <2>1. \A c \in 1 .. n - 1 : From(c) \in 1 .. n /\ s[c] = q[From(c)]
      <3>1. ASSUME NEW c \in 1 .. n - 1, c < k PROVE From(c) \in 1 .. n /\ s[c] = q[From(c)]
        <4>1. c \in 1 .. k - 1 /\ c \in 1 .. n /\ From(c) = c
          BY <1>1, <1>4, <3>1
        <4> QED
          BY <1>5, <4>1
      <3>2. ASSUME NEW c \in 1 .. n - 1, ~ (c < k) PROVE From(c) \in 1 .. n /\ s[c] = q[From(c)]
        <4>1. c \in k .. n - 1 /\ c + 1 \in 1 .. n /\ From(c) = c + 1
          BY <1>1, <1>4, <3>2
        <4> QED
          BY <1>5, <4>1
      <3> QED
        BY <3>1, <3>2
    <2>2. From(a) = From(b)
      <3> HIDE DEF From
      <3> QED
        BY <1>1, <2>1 DEF IsInjective
    <2> QED
      BY <1>1, <1>4, <2>2
  <1>8. ASSUME NEW v \in Range(s) PROVE v \in Range(q) \ {id}
    <2>1. PICK j \in 1 .. n - 1 : s[j] = v
      BY <1>6 DEF Range
    <2>2. PICK i \in 1 .. n : i # k /\ q[i] = v
      BY <1>1, <1>4, <1>5, <2>1
    <2> QED
      BY <1>1, <1>4, <2>2 DEF Range, IsInjective
  <1>9. ASSUME NEW v \in Range(q), v # id PROVE v \in Range(s)
    <2>1. PICK j \in 1 .. n : q[j] = v
      BY <1>1 DEF Range
    <2>2. CASE j < k
      <3>1. j \in 1 .. n - 1 /\ s[j] = v
        BY <1>1, <1>4, <1>5, <2>1, <2>2
      <3> QED
        BY <1>6, <3>1 DEF Range
    <2>3. CASE j > k
      <3>1. j - 1 \in 1 .. n - 1 /\ s[j - 1] = v
        BY <1>1, <1>4, <1>5, <2>1, <2>3
      <3> QED
        BY <1>6, <3>1 DEF Range
    <2>4. j # k
      BY <1>4, <1>9, <2>1
    <2> QED
      BY <1>1, <1>4, <2>2, <2>3, <2>4
  <1> QED
    BY <1>5, <1>7, <1>8, <1>9 DEF s, k

----------------------------------------------------------------------------

Table == UNION {[S -> Expiry] : S \in SUBSET Worker}

Good(wk) == wk \in WorkersValue /\ Consistent(wk)

\* Dropping an entry of the table, and giving one its full time.
LEMMA TableKeeps ==
    ASSUME NEW t \in Table, NEW id \in Worker
    PROVE  /\ Forget(t, id) \in Table
           /\ DOMAIN Forget(t, id) = DOMAIN t \ {id}
           /\ Renew(t, id) \in Table
           /\ DOMAIN Renew(t, id) = DOMAIN t \cup {id}
  <1>1. PICK S \in SUBSET Worker : t \in [S -> Expiry]
    BY DEF Table
  <1>2. TTL \in Expiry
    BY TTLAssumption DEF Expiry, Expired
  <1>3. Forget(t, id) \in [S \ {id} -> Expiry]
    BY <1>1 DEF Forget, Restrict
  <1>4. Renew(t, id) \in [S \cup {id} -> Expiry]
    BY <1>1, <1>2 DEF Renew
  <1> QED
    BY <1>1, <1>3, <1>4 DEF Table

LEMMA EmptyGood == Good(NoWorkers)
  <1>1. << >> \in Seq(Worker) /\ DOMAIN << >> = {}
    OBVIOUS
  <1>2. << >> \in [{} -> Expiry]
    BY <1>1
  <1>3. NoWorkers \in WorkersValue
    BY <1>1, <1>2 DEF NoWorkers, WorkersValue
  <1> QED
    BY <1>1, <1>3 DEF Good, Consistent, NoWorkers, IsInjective, Range

\* erase removes the identity from both, whether it was there or not.
LEMMA EraseGood ==
    ASSUME NEW wk, Good(wk), NEW id \in Worker
    PROVE  Good(Erase(wk, id)) /\ ~ Knows(Erase(wk, id), id)
  <1>1. wk.queue \in Seq(Worker) /\ wk.lookup \in Table
    BY DEF Good, WorkersValue, Table
  <1>2. IsInjective(wk.queue) /\ Range(wk.queue) = DOMAIN wk.lookup
    BY DEF Good, Consistent
  <1> DEFINE e == Erase(wk, id)
  <1>3. /\ e.queue \in Seq(Worker)
        /\ IsInjective(e.queue)
        /\ Range(e.queue) = Range(wk.queue) \ {id}
    <2>1. CASE id \in Range(wk.queue)
      <3>1. e.queue = RemoveAt(wk.queue, Position(wk.queue, id))
        BY <2>1 DEF Erase
      <3> QED
        BY <1>1, <1>2, <2>1, <3>1, RemoveKeeps
    <2>2. CASE id \notin Range(wk.queue)
      BY <1>1, <1>2, <2>2 DEF Erase
    <2> QED
      BY <2>1, <2>2
  <1>4. e.lookup \in Table /\ DOMAIN e.lookup = DOMAIN wk.lookup \ {id}
    BY <1>1, TableKeeps DEF Erase
  <1>5. e = [queue |-> e.queue, lookup |-> e.lookup]
    BY DEF Erase
  <1> HIDE DEF e
  <1>6. e \in WorkersValue
    BY <1>3, <1>4, <1>5 DEF WorkersValue, Table
  <1>7. Good(e) /\ ~ Knows(e, id)
    BY <1>2, <1>3, <1>4, <1>6 DEF Good, Consistent, Knows
  <1> QED
    BY <1>7 DEF e

\* erase removes nobody else.
LEMMA EraseRange ==
    ASSUME NEW wk, Good(wk), NEW id \in Worker
    PROVE  Range(Erase(wk, id).queue) = Range(wk.queue) \ {id}
  <1>1. wk.queue \in Seq(Worker) /\ IsInjective(wk.queue)
    BY DEF Good, WorkersValue, Consistent
  <1>2. CASE id \in Range(wk.queue)
    <2>1. Erase(wk, id).queue = RemoveAt(wk.queue, Position(wk.queue, id))
      BY <1>2 DEF Erase
    <2> QED
      BY <1>1, <1>2, <2>1, RemoveKeeps
  <1>3. CASE id \notin Range(wk.queue)
    BY <1>3 DEF Erase
  <1> QED
    BY <1>2, <1>3

\* push keeps the two in step because its assert demands a new identity.
LEMMA PushGood ==
    ASSUME NEW wk, Good(wk), NEW id \in Worker, PushAllowed(wk, id)
    PROVE  /\ Good(Push(wk, id))
           /\ Push(wk, id).queue # << >>
           /\ Range(Push(wk, id).queue) = Range(wk.queue) \cup {id}
  <1>1. wk.queue \in Seq(Worker) /\ wk.lookup \in Table
    BY DEF Good, WorkersValue, Table
  <1>2. /\ IsInjective(wk.queue)
        /\ Range(wk.queue) = DOMAIN wk.lookup
        /\ id \notin Range(wk.queue)
    BY DEF Good, Consistent, PushAllowed, Knows
  <1>3. /\ Append(wk.queue, id) \in Seq(Worker)
        /\ IsInjective(Append(wk.queue, id))
        /\ Range(Append(wk.queue, id)) = Range(wk.queue) \cup {id}
    BY <1>1, <1>2, PushMembers, AppendPositions
  <1>4. /\ Renew(wk.lookup, id) \in Table
        /\ DOMAIN Renew(wk.lookup, id) = DOMAIN wk.lookup \cup {id}
    BY <1>1, TableKeeps
  <1>5. Push(wk, id) \in WorkersValue
    BY <1>3, <1>4 DEF Push, WorkersValue, Table
  <1>6. Append(wk.queue, id) # << >>
    BY <1>1
  <1> QED
    BY <1>2, <1>3, <1>4, <1>5, <1>6 DEF Good, Consistent, Push

LEMMA TryPushGood ==
    ASSUME NEW wk, Good(wk), NEW id \in Worker
    PROVE  /\ Good(TryPush(wk, id))
           /\ Range(wk.queue) \subseteq Range(TryPush(wk, id).queue)
           /\ wk.queue # << >> => TryPush(wk, id).queue # << >>
  BY PushGood DEF TryPush, PushAllowed

\* refresh adds nobody because its assert demands a known identity.
LEMMA RefreshGood ==
    ASSUME NEW wk, Good(wk), NEW id \in Worker, RefreshAllowed(wk, id)
    PROVE  Good(Refresh(wk, id)) /\ Refresh(wk, id).queue = wk.queue
  <1>1. /\ wk \in [queue : Seq(Worker), lookup : Table]
        /\ IsInjective(wk.queue)
        /\ Range(wk.queue) = DOMAIN wk.lookup
        /\ id \in DOMAIN wk.lookup
    BY DEF Good, WorkersValue, Table, Consistent, RefreshAllowed, Knows
  <1>2. /\ Renew(wk.lookup, id) \in Table
        /\ DOMAIN Renew(wk.lookup, id) = DOMAIN wk.lookup
    <2>1. wk.lookup \in Table
      BY <1>1
    <2>2. /\ Renew(wk.lookup, id) \in Table
          /\ DOMAIN Renew(wk.lookup, id) = DOMAIN wk.lookup \cup {id}
      BY <2>1, TableKeeps
    <2> QED
      BY <1>1, <2>2
  <1>3. /\ Refresh(wk, id) \in WorkersValue
        /\ Refresh(wk, id).queue = wk.queue
        /\ Refresh(wk, id).lookup = Renew(wk.lookup, id)
    BY <1>1, <1>2 DEF Refresh, WorkersValue, Table
  <1> QED
    BY <1>1, <1>2, <1>3 DEF Good, Consistent

\* What pop does, and what purge's loop does to an expired front.
LEMMA DropFrontGood ==
    ASSUME NEW wk, Good(wk), wk.queue # << >>
    PROVE  LET d == [queue |-> Tail(wk.queue),
                     lookup |-> Forget(wk.lookup, FrontId(wk))] IN
           Good(d) /\ Range(d.queue) = Range(wk.queue) \ {Head(wk.queue)}
  <1>1. wk.queue \in Seq(Worker) /\ wk.lookup \in Table
    BY DEF Good, WorkersValue, Table
  <1>2. IsInjective(wk.queue) /\ Range(wk.queue) = DOMAIN wk.lookup
    BY DEF Good, Consistent
  <1>3. /\ Tail(wk.queue) \in Seq(Worker)
        /\ IsInjective(Tail(wk.queue))
        /\ Range(Tail(wk.queue)) = Range(wk.queue) \ {Head(wk.queue)}
    BY <1>1, <1>2, PopMembers, TailPositions
  <1>4. Head(wk.queue) \in Worker
    BY <1>1
  <1>5. /\ Forget(wk.lookup, FrontId(wk)) \in Table
        /\ DOMAIN Forget(wk.lookup, FrontId(wk)) = DOMAIN wk.lookup \ {Head(wk.queue)}
    BY <1>1, <1>4, TableKeeps DEF FrontId
  <1> QED
    BY <1>2, <1>3, <1>5 DEF Good, Consistent, WorkersValue, Table

\* What purge's loop does to a front that is alive.
LEMMA RotateGood ==
    ASSUME NEW wk, Good(wk), wk.queue # << >>
    PROVE  LET r == [wk EXCEPT !.queue = Append(Tail(wk.queue), FrontId(wk))] IN
           Good(r) /\ Range(r.queue) = Range(wk.queue)
  <1>1. wk \in [queue : Seq(Worker), lookup : Table]
    BY DEF Good, WorkersValue, Table
  <1>2. IsInjective(wk.queue) /\ Range(wk.queue) = DOMAIN wk.lookup
    BY DEF Good, Consistent
  <1>3. /\ Tail(wk.queue) \in Seq(Worker)
        /\ IsInjective(Tail(wk.queue))
        /\ Range(Tail(wk.queue)) = Range(wk.queue) \ {Head(wk.queue)}
    BY <1>1, <1>2, PopMembers, TailPositions
  <1>4. Head(wk.queue) \in Worker /\ Head(wk.queue) \in Range(wk.queue)
    <2>1. 1 \in DOMAIN wk.queue /\ Head(wk.queue) = wk.queue[1]
      BY <1>1
    <2> QED
      BY <1>1, <2>1 DEF Range
  <1> DEFINE q == Append(Tail(wk.queue), Head(wk.queue))
  <1>5. /\ q \in Seq(Worker)
        /\ IsInjective(q)
        /\ Range(q) = Range(Tail(wk.queue)) \cup {Head(wk.queue)}
    <2>1. q \in Seq(Worker)
      BY <1>3, <1>4
    <2> DEFINE t == Tail(wk.queue)
               h == Head(wk.queue)
    <2>2. t \in Seq(Worker) /\ IsInjective(t) /\ h \in Worker /\ h \notin Range(t)
      BY <1>3, <1>4
    <2> HIDE DEF t, h
    <2>3. IsInjective(Append(t, h)) /\ Range(Append(t, h)) = Range(t) \cup {h}
      BY <2>2, PushMembers
    <2> QED
      BY <2>1, <2>3 DEF t, h
  <1>6. Range(q) = Range(wk.queue)
    BY <1>3, <1>4, <1>5
  <1> HIDE DEF q
  <1>7. Good([wk EXCEPT !.queue = q])
    BY <1>1, <1>2, <1>5, <1>6 DEF Good, Consistent, WorkersValue, Table
  <1> QED
    BY <1>1, <1>6, <1>7 DEF q, FrontId

LEMMA PopGood ==
    ASSUME NEW wk, Good(wk)
    PROVE  Good(Pop(wk))
  BY DropFrontGood DEF Pop, Empty

\* One round of purge's loop drops at most the front, and only when expired.
LEMMA PurgeBodyGood ==
    ASSUME NEW wk, Good(wk), wk.queue # << >>
    PROVE  /\ Good(PurgeBody(wk))
           /\ \A w \in Range(wk.queue) \ Range(PurgeBody(wk).queue) :
                  wk.lookup[w] = Expired
  <1>1. CASE IsExpired(wk, FrontId(wk))
    BY <1>1, DropFrontGood DEF PurgeBody, IsExpired, FrontId
  <1>2. CASE ~ IsExpired(wk, FrontId(wk))
    BY <1>2, RotateGood DEF PurgeBody
  <1> QED
    BY <1>1, <1>2

LEMMA ClockTickGood ==
    ASSUME NEW wk, Good(wk)
    PROVE  Good(ClockTick(wk)) /\ ClockTick(wk).queue = wk.queue
  <1>1. /\ wk \in [queue : Seq(Worker), lookup : Table]
        /\ IsInjective(wk.queue)
        /\ Range(wk.queue) = DOMAIN wk.lookup
    BY DEF Good, WorkersValue, Table, Consistent
  <1>2. PICK S \in SUBSET Worker : wk.lookup \in [S -> Expiry]
    BY <1>1 DEF Table
  <1> DEFINE t == [id \in DOMAIN wk.lookup |->
                      IF wk.lookup[id] = Expired THEN Expired ELSE wk.lookup[id] - 1]
  <1>3. t \in [S -> Expiry]
    <2> SUFFICES ASSUME NEW id \in S PROVE t[id] \in Expiry
      BY <1>2
    <2>1. wk.lookup[id] \in Expiry
      BY <1>2
    <2>2. t[id] = IF wk.lookup[id] = Expired THEN Expired ELSE wk.lookup[id] - 1
      BY <1>2
    <2>3. CASE wk.lookup[id] = Expired
      BY <2>1, <2>2, <2>3
    <2>4. CASE wk.lookup[id] # Expired
      BY TTLAssumption, <2>1, <2>2, <2>4 DEF Expiry, Expired
    <2> QED
      BY <2>3, <2>4
  <1>4. t \in Table /\ DOMAIN t = DOMAIN wk.lookup
    BY <1>3 DEF Table
  <1> HIDE DEF t
  <1>5. Good([wk EXCEPT !.lookup = t])
    BY <1>1, <1>4 DEF Good, Consistent, WorkersValue, Table
  <1> QED
    BY <1>1, <1>5 DEF ClockTick, t

----------------------------------------------------------------------------
(***************************************************************************)
(* The queue and its workers.                                              *)
(***************************************************************************)

\* A worker that polls or works has polls left, and one that works has a
\* request to reply to.
Patient ==
    \A w \in Worker :
        /\ wpc[w] \in {"polling", "working"} => liveness[w] >= 1
        /\ wpc[w] = "working" => job[w] \in Request

\* What every step keeps.  IdleConsistent is what makes workers.front() and the
\* asserted preconditions of push sound, FrontDefined needs it to know that
\* handling a backend message never empties the deque, and Patient keeps the
\* worker's countdown and its replies within their types.
IInv == TypeOK /\ IdleConsistent /\ FrontDefined /\ Patient

\* The part of TypeOK that is not about workers_t.
TypeRest ==
    /\ qpc \in {"poll", "frontend", "beat", "purge", "aborted"}
    /\ revents \in BOOLEAN
    /\ qdue \in BOOLEAN
    /\ index \in Nat
    /\ restarts \in Nat
    /\ frontend \in Seq(Request)
    /\ toQueue \in [Worker -> Seq(Message)]
    /\ toWorker \in [Worker -> Seq({HEARTBEAT} \cup Request)]
    /\ wpc \in [Worker -> {"down", "polling", "working", "sleeping", "exited"}]
    /\ job \in [Worker -> Request \cup {NoJob}]
    /\ liveness \in [Worker -> 0 .. LIVENESS]
    /\ elapsed \in [Worker -> BOOLEAN]
    /\ sent \in SUBSET Request
    /\ answers \in [Request -> Nat]

LEMMA Parts == IInv <=> Good(ws) /\ TypeRest /\ FrontDefined /\ Patient
  BY DEF IInv, TypeOK, TypeRest, Good, IdleConsistent

LEMMA InitIInv == Init => IInv
  <1> SUFFICES ASSUME Init PROVE IInv
    OBVIOUS
  <1>1. Good(ws)
    BY EmptyGood DEF Init
  <1>2. /\ << >> \in Seq(Request)
        /\ << >> \in Seq(Message)
        /\ << >> \in Seq({HEARTBEAT} \cup Request)
        /\ 0 \in 0 .. LIVENESS
    BY LivenessAssumption
  <1>3. /\ toQueue \in [Worker -> Seq(Message)]
        /\ toWorker \in [Worker -> Seq({HEARTBEAT} \cup Request)]
        /\ liveness \in [Worker -> 0 .. LIVENESS]
    BY <1>2 DEF Init
  <1>4. /\ wpc \in [Worker -> {"down", "polling", "working", "sleeping", "exited"}]
        /\ job \in [Worker -> Request \cup {NoJob}]
        /\ elapsed \in [Worker -> BOOLEAN]
        /\ answers \in [Request -> Nat]
    BY DEF Init
  <1>5. TypeRest
    BY <1>2, <1>3, <1>4 DEF Init, TypeRest
  <1>6. FrontDefined /\ Patient
    BY DEF Init, FrontDefined, Patient
  <1> QED
    BY <1>1, <1>5, <1>6, Parts

LEMMA PartsNext ==
    ASSUME Good(ws'), TypeRest', FrontDefined', Patient' PROVE IInv'
  BY DEF IInv, TypeOK, TypeRest, Good, IdleConsistent

LEMMA HandleReadyKeeps ==
    ASSUME IInv, NEW w \in Worker, HandleReady(w) PROVE IInv'
  <1>1. Good(ws) /\ TypeRest /\ FrontDefined /\ Patient
    BY Parts
  <1>2. Good(Erase(ws, w)) /\ PushAllowed(Erase(ws, w), w)
    BY <1>1, EraseGood DEF PushAllowed
  <1>3. ws' = Push(Erase(ws, w), w) /\ qpc' = "frontend"
    BY <1>2 DEF HandleReady
  <1>4. Good(ws') /\ ws'.queue # << >>
    BY <1>2, <1>3, PushGood
  <1>5. TypeRest' /\ Patient'
    BY <1>1, <1>3 DEF HandleReady, ReceiveFrom, TypeRest, Patient, workerVars,
       FrontendReady
  <1>6. FrontDefined'
    BY <1>3, <1>4 DEF HandleReady, ReceiveFrom, FrontDefined, FrontendReady
  <1> QED
    BY <1>4, <1>5, <1>6, PartsNext

LEMMA HandleHeartbeatKeeps ==
    ASSUME IInv, NEW w \in Worker, HandleHeartbeat(w) PROVE IInv'
  <1>1. Good(ws) /\ TypeRest /\ FrontDefined /\ Patient
    BY Parts
  <1>2. Good(ws') /\ ws'.queue = ws.queue
    BY <1>1, RefreshGood DEF HandleHeartbeat
  <1>3. TypeRest' /\ Patient'
    BY <1>1 DEF HandleHeartbeat, ReceiveFrom, TypeRest, Patient, workerVars,
       FrontendReady
  <1>4. FrontDefined'
    BY <1>2 DEF HandleHeartbeat, ReceiveFrom, FrontDefined, FrontendReady, Empty
  <1> QED
    BY <1>2, <1>3, <1>4, PartsNext

LEMMA HandleReplyKeeps ==
    ASSUME IInv, NEW w \in Worker, HandleReply(w) PROVE IInv'
  <1>1. Good(ws) /\ TypeRest /\ FrontDefined /\ Patient
    BY Parts
  <1>2. Good(ws') /\ (ws.queue # << >> => ws'.queue # << >>)
    BY <1>1, TryPushGood DEF HandleReply
  <1>3. TypeRest' /\ Patient'
    BY <1>1 DEF HandleReply, ReceiveFrom, TypeRest, Patient, workerVars,
       FrontendReady
  <1>4. FrontDefined'
    BY <1>2 DEF HandleReply, ReceiveFrom, FrontDefined, FrontendReady, Empty
  <1> QED
    BY <1>2, <1>3, <1>4, PartsNext

\* What the queue sends to workers is typed; it changes no other channel.
LEMMA SendToWorkersTyped ==
    ASSUME toWorker \in [Worker -> Seq({HEARTBEAT} \cup Request)],
           NEW S, NEW m \in {HEARTBEAT} \cup Request, SendToWorkers(S, m)
    PROVE  toWorker' \in [Worker -> Seq({HEARTBEAT} \cup Request)]
  BY DEF SendToWorkers

LEMMA ForwardRequestKeeps ==
    ASSUME IInv, ForwardRequest PROVE IInv'
  <1>1. Good(ws) /\ TypeRest /\ FrontDefined /\ Patient
    BY Parts
  <1>2. Good(ws')
    BY <1>1, PopGood DEF ForwardRequest
  <1>3. frontend # << >> /\ Head(frontend) \in Request /\ Tail(frontend) \in Seq(Request)
    BY <1>1 DEF ForwardRequest, FrontDefined, TypeRest
  <1>4. toWorker' \in [Worker -> Seq({HEARTBEAT} \cup Request)]
    BY <1>1, <1>3, SendToWorkersTyped DEF ForwardRequest, TypeRest
  <1>5. TypeRest' /\ Patient'
    BY <1>1, <1>3, <1>4 DEF ForwardRequest, TypeRest, Patient, workerVars
  <1>6. FrontDefined'
    BY DEF ForwardRequest, FrontDefined
  <1> QED
    BY <1>2, <1>5, <1>6, PartsNext

LEMMA SendHeartbeatsKeeps ==
    ASSUME IInv, SendHeartbeats PROVE IInv'
  <1>1. Good(ws) /\ TypeRest /\ FrontDefined /\ Patient
    BY Parts
  <1>2. toWorker' \in [Worker -> Seq({HEARTBEAT} \cup Request)]
    BY <1>1, SendToWorkersTyped DEF SendHeartbeats, TypeRest
  <1>3. Good(ws')
    BY <1>1 DEF SendHeartbeats
  <1>4. TypeRest' /\ Patient'
    BY <1>1, <1>2 DEF SendHeartbeats, TypeRest, Patient, workerVars
  <1>5. FrontDefined'
    BY DEF SendHeartbeats, FrontDefined
  <1> QED
    BY <1>3, <1>4, <1>5, PartsNext

LEMMA PurgeOneKeeps ==
    ASSUME IInv, PurgeOne PROVE IInv'
  <1>1. Good(ws) /\ TypeRest /\ FrontDefined /\ Patient
    BY Parts
  <1>2. ws.queue # << >>
    BY <1>1 DEF PurgeOne, PurgeMore, TypeRest
  <1>3. Good(ws')
    BY <1>1, <1>2, PurgeBodyGood DEF PurgeOne
  <1>4. TypeRest' /\ Patient'
    BY <1>1 DEF PurgeOne, TypeRest, Patient, workerVars
  <1>5. FrontDefined'
    BY DEF PurgeOne, FrontDefined
  <1> QED
    BY <1>3, <1>4, <1>5, PartsNext

LEMMA RestartKeeps ==
    ASSUME IInv, Restart PROVE IInv'
  <1>1. Good(ws) /\ TypeRest /\ FrontDefined /\ Patient
    BY Parts
  <1>2. Good(ws')
    BY EmptyGood DEF Restart
  <1>3. toQueue' \in [Worker -> Seq(Message)]
    <2> SUFFICES ASSUME NEW w \in Worker PROVE LateParts(toQueue[w]) \subseteq Seq(Message)
      BY DEF Restart
    <2>1. toQueue[w] \in Seq(Message)
      BY <1>1 DEF TypeRest
    <2>2. ASSUME NEW n \in 1 .. Len(toQueue[w]) + 1
          PROVE  SubSeq(toQueue[w], n, Len(toQueue[w])) \in Seq(Message)
      BY <2>1, SubSeqProperties
    <2> QED
      BY <2>2 DEF LateParts
  <1>4. TypeRest'
    <2>1. << >> \in Seq(Request) /\ 0 \in Nat /\ restarts + 1 \in Nat
      BY <1>1 DEF TypeRest
    <2> QED
      BY <1>1, <1>3, <2>1 DEF Restart, TypeRest, workerVars
  <1>5. Patient'
    BY <1>1 DEF Restart, Patient, workerVars
  <1>6. FrontDefined'
    BY DEF Restart, FrontDefined
  <1> QED
    BY <1>2, <1>4, <1>5, <1>6, PartsNext

\* The actions of the loop that leave workers_t as it is and send nothing.
LEMMA QuietLoopKeeps ==
    ASSUME IInv, PollNoBackend \/ NoRequest \/ NobodyToBeat \/ PurgeDone
    PROVE  IInv'
  <1>1. Good(ws) /\ TypeRest /\ FrontDefined /\ Patient
    BY Parts
  <1>2. Good(ws')
    BY <1>1 DEF PollNoBackend, NoRequest, NobodyToBeat, PurgeDone
  <1>3. TypeRest'
    <2>1. CASE PollNoBackend
      BY <1>1, <2>1 DEF PollNoBackend, TypeRest, workerVars, FrontendReady
    <2>2. CASE NoRequest \/ NobodyToBeat
      BY <1>1, <2>2 DEF NoRequest, NobodyToBeat, TypeRest, workerVars
    <2>3. CASE PurgeDone
      BY <1>1, <2>3 DEF PurgeDone, TypeRest, workerVars
    <2> QED
      BY <2>1, <2>2, <2>3
  <1>4. Patient'
    BY <1>1 DEF PollNoBackend, NoRequest, NobodyToBeat, PurgeDone, Patient, workerVars
  <1>5. FrontDefined'
    BY DEF PollNoBackend, NoRequest, NobodyToBeat, PurgeDone, FrontDefined,
       FrontendReady, Empty
  <1> QED
    BY <1>2, <1>3, <1>4, <1>5, PartsNext

LEMMA TickKeeps ==
    ASSUME IInv, Tick PROVE IInv'
  <1>1. Good(ws) /\ TypeRest /\ FrontDefined /\ Patient
    BY Parts
  <1>2. Good(ws')
    BY <1>1, ClockTickGood DEF Tick
  <1>3. TypeRest' /\ Patient'
    BY <1>1 DEF Tick, TypeRest, Patient, workerVars, Running
  <1>4. FrontDefined'
    BY DEF Tick, FrontDefined
  <1> QED
    BY <1>2, <1>3, <1>4, PartsNext

LEMMA SubmitKeeps ==
    ASSUME IInv, NEW r \in Request, Submit(r) PROVE IInv'
  <1>1. Good(ws) /\ TypeRest /\ FrontDefined /\ Patient
    BY Parts
  <1>2. Good(ws')
    BY <1>1 DEF Submit, queueVars
  <1>3. TypeRest' /\ Patient'
    BY <1>1 DEF Submit, TypeRest, Patient, queueVars, workerVars
  <1>4. FrontDefined'
    BY <1>1 DEF Submit, FrontDefined, queueVars, TypeRest
  <1> QED
    BY <1>2, <1>3, <1>4, PartsNext

\* No action of a worker touches the queue's state or its frontend.
LEMMA WorkerKeeps ==
    ASSUME IInv, UNCHANGED <<queueVars, frontend, sent, answers>>,
           toQueue' \in [Worker -> Seq(Message)],
           toWorker' \in [Worker -> Seq({HEARTBEAT} \cup Request)],
           wpc' \in [Worker -> {"down", "polling", "working", "sleeping", "exited"}],
           job' \in [Worker -> Request \cup {NoJob}],
           liveness' \in [Worker -> 0 .. LIVENESS],
           elapsed' \in [Worker -> BOOLEAN],
           Patient'
    PROVE  IInv'
  <1>1. Good(ws) /\ TypeRest /\ FrontDefined /\ Patient
    BY Parts
  <1>2. Good(ws')
    BY <1>1 DEF queueVars
  <1>3. TypeRest'
    BY <1>1 DEF TypeRest, queueVars
  <1>4. FrontDefined'
    BY <1>1 DEF FrontDefined, queueVars
  <1> QED
    BY <1>2, <1>3, <1>4, PartsNext

\* What a worker sends to the queue is typed.
LEMMA SendToQueueTyped ==
    ASSUME toQueue \in [Worker -> Seq(Message)], NEW w \in Worker,
           NEW msgs \in Seq(Message), SendToQueue(w, msgs)
    PROVE  toQueue' \in [Worker -> Seq(Message)]
  <1>1. toQueue[w] \o msgs \in Seq(Message)
    BY ConcatProperties
  <1> QED
    BY <1>1 DEF SendToQueue

LEMMA MessagesTyped ==
    ASSUME NEW w \in Worker
    PROVE  /\ HeartbeatIfDue(w) \in Seq(Message)
           /\ Greeting \in Seq(Message)
           /\ Greeting \o HeartbeatIfDue(w) \in Seq(Message)
           /\ \A r \in Request : <<r>> \o HeartbeatIfDue(w) \in Seq(Message)
  <1>1. HeartbeatIfDue(w) \in Seq(Message) /\ Greeting \in Seq(Message)
    <2>1. HEARTBEAT \in Message /\ READY \in Message
      BY DEF Message
    <2>2. <<HEARTBEAT>> \in Seq(Message) /\ <<READY>> \in Seq(Message)
      BY <2>1
    <2>3. << >> \in Seq(Message)
      OBVIOUS
    <2> QED
      BY <2>2, <2>3 DEF HeartbeatIfDue, Greeting
  <1>2. \A r \in Request : <<r>> \in Seq(Message)
    BY DEF Message
  <1> QED
    BY <1>1, <1>2, ConcatProperties

LEMMA StartKeeps ==
    ASSUME IInv, NEW w \in Worker, Start(w) PROVE IInv'
  <1>1. TypeRest /\ Patient
    BY Parts
  <1>2. toQueue' \in [Worker -> Seq(Message)]
    BY <1>1, MessagesTyped, SendToQueueTyped DEF Start, TypeRest
  <1>3. /\ wpc' = [wpc EXCEPT ![w] = "polling"]
        /\ liveness' = [liveness EXCEPT ![w] = LIVENESS]
        /\ LIVENESS \in 0 .. LIVENESS /\ LIVENESS >= 1
    BY LivenessAssumption DEF Start
  <1>4. Patient'
    BY <1>1, <1>3 DEF Start, Patient, TypeRest
  <1>5. wpc' \in [Worker -> {"down", "polling", "working", "sleeping", "exited"}]
    BY <1>1, <1>3 DEF TypeRest
  <1>6. liveness' \in [Worker -> 0 .. LIVENESS]
    BY <1>1, <1>3 DEF TypeRest
  <1> QED
    BY <1>1, <1>2, <1>4, <1>5, <1>6, WorkerKeeps DEF Start, TypeRest

LEMMA ReceiveTyped ==
    ASSUME TypeRest, NEW w \in Worker, WorkerReceives(w)
    PROVE  /\ wpc[w] = "polling"
           /\ toWorker' \in [Worker -> Seq({HEARTBEAT} \cup Request)]
  <1>1. toWorker[w] \in Seq({HEARTBEAT} \cup Request) /\ toWorker[w] # << >>
    BY DEF TypeRest, WorkerReceives
  <1>2. Tail(toWorker[w]) \in Seq({HEARTBEAT} \cup Request)
    BY <1>1, HeadTailProperties
  <1> QED
    BY <1>2 DEF TypeRest, WorkerReceives

LEMMA TakeRequestKeeps ==
    ASSUME IInv, NEW w \in Worker, TakeRequest(w) PROVE IInv'
  <1>1. TypeRest /\ Patient
    BY Parts
  <1>2. wpc[w] = "polling" /\ toWorker' \in [Worker -> Seq({HEARTBEAT} \cup Request)]
    BY <1>1, ReceiveTyped DEF TakeRequest
  <1>3. PICK r \in Request : job' = [job EXCEPT ![w] = r]
    BY DEF TakeRequest
  <1>4. wpc' = [wpc EXCEPT ![w] = "working"]
    BY DEF TakeRequest
  <1>5. Patient'
    BY <1>1, <1>2, <1>3, <1>4 DEF TakeRequest, Patient, TypeRest
  <1>6. /\ job' \in [Worker -> Request \cup {NoJob}]
        /\ wpc' \in [Worker -> {"down", "polling", "working", "sleeping", "exited"}]
        /\ elapsed' \in [Worker -> BOOLEAN]
    BY <1>1, <1>3, <1>4 DEF TakeRequest, TypeRest
  <1> QED
    BY <1>1, <1>2, <1>5, <1>6, WorkerKeeps DEF TakeRequest, TypeRest

LEMMA TakeHeartbeatKeeps ==
    ASSUME IInv, NEW w \in Worker, TakeHeartbeat(w) PROVE IInv'
  <1>1. TypeRest /\ Patient
    BY Parts
  <1>2. wpc[w] = "polling" /\ toWorker' \in [Worker -> Seq({HEARTBEAT} \cup Request)]
    BY <1>1, ReceiveTyped DEF TakeHeartbeat
  <1>3. toQueue' \in [Worker -> Seq(Message)]
    BY <1>1, MessagesTyped, SendToQueueTyped DEF TakeHeartbeat, TypeRest
  <1>4. /\ liveness' = [liveness EXCEPT ![w] = LIVENESS]
        /\ LIVENESS \in 0 .. LIVENESS /\ LIVENESS >= 1
    BY LivenessAssumption DEF TakeHeartbeat
  <1>5. Patient'
    BY <1>1, <1>4 DEF TakeHeartbeat, Patient, TypeRest
  <1>6. liveness' \in [Worker -> 0 .. LIVENESS] /\ elapsed' \in [Worker -> BOOLEAN]
    BY <1>1, <1>4 DEF TakeHeartbeat, TypeRest
  <1> QED
    BY <1>1, <1>2, <1>3, <1>5, <1>6, WorkerKeeps DEF TakeHeartbeat, TypeRest

LEMMA SendReplyKeeps ==
    ASSUME IInv, NEW w \in Worker, SendReply(w) PROVE IInv'
  <1>1. TypeRest /\ Patient
    BY Parts
  <1>2. job[w] \in Request
    BY <1>1 DEF Patient, SendReply
  <1>3. toQueue' \in [Worker -> Seq(Message)]
    BY <1>1, <1>2, MessagesTyped, SendToQueueTyped DEF SendReply, TypeRest
  <1>4. /\ liveness' = [liveness EXCEPT ![w] = LIVENESS]
        /\ wpc' = [wpc EXCEPT ![w] = "polling"]
        /\ job' = [job EXCEPT ![w] = NoJob]
        /\ LIVENESS \in 0 .. LIVENESS /\ LIVENESS >= 1
    BY LivenessAssumption DEF SendReply
  <1>5. Patient'
    BY <1>1, <1>4 DEF Patient, TypeRest
  <1>6. /\ liveness' \in [Worker -> 0 .. LIVENESS]
        /\ job' \in [Worker -> Request \cup {NoJob}]
        /\ wpc' \in [Worker -> {"down", "polling", "working", "sleeping", "exited"}]
        /\ elapsed' \in [Worker -> BOOLEAN]
    BY <1>1, <1>4 DEF SendReply, TypeRest
  <1> QED
    BY <1>1, <1>3, <1>5, <1>6, WorkerKeeps DEF SendReply, TypeRest

LEMMA PollTimeoutKeeps ==
    ASSUME IInv, NEW w \in Worker, PollTimeout(w) PROVE IInv'
  <1>1. TypeRest /\ Patient
    BY Parts
  <1>2. liveness[w] \in 1 .. LIVENESS
    BY <1>1, LivenessAssumption DEF TypeRest, Patient, PollTimeout
  <1>3. liveness' = [liveness EXCEPT ![w] = liveness[w] - 1]
    BY DEF PollTimeout
  <1>4. liveness' \in [Worker -> 0 .. LIVENESS] /\ elapsed' \in [Worker -> BOOLEAN]
    BY <1>1, <1>2, <1>3, LivenessAssumption DEF PollTimeout, TypeRest
  <1>5. CASE OutOfLiveness(w)
    <2>1. /\ wpc' = [wpc EXCEPT ![w] = "sleeping"]
          /\ toWorker' = [toWorker EXCEPT ![w] = << >>]
          /\ UNCHANGED <<queueVars, frontend, toQueue, job, sent, answers>>
      BY <1>5 DEF PollTimeout
    <2>2. toWorker' \in [Worker -> Seq({HEARTBEAT} \cup Request)]
      <3>1. << >> \in Seq({HEARTBEAT} \cup Request)
        OBVIOUS
      <3> QED
        BY <1>1, <2>1, <3>1 DEF TypeRest
    <2>3. Patient'
      BY <1>1, <1>3, <2>1 DEF Patient, TypeRest
    <2>4. wpc' \in [Worker -> {"down", "polling", "working", "sleeping", "exited"}]
      BY <1>1, <2>1 DEF TypeRest
    <2> QED
      BY <1>1, <1>4, <2>1, <2>2, <2>3, <2>4, WorkerKeeps DEF TypeRest
  <1>6. CASE ~ OutOfLiveness(w)
    <2>1. /\ SendToQueue(w, HeartbeatIfDue(w))
          /\ UNCHANGED <<queueVars, frontend, toWorker, wpc, job, sent, answers>>
      BY <1>6 DEF PollTimeout
    <2>2. toQueue' \in [Worker -> Seq(Message)]
      BY <1>1, <2>1, MessagesTyped, SendToQueueTyped DEF TypeRest
    <2>3. liveness[w] - 1 >= 1
      BY <1>2, <1>6 DEF OutOfLiveness
    <2>4. Patient'
      BY <1>1, <1>3, <2>1, <2>3 DEF Patient, TypeRest
    <2> QED
      BY <1>1, <1>4, <2>1, <2>2, <2>4, WorkerKeeps DEF TypeRest
  <1> QED
    BY <1>5, <1>6

\* The first n messages of a channel.
LEMMA PrefixTyped ==
    ASSUME NEW s \in Seq(Message), NEW n \in 0 .. Len(s)
    PROVE  SubSeq(s, 1, n) \in Seq(Message)
  BY SubSeqProperties

LEMMA ReconnectKeeps ==
    ASSUME IInv, NEW w \in Worker, Reconnect(w) PROVE IInv'
  <1>1. TypeRest /\ Patient
    BY Parts
  <1>2. toQueue[w] \in Seq(Message)
    BY <1>1 DEF TypeRest
  <1>3. PICK n \in 0 .. Len(toQueue[w]) :
            toQueue' = [toQueue EXCEPT
                ![w] = SubSeq(toQueue[w], 1, n) \o Greeting \o HeartbeatIfDue(w)]
    BY DEF Reconnect
  <1>4. SubSeq(toQueue[w], 1, n) \o Greeting \o HeartbeatIfDue(w) \in Seq(Message)
    <2>1. SubSeq(toQueue[w], 1, n) \in Seq(Message)
      BY <1>2, PrefixTyped
    <2>2. SubSeq(toQueue[w], 1, n) \o Greeting \in Seq(Message)
      BY <2>1, MessagesTyped, ConcatProperties
    <2> QED
      BY <2>2, MessagesTyped, ConcatProperties
  <1>5. toQueue' \in [Worker -> Seq(Message)]
    BY <1>1, <1>3, <1>4 DEF TypeRest
  <1>6. /\ wpc' = [wpc EXCEPT ![w] = "polling"]
        /\ liveness' = [liveness EXCEPT ![w] = LIVENESS]
        /\ LIVENESS \in 0 .. LIVENESS /\ LIVENESS >= 1
    BY LivenessAssumption DEF Reconnect
  <1>7. Patient'
    BY <1>1, <1>6 DEF Reconnect, Patient, TypeRest
  <1>8. /\ wpc' \in [Worker -> {"down", "polling", "working", "sleeping", "exited"}]
        /\ liveness' \in [Worker -> 0 .. LIVENESS]
        /\ elapsed' \in [Worker -> BOOLEAN]
    BY <1>1, <1>6 DEF Reconnect, TypeRest
  <1> QED
    BY <1>1, <1>5, <1>7, <1>8, WorkerKeeps DEF Reconnect, TypeRest

LEMMA ExitKeeps ==
    ASSUME IInv, NEW w \in Worker, Exit(w) PROVE IInv'
  <1>1. TypeRest /\ Patient
    BY Parts
  <1>2. toQueue[w] \in Seq(Message)
    BY <1>1 DEF TypeRest
  <1>3. PICK n \in 0 .. Len(toQueue[w]) :
            toQueue' = [toQueue EXCEPT ![w] = SubSeq(toQueue[w], 1, n)]
    BY DEF Exit
  <1>4. toQueue' \in [Worker -> Seq(Message)]
    BY <1>1, <1>2, <1>3, PrefixTyped DEF TypeRest
  <1>5. << >> \in Seq({HEARTBEAT} \cup Request) /\ 0 \in 0 .. LIVENESS
    BY LivenessAssumption
  <1>6. toWorker' \in [Worker -> Seq({HEARTBEAT} \cup Request)]
    BY <1>1, <1>5 DEF Exit, TypeRest
  <1>7. /\ wpc' \in [Worker -> {"down", "polling", "working", "sleeping", "exited"}]
        /\ job' \in [Worker -> Request \cup {NoJob}]
        /\ liveness' \in [Worker -> 0 .. LIVENESS]
        /\ elapsed' \in [Worker -> BOOLEAN]
    BY <1>1, <1>5 DEF Exit, TypeRest
  <1>8. Patient'
    BY <1>1 DEF Exit, Patient, TypeRest
  <1> QED
    BY <1>1, <1>4, <1>6, <1>7, <1>8, WorkerKeeps DEF Exit

LEMMA StutterKeeps ==
    ASSUME IInv, UNCHANGED vars PROVE IInv'
  BY DEF vars, IInv, TypeOK, IdleConsistent, FrontDefined, Patient

LEMMA NextKeeps ==
    ASSUME IInv, [Next]_vars PROVE IInv'
  <1>1. CASE QueueLoop
    BY <1>1, QuietLoopKeeps, ForwardRequestKeeps, SendHeartbeatsKeeps, PurgeOneKeeps
       DEF QueueLoop
  <1>2. CASE Restart
    BY <1>2, RestartKeeps
  <1>3. CASE Tick
    BY <1>3, TickKeeps
  <1>4. ASSUME NEW w \in Worker, QueueHandles(w) PROVE IInv'
    BY <1>4, HandleReadyKeeps, HandleHeartbeatKeeps, HandleReplyKeeps DEF QueueHandles
  <1>5. ASSUME NEW w \in Worker, Start(w) \/ Exit(w) PROVE IInv'
    BY <1>5, StartKeeps, ExitKeeps
  <1>6. ASSUME NEW w \in Worker, WorkerStep(w) PROVE IInv'
    BY <1>6, TakeRequestKeeps, SendReplyKeeps, TakeHeartbeatKeeps, PollTimeoutKeeps,
       ReconnectKeeps DEF WorkerStep
  <1>7. ASSUME NEW r \in Request, Submit(r) PROVE IInv'
    BY <1>7, SubmitKeeps
  <1>8. CASE UNCHANGED vars
    BY <1>8, StutterKeeps
  <1> QED
    BY <1>1, <1>2, <1>3, <1>4, <1>5, <1>6, <1>7, <1>8 DEF Next

THEOREM Invariance == Spec => []IInv
  <1>1. Init => IInv
    BY InitIInv
  <1>2. IInv /\ [Next]_vars => IInv'
    BY NextKeeps
  <1> QED
    BY <1>1, <1>2, PTL DEF Spec

----------------------------------------------------------------------------

\* Every variable keeps its type: no countdown of a worker falls below zero and
\* nothing but the three kinds of message is in a channel (ppworker.cpp:85).
THEOREM TypeCorrect == Spec => []TypeOK
  <1>1. IInv => TypeOK
    BY DEF IInv
  <1> QED
    BY <1>1, Invariance, PTL

\* The deque and the expiry table of workers_t agree in every reachable state
\* (workers.cpp:20-95 under the calls that ppqueue.cpp makes).
THEOREM IdleConsistency == Spec => []IdleConsistent
  <1>1. IInv => IdleConsistent
    BY DEF IInv
  <1> QED
    BY <1>1, Invariance, PTL

\* workers.front() is never called on an empty deque (ppqueue.cpp:89).
THEOREM FrontIsDefined == Spec => []FrontDefined
  <1>1. IInv => FrontDefined
    BY DEF IInv
  <1> QED
    BY <1>1, Invariance, PTL

\* Purge drops nobody who is alive: whoever leaves the idle queue had expired,
\* or was at its front and is handed a request, or the queue itself starts
\* again (workers.cpp:80, ppqueue.cpp:89).
THEOREM LiveLeave == Spec => LiveLeaveByDispatch
  <1> DEFINE Leave ==
        \A w \in Range(ws.queue) \ Range(ws'.queue) :
           \/ ws.lookup[w] = Expired
           \/ qpc = "frontend" /\ w = Head(ws.queue) /\ Len(frontend') < Len(frontend)
           \/ qpc = "aborted"
  <1>1. ASSUME IInv, [Next]_vars PROVE [Leave]_vars
    <2>1. Good(ws) /\ TypeRest /\ FrontDefined
      BY <1>1, Parts
    <2>2. CASE ws'.queue = ws.queue
      BY <2>2
    <2>3. CASE ForwardRequest
      <3>1. /\ qpc = "frontend" /\ frontend # << >> /\ ws.queue # << >>
            /\ frontend' = Tail(frontend)
            /\ ws' = Pop(ws)
        BY <2>1, <2>3 DEF ForwardRequest, FrontDefined
      <3>2. frontend \in Seq(Request)
        BY <2>1 DEF TypeRest
      <3>3. Len(frontend') < Len(frontend)
        BY <3>1, <3>2, HeadTailProperties, EmptySeq
      <3>4. Range(ws'.queue) = Range(ws.queue) \ {Head(ws.queue)}
        BY <2>1, <3>1, DropFrontGood DEF Pop, Empty
      <3> QED
        BY <3>1, <3>3, <3>4
    <2>4. CASE PurgeOne
      <3>1. ws.queue # << >>
        BY <2>1, <2>4 DEF PurgeOne, PurgeMore, TypeRest
      <3>2. ws' = PurgeBody(ws)
        BY <2>4 DEF PurgeOne
      <3>3. \A w \in Range(ws.queue) \ Range(ws'.queue) : ws.lookup[w] = Expired
        BY <2>1, <3>1, <3>2, PurgeBodyGood
      <3> QED
        BY <3>3
    <2>5. CASE Restart
      BY <2>5 DEF Restart
    <2>6. ASSUME NEW w \in Worker, HandleReady(w) PROVE Leave
      <3>1. Good(Erase(ws, w)) /\ PushAllowed(Erase(ws, w), w)
        BY <2>1, EraseGood DEF PushAllowed
      <3>2. ws' = Push(Erase(ws, w), w)
        BY <2>6, <3>1 DEF HandleReady
      <3>3. Range(ws'.queue) = Range(Erase(ws, w).queue) \cup {w}
        BY <3>1, <3>2, PushGood
      <3>4. Range(ws.queue) \subseteq Range(Erase(ws, w).queue) \cup {w}
        BY <2>1, EraseRange
      <3> QED
        BY <3>3, <3>4
    <2>7. ASSUME NEW w \in Worker, HandleHeartbeat(w) PROVE Leave
      BY <2>1, <2>7, <2>2, RefreshGood DEF HandleHeartbeat
    <2>8. ASSUME NEW w \in Worker, HandleReply(w) PROVE Leave
      <3>1. Range(ws.queue) \subseteq Range(ws'.queue)
        BY <2>1, <2>8, TryPushGood DEF HandleReply
      <3> QED
        BY <3>1
    <2>9. CASE \/ PollNoBackend \/ NoRequest \/ NobodyToBeat \/ SendHeartbeats
               \/ PurgeDone
      BY <2>2, <2>9 DEF PollNoBackend, NoRequest, NobodyToBeat, SendHeartbeats, PurgeDone
    <2>10. CASE Tick
      BY <2>1, <2>2, <2>10, ClockTickGood DEF Tick
    <2>11. ASSUME NEW w \in Worker, Start(w) \/ Exit(w) \/ WorkerStep(w)
           PROVE  Leave
      BY <2>2, <2>11 DEF Start, Exit, WorkerStep, TakeRequest, SendReply, TakeHeartbeat,
         PollTimeout, Reconnect, queueVars
    <2>12. ASSUME NEW r \in Request, Submit(r) PROVE Leave
      BY <2>2, <2>12 DEF Submit, queueVars
    <2>13. CASE UNCHANGED vars
      BY <2>13
    <2> QED
      BY <1>1, <2>3, <2>4, <2>5, <2>6, <2>7, <2>8, <2>9, <2>10, <2>11, <2>12, <2>13
         DEF Next, QueueLoop, QueueHandles
  <1> QED
    BY <1>1, Invariance, PTL DEF Spec, LiveLeaveByDispatch

----------------------------------------------------------------------------
(***************************************************************************)
(* The queue implements RequestService: a request is in one place only.    *)
(***************************************************************************)

\* No request twice among the messages of a channel.
Once(q) == \A i, j \in DOMAIN q : q[i] = q[j] /\ q[i] \in Request => i = j

NoRequests(q) == \A m \in Range(q) : m \notin Request

\* The two channels of w and its work have no request in common.
Tidy(w) ==
    /\ Once(toQueue[w]) /\ Once(toWorker[w])
    /\ \A r \in Request :
           /\ r \in Range(toQueue[w]) => r \notin Range(toWorker[w]) /\ job[w] # r
           /\ r \in Range(toWorker[w]) => job[w] # r

HeldBy(w, r) == job[w] = r \/ r \in Range(toQueue[w]) \/ r \in Range(toWorker[w])

\* Without it nothing would keep a second reply from reaching the client: a request
\* that two workers had, or one of them twice, would be answered twice.
OnePlace ==
    /\ \A w \in Worker : Tidy(w)
    /\ \A w, v \in Worker, r \in Request : HeldBy(w, r) /\ HeldBy(v, r) => w = v
    /\ \A w \in Worker, r \in Request :
           HeldBy(w, r) => r \in sent /\ answers[r] = 0 /\ r \notin Range(frontend)
    /\ IsInjective(frontend)
    /\ \A r \in Range(frontend) : r \in sent /\ answers[r] = 0
    /\ \A r \in Request : r \notin sent => answers[r] = 0
    /\ answers \in [Request -> {0, 1}]

\* Channels.

LEMMA EmptyOnce == Once(<< >>) /\ NoRequests(<< >>) /\ Range(<< >>) = {}
  BY DEF Once, NoRequests, Range

LEMMA NoRequestsOnce ==
    ASSUME NEW q, NoRequests(q) PROVE Once(q)
  BY DEF NoRequests, Once, Range

LEMMA TailOnce ==
    ASSUME NEW S, NEW q \in Seq(S), q # << >>, Once(q)
    PROVE  /\ Once(Tail(q))
           /\ Range(q) = Range(Tail(q)) \cup {Head(q)}
           /\ Head(q) \in Request => Head(q) \notin Range(Tail(q))
  <1>1. Once(Tail(q))
    BY TailPositions DEF Once
  <1>2. Head(q) \in Request => Head(q) \notin Range(Tail(q))
    BY TailPositions DEF Once, Range
  <1>3. ASSUME NEW v \in Range(q), v # Head(q) PROVE v \in Range(Tail(q))
    <2>1. PICK j \in 1 .. Len(q) : q[j] = v
      BY TailPositions DEF Range
    <2>2. j - 1 \in DOMAIN Tail(q) /\ Tail(q)[j - 1] = v
      BY TailPositions, <1>3, <2>1
    <2> QED
      BY <2>2 DEF Range
  <1> QED
    BY <1>1, <1>2, <1>3, TailRange, HeadIsMember

LEMMA PartOnce ==
    ASSUME NEW S, NEW q \in Seq(S), NEW a \in 1 .. Len(q) + 1, NEW b \in 0 .. Len(q),
           Once(q)
    PROVE  Once(SubSeq(q, a, b)) /\ Range(SubSeq(q, a, b)) \subseteq Range(q)
  <1> DEFINE s == SubSeq(q, a, b)
  <1>1. Len(q) \in Nat /\ DOMAIN q = 1 .. Len(q)
    OBVIOUS
  <1>2. \A i \in DOMAIN s : i + a - 1 \in DOMAIN q /\ s[i] = q[i + a - 1] /\ i \in Int
    <2>1. \A i \in a .. b : q[i] \in S
      BY <1>1
    <2>2. /\ s \in Seq(S)
          /\ Len(s) = IF a <= b THEN b - a + 1 ELSE 0
          /\ \A i \in 1 .. b - a + 1 : s[i] = q[a + i - 1]
      BY <1>1, <2>1, SubSeqProperties
    <2> HIDE DEF s
    <2>3. DOMAIN s = 1 .. Len(s)
      BY <2>2
    <2> QED
      BY <1>1, <2>2, <2>3
  <1> HIDE DEF s
  <1>3. Once(s)
    <2> SUFFICES ASSUME NEW i \in DOMAIN s, NEW j \in DOMAIN s, s[i] = s[j], s[i] \in Request
                 PROVE  i = j
      BY DEF Once
    <2>1. i + a - 1 = j + a - 1
      BY <1>2 DEF Once
    <2> QED
      BY <1>1, <1>2, <2>1
  <1>4. Range(s) \subseteq Range(q)
    BY <1>2 DEF Range
  <1> QED
    BY <1>3, <1>4 DEF s

LEMMA ConcatOnce ==
    ASSUME NEW S, NEW q \in Seq(S), NEW m \in Seq(S), Once(q), Once(m),
           \A r \in Request : r \in Range(q) => r \notin Range(m)
    PROVE  Once(q \o m) /\ Range(q \o m) = Range(q) \cup Range(m)
  <1> DEFINE c == q \o m
  <1>1. /\ Len(q) \in Nat /\ DOMAIN q = 1 .. Len(q)
        /\ Len(m) \in Nat /\ DOMAIN m = 1 .. Len(m)
    OBVIOUS
  <1>2. /\ DOMAIN c = 1 .. Len(q) + Len(m)
        /\ \A i \in 1 .. Len(q) : c[i] = q[i]
        /\ \A i \in Len(q) + 1 .. Len(q) + Len(m) : c[i] = m[i - Len(q)]
    <2>1. /\ c \in Seq(S)
          /\ Len(c) = Len(q) + Len(m)
          /\ \A i \in 1 .. Len(q) + Len(m) :
                 c[i] = IF i <= Len(q) THEN q[i] ELSE m[i - Len(q)]
      BY ConcatProperties
    <2> HIDE DEF c
    <2> QED
      BY <1>1, <2>1
  <1> HIDE DEF c
  <1>3. \A i \in DOMAIN c :
            \/ i \in DOMAIN q /\ c[i] = q[i] /\ c[i] \in Range(q)
            \/ i - Len(q) \in DOMAIN m /\ c[i] = m[i - Len(q)] /\ c[i] \in Range(m)
    BY <1>1, <1>2 DEF Range
  <1>4. Once(c)
    <2> SUFFICES ASSUME NEW i \in DOMAIN c, NEW j \in DOMAIN c, c[i] = c[j], c[i] \in Request
                 PROVE  i = j
      BY DEF Once
    <2>1. CASE c[i] \in Range(q)
      <3>1. i \in DOMAIN q /\ c[i] = q[i] /\ j \in DOMAIN q /\ c[j] = q[j]
        BY <1>3, <2>1
      <3> QED
        BY <3>1 DEF Once
    <2>2. CASE c[i] \notin Range(q)
      <3>1. /\ i - Len(q) \in DOMAIN m /\ c[i] = m[i - Len(q)]
            /\ j - Len(q) \in DOMAIN m /\ c[j] = m[j - Len(q)]
        BY <1>3, <2>2
      <3>2. i - Len(q) = j - Len(q)
        BY <3>1 DEF Once
      <3> QED
        BY <1>1, <1>2, <3>2
    <2> QED
      BY <2>1, <2>2
  <1>5. Range(c) = Range(q) \cup Range(m)
    <2>1. Range(c) \subseteq Range(q) \cup Range(m)
      BY <1>3 DEF Range
    <2>2. Range(q) \subseteq Range(c)
      BY <1>1, <1>2 DEF Range
    <2>3. ASSUME NEW v \in Range(m) PROVE v \in Range(c)
      <3>1. PICK k \in 1 .. Len(m) : m[k] = v
        BY <1>1 DEF Range
      <3>2. Len(q) + k \in DOMAIN c /\ c[Len(q) + k] = v
        BY <1>1, <1>2, <3>1
      <3> QED
        BY <3>2 DEF Range
    <2> QED
      BY <2>1, <2>2, <2>3
  <1> QED
    BY <1>4, <1>5 DEF c

\* A message that is no request may follow anything, and a request those that are not
\* the same.
LEMMA AppendOnce ==
    ASSUME NEW S, NEW q \in Seq(S), NEW m \in S, Once(q),
           m \in Request => m \notin Range(q)
    PROVE  Once(Append(q, m)) /\ Range(Append(q, m)) = Range(q) \cup {m}
  <1>1. \A i \in DOMAIN q : q[i] \in Range(q)
    BY DEF Range
  <1>2. Once(Append(q, m))
    BY AppendPositions, <1>1 DEF Once
  <1> QED
    BY <1>2, AppendRange

\* What a worker sends besides replies carries no request.
LEMMA SignalsCarryNone ==
    ASSUME NEW w \in Worker
    PROVE  /\ NoRequests(HeartbeatIfDue(w))
           /\ NoRequests(Greeting)
  <1>1. Range(<<HEARTBEAT>>) = {HEARTBEAT} /\ Range(<<READY>>) = {READY}
    BY DEF Range
  <1> QED
    BY <1>1, EmptyOnce, MessageAssumption DEF HeartbeatIfDue, Greeting, NoRequests

\* Steps of the service.

\* What the status of a request tells, when it is in one place.
StatusTells(r) ==
    /\ Status(r) = "new" <=> r \notin sent
    /\ Status(r) = "answered" <=> r \in sent /\ answers[r] = 1
    /\ Status(r) = "waiting" <=> r \in Range(frontend)
    /\ Status(r) = "assigned" <=> \E w \in Worker : HeldBy(w, r)
    /\ Status(r) \in Service!Stage

LEMMA StatusIs ==
    ASSUME OnePlace, NEW r \in Request
    PROVE  StatusTells(r)
  <1>1. answers[r] \in {0, 1}
    BY DEF OnePlace
  <1>2. Held(r) <=> \E w \in Worker : HeldBy(w, r)
    BY DEF Held, HeldBy
  <1>3. /\ r \in Range(frontend) => r \in sent /\ answers[r] = 0
        /\ Held(r) => r \in sent /\ answers[r] = 0 /\ r \notin Range(frontend)
    BY <1>2 DEF OnePlace
  <1>4. Status(r) = IF r \notin sent THEN "new"
                    ELSE IF answers[r] = 1 THEN "answered"
                    ELSE IF r \in Range(frontend) THEN "waiting"
                    ELSE IF Held(r) THEN "assigned" ELSE "lost"
    BY <1>1 DEF Status
  <1> QED
    BY <1>1, <1>2, <1>3, <1>4 DEF StatusTells, Service!Stage

LEMMA StatusIsNext ==
    ASSUME OnePlace', NEW r \in Request
    PROVE  StatusTells(r)'
  <1>1. answers'[r] \in {0, 1}
    BY DEF OnePlace
  <1>2. Held(r)' <=> \E w \in Worker : HeldBy(w, r)'
    BY DEF Held, HeldBy
  <1>3. /\ r \in Range(frontend') => r \in sent' /\ answers'[r] = 0
        /\ Held(r)' => r \in sent' /\ answers'[r] = 0 /\ r \notin Range(frontend')
    BY <1>2 DEF OnePlace
  <1>4. Status(r)' = IF r \notin sent' THEN "new"
                    ELSE IF answers'[r] = 1 THEN "answered"
                    ELSE IF r \in Range(frontend') THEN "waiting"
                    ELSE IF Held(r)' THEN "assigned" ELSE "lost"
    BY <1>1 DEF Status
  <1> QED
    BY <1>1, <1>2, <1>3, <1>4 DEF StatusTells, Service!Stage

\* A step after which nothing is where it was not before.
LEMMA OnlyLoses ==
    ASSUME OnePlace, UNCHANGED <<sent, answers>>,
           IsInjective(frontend'), Range(frontend') \subseteq Range(frontend),
           \A w \in Worker : Tidy(w)',
           \A w \in Worker, r \in Request : HeldBy(w, r)' => HeldBy(w, r)
    PROVE  OnePlace' /\ Service!Next
  <1>1. OnePlace'
    BY DEF OnePlace
  <1>2. ASSUME NEW r \in Request
        PROVE  \/ Status(r)' = Status(r)
               \/ Status(r) \in {"waiting", "assigned"} /\ Status(r)' = "lost"
    <2>1. StatusTells(r) /\ StatusTells(r)'
      BY <1>1, StatusIs, StatusIsNext
    <2> QED
      BY <2>1 DEF StatusTells, Service!Stage
  <1>3. Service!Lose
    <2>1. PICK S : S = {r \in Request : Status(r)' # Status(r)}
      OBVIOUS
    <2>2. S \in SUBSET {r \in Request : Status(r) \in {"waiting", "assigned"}}
      BY <1>2, <2>1
    <2>3. \A r \in Request : Status(r)' = IF r \in S THEN "lost" ELSE Status(r)
      BY <1>2, <2>1
    <2> QED
      BY <2>2, <2>3 DEF Service!Lose
  <1> QED
    BY <1>1, <1>3 DEF Service!Next

\* What leaves all the places alone.
LEMMA QuietServes ==
    ASSUME OnePlace, UNCHANGED <<frontend, toQueue, toWorker, job, sent, answers>>
    PROVE  OnePlace' /\ Service!Next
  <1>1. /\ IsInjective(frontend') /\ Range(frontend') \subseteq Range(frontend)
        /\ \A w \in Worker : Tidy(w)'
        /\ \A w \in Worker, r \in Request : HeldBy(w, r)' => HeldBy(w, r)
    BY DEF OnePlace, Tidy, HeldBy
  <1> QED
    BY <1>1, OnlyLoses

\* A step with the places of one worker.
LEMMA OneWorkerLoses ==
    ASSUME OnePlace, UNCHANGED <<frontend, sent, answers>>, NEW w \in Worker,
           \A v \in Worker \ {w} :
               toQueue'[v] = toQueue[v] /\ toWorker'[v] = toWorker[v] /\ job'[v] = job[v],
           Tidy(w)',
           \A r \in Request : HeldBy(w, r)' => HeldBy(w, r)
    PROVE  OnePlace' /\ Service!Next
  <1>1. IsInjective(frontend') /\ Range(frontend') \subseteq Range(frontend)
    BY DEF OnePlace
  <1>2. ASSUME NEW v \in Worker, v # w PROVE Tidy(v)'
    BY <1>2 DEF OnePlace, Tidy
  <1>3. ASSUME NEW v \in Worker, NEW r \in Request, HeldBy(v, r)' PROVE HeldBy(v, r)
    BY <1>3 DEF HeldBy
  <1>4. \A v \in Worker : Tidy(v)'
    BY <1>2
  <1> QED
    BY <1>1, <1>3, <1>4, OnlyLoses

\* The queue reads a message that is no request.
LEMMA SignalServes ==
    ASSUME IInv, OnePlace, NEW w \in Worker, HandleReady(w) \/ HandleHeartbeat(w)
    PROVE  OnePlace' /\ Service!Next
  <1>1. toQueue \in [Worker -> Seq(Message)]
    BY Parts DEF TypeRest
  <1>2. /\ toQueue[w] # << >>
        /\ toQueue' = [toQueue EXCEPT ![w] = Tail(@)]
        /\ UNCHANGED <<frontend, toWorker, job, sent, answers>>
    BY DEF HandleReady, HandleHeartbeat, ReceiveFrom, workerVars
  <1>3. Once(Tail(toQueue[w])) /\ Range(Tail(toQueue[w])) \subseteq Range(toQueue[w])
    BY <1>1, <1>2, TailOnce DEF OnePlace, Tidy
  <1>4. toQueue'[w] = Tail(toQueue[w]) /\ \A v \in Worker \ {w} : toQueue'[v] = toQueue[v]
    BY <1>1, <1>2
  <1>5. Tidy(w)'
    BY <1>2, <1>3, <1>4 DEF OnePlace, Tidy
  <1>6. \A r \in Request : HeldBy(w, r)' => HeldBy(w, r)
    BY <1>2, <1>3, <1>4 DEF HeldBy
  <1> QED
    BY <1>2, <1>4, <1>5, <1>6, OneWorkerLoses

\* A heartbeat that a worker gets, or does not, is no request.
LEMMA SendHeartbeatsServes ==
    ASSUME IInv, OnePlace, SendHeartbeats
    PROVE  OnePlace' /\ Service!Next
  <1>1. toWorker \in [Worker -> Seq({HEARTBEAT} \cup Request)]
    BY Parts DEF TypeRest
  <1>2. UNCHANGED <<frontend, toQueue, job, sent, answers>>
    BY DEF SendHeartbeats, workerVars
  <1>3. ASSUME NEW w \in Worker
        PROVE  /\ Once(toWorker'[w])
               /\ \A r \in Request : r \in Range(toWorker'[w]) => r \in Range(toWorker[w])
    <2>1. toWorker'[w] = toWorker[w] \/ toWorker'[w] = Append(toWorker[w], HEARTBEAT)
      BY <1>3 DEF SendHeartbeats, SendToWorkers
    <2>2. Once(toWorker[w])
      BY DEF OnePlace, Tidy
    <2>3. /\ Once(Append(toWorker[w], HEARTBEAT))
          /\ Range(Append(toWorker[w], HEARTBEAT)) = Range(toWorker[w]) \cup {HEARTBEAT}
      BY <1>1, <2>2, AppendOnce, MessageAssumption
    <2> QED
      BY <2>1, <2>2, <2>3, MessageAssumption
  <1>4. \A w \in Worker : Tidy(w)'
    BY <1>2, <1>3 DEF OnePlace, Tidy
  <1>5. \A w \in Worker, r \in Request : HeldBy(w, r)' => HeldBy(w, r)
    BY <1>2, <1>3 DEF HeldBy
  <1>6. IsInjective(frontend') /\ Range(frontend') \subseteq Range(frontend)
    BY <1>2 DEF OnePlace
  <1> QED
    BY <1>2, <1>4, <1>5, <1>6, OnlyLoses

\* What waited at the frontend is lost with the queue, and some of what was on its way.
LEMMA RestartServes ==
    ASSUME IInv, OnePlace, Restart
    PROVE  OnePlace' /\ Service!Next
  <1>1. toQueue \in [Worker -> Seq(Message)]
    BY Parts DEF TypeRest
  <1>2. frontend' = << >> /\ UNCHANGED <<toWorker, job, sent, answers>>
    BY DEF Restart, workerVars
  <1>3. IsInjective(frontend') /\ Range(frontend') \subseteq Range(frontend)
    BY <1>2, EmptyOnce DEF IsInjective
  <1>4. ASSUME NEW w \in Worker
        PROVE  Once(toQueue'[w]) /\ Range(toQueue'[w]) \subseteq Range(toQueue[w])
    <2>1. PICK n \in 1 .. Len(toQueue[w]) + 1 :
              toQueue'[w] = SubSeq(toQueue[w], n, Len(toQueue[w]))
      BY DEF Restart, LateParts
    <2>2. toQueue[w] \in Seq(Message) /\ Len(toQueue[w]) \in 0 .. Len(toQueue[w])
      BY <1>1
    <2>3. Once(toQueue[w])
      BY DEF OnePlace, Tidy
    <2> QED
      BY <2>1, <2>2, <2>3, PartOnce
  <1>5. \A w \in Worker : Tidy(w)'
    BY <1>2, <1>4 DEF OnePlace, Tidy
  <1>6. \A w \in Worker, r \in Request : HeldBy(w, r)' => HeldBy(w, r)
    BY <1>2, <1>4 DEF HeldBy
  <1> QED
    BY <1>2, <1>3, <1>5, <1>6, OnlyLoses

\* Steps of a worker.

\* A worker sends what is no request.
LEMMA MoreSignals ==
    ASSUME NEW q \in Seq(Message), NEW m \in Seq(Message), Once(q), NoRequests(m)
    PROVE  /\ q \o m \in Seq(Message)
           /\ Once(q \o m)
           /\ \A r \in Request : r \in Range(q \o m) <=> r \in Range(q)
  <1>1. Once(m) /\ \A r \in Request : r \in Range(q) => r \notin Range(m)
    BY NoRequestsOnce DEF NoRequests
  <1>2. Once(q \o m) /\ Range(q \o m) = Range(q) \cup Range(m)
    BY <1>1, ConcatOnce
  <1> QED
    BY <1>2, ConcatProperties DEF NoRequests

\* Nor does what is no request change whose it is.
LEMMA SignallingServes ==
    ASSUME OnePlace, UNCHANGED <<frontend, job, sent, answers>>, NEW w \in Worker,
           toQueue \in [Worker -> Seq(Message)],
           toWorker \in [Worker -> Seq({HEARTBEAT} \cup Request)],
           \A v \in Worker \ {w} : toQueue'[v] = toQueue[v] /\ toWorker'[v] = toWorker[v],
           Once(toQueue'[w]),
           \A r \in Request : r \in Range(toQueue'[w]) => r \in Range(toQueue[w]),
           Once(toWorker'[w]), Range(toWorker'[w]) \subseteq Range(toWorker[w])
    PROVE  OnePlace' /\ Service!Next
  <1>1. Tidy(w)'
    BY DEF OnePlace, Tidy
  <1>2. \A r \in Request : HeldBy(w, r)' => HeldBy(w, r)
    BY DEF HeldBy
  <1> QED
    BY <1>1, <1>2, OneWorkerLoses

LEMMA StartServes ==
    ASSUME IInv, OnePlace, NEW w \in Worker, Start(w)
    PROVE  OnePlace' /\ Service!Next
  <1>1. /\ toQueue \in [Worker -> Seq(Message)]
        /\ toWorker \in [Worker -> Seq({HEARTBEAT} \cup Request)]
        /\ toQueue[w] \in Seq(Message) /\ Once(toQueue[w]) /\ Once(toWorker[w])
    BY Parts DEF TypeRest, OnePlace, Tidy
  <1>2. /\ toQueue' = [toQueue EXCEPT ![w] = @ \o Greeting]
        /\ UNCHANGED <<frontend, toWorker, job, sent, answers>>
    BY DEF Start, SendToQueue
  <1>3. /\ Once(toQueue[w] \o Greeting)
        /\ \A r \in Request : r \in Range(toQueue[w] \o Greeting) => r \in Range(toQueue[w])
    BY <1>1, MessagesTyped, SignalsCarryNone, MoreSignals
  <1>4. /\ toQueue'[w] = toQueue[w] \o Greeting
        /\ \A v \in Worker \ {w} : toQueue'[v] = toQueue[v]
    BY <1>1, <1>2
  <1> QED
    BY <1>1, <1>2, <1>3, <1>4, SignallingServes

LEMMA TakeHeartbeatServes ==
    ASSUME IInv, OnePlace, NEW w \in Worker, TakeHeartbeat(w)
    PROVE  OnePlace' /\ Service!Next
  <1>1. /\ toQueue \in [Worker -> Seq(Message)]
        /\ toWorker \in [Worker -> Seq({HEARTBEAT} \cup Request)]
        /\ toQueue[w] \in Seq(Message) /\ Once(toQueue[w]) /\ Once(toWorker[w])
    BY Parts DEF TypeRest, OnePlace, Tidy
  <1>2. /\ toQueue' = [toQueue EXCEPT ![w] = @ \o HeartbeatIfDue(w)]
        /\ toWorker[w] # << >> /\ toWorker' = [toWorker EXCEPT ![w] = Tail(@)]
        /\ UNCHANGED <<frontend, job, sent, answers>>
    BY DEF TakeHeartbeat, WorkerReceives, SendToQueue
  <1>3. /\ Once(toQueue[w] \o HeartbeatIfDue(w))
        /\ \A r \in Request :
               r \in Range(toQueue[w] \o HeartbeatIfDue(w)) => r \in Range(toQueue[w])
    BY <1>1, MessagesTyped, SignalsCarryNone, MoreSignals
  <1>4. Once(Tail(toWorker[w])) /\ Range(Tail(toWorker[w])) \subseteq Range(toWorker[w])
    BY <1>1, <1>2, TailOnce
  <1>5. /\ toQueue'[w] = toQueue[w] \o HeartbeatIfDue(w)
        /\ toWorker'[w] = Tail(toWorker[w])
        /\ \A v \in Worker \ {w} : toQueue'[v] = toQueue[v] /\ toWorker'[v] = toWorker[v]
    BY <1>1, <1>2
  <1> QED
    BY <1>1, <1>2, <1>3, <1>4, <1>5, SignallingServes

LEMMA PollTimeoutServes ==
    ASSUME IInv, OnePlace, NEW w \in Worker, PollTimeout(w)
    PROVE  OnePlace' /\ Service!Next
  <1>1. /\ toQueue \in [Worker -> Seq(Message)]
        /\ toWorker \in [Worker -> Seq({HEARTBEAT} \cup Request)]
        /\ toQueue[w] \in Seq(Message) /\ Once(toQueue[w]) /\ Once(toWorker[w])
    BY Parts DEF TypeRest, OnePlace, Tidy
  <1>2. UNCHANGED <<frontend, job, sent, answers>>
    BY DEF PollTimeout
  <1>3. CASE OutOfLiveness(w)
    <2>1. toWorker' = [toWorker EXCEPT ![w] = << >>] /\ UNCHANGED toQueue
      BY <1>3 DEF PollTimeout
    <2>2. toWorker'[w] = << >> /\ \A v \in Worker \ {w} : toWorker'[v] = toWorker[v]
      BY <1>1, <2>1
    <2>3. Once(toWorker'[w]) /\ Range(toWorker'[w]) \subseteq Range(toWorker[w])
      BY <2>2, EmptyOnce
    <2> QED
      BY <1>1, <1>2, <2>1, <2>2, <2>3, SignallingServes
  <1>4. CASE ~ OutOfLiveness(w)
    <2>1. /\ toQueue' = [toQueue EXCEPT ![w] = @ \o HeartbeatIfDue(w)]
          /\ UNCHANGED toWorker
      BY <1>4 DEF PollTimeout, SendToQueue
    <2>2. /\ Once(toQueue[w] \o HeartbeatIfDue(w))
          /\ \A r \in Request :
                 r \in Range(toQueue[w] \o HeartbeatIfDue(w)) => r \in Range(toQueue[w])
      BY <1>1, MessagesTyped, SignalsCarryNone, MoreSignals
    <2>3. /\ toQueue'[w] = toQueue[w] \o HeartbeatIfDue(w)
          /\ \A v \in Worker \ {w} : toQueue'[v] = toQueue[v]
      BY <1>1, <2>1
    <2> QED
      BY <1>1, <1>2, <2>1, <2>2, <2>3, SignallingServes
  <1> QED
    BY <1>3, <1>4

\* What the old socket had not sent is gone; READY is the first of the new one.
LEMMA ReconnectServes ==
    ASSUME IInv, OnePlace, NEW w \in Worker, Reconnect(w)
    PROVE  OnePlace' /\ Service!Next
  <1>1. /\ toQueue \in [Worker -> Seq(Message)]
        /\ toWorker \in [Worker -> Seq({HEARTBEAT} \cup Request)]
        /\ toQueue[w] \in Seq(Message) /\ Once(toQueue[w]) /\ Once(toWorker[w])
    BY Parts DEF TypeRest, OnePlace, Tidy
  <1>2. UNCHANGED <<frontend, toWorker, job, sent, answers>>
    BY DEF Reconnect
  <1>3. PICK n \in 0 .. Len(toQueue[w]) :
            toQueue' = [toQueue EXCEPT
                ![w] = SubSeq(toQueue[w], 1, n) \o Greeting \o HeartbeatIfDue(w)]
    BY DEF Reconnect
  <1>4. PICK kept : kept = SubSeq(toQueue[w], 1, n)
    OBVIOUS
  <1>5. Once(kept) /\ Range(kept) \subseteq Range(toQueue[w]) /\ kept \in Seq(Message)
    <2>1. 1 \in 1 .. Len(toQueue[w]) + 1
      BY <1>1
    <2> QED
      BY <1>1, <1>4, <2>1, PartOnce, PrefixTyped
  <1>6. /\ kept \o Greeting \in Seq(Message)
        /\ Once(kept \o Greeting)
        /\ \A r \in Request : r \in Range(kept \o Greeting) <=> r \in Range(kept)
    BY <1>5, MessagesTyped, SignalsCarryNone, MoreSignals
  <1>7. PICK greeted \in Seq(Message) : greeted = kept \o Greeting
    BY <1>6
  <1>8. /\ Once(greeted \o HeartbeatIfDue(w))
        /\ \A r \in Request :
               r \in Range(greeted \o HeartbeatIfDue(w)) <=> r \in Range(greeted)
    BY <1>6, <1>7, MessagesTyped, SignalsCarryNone, MoreSignals
  <1>9. /\ toQueue'[w] = greeted \o HeartbeatIfDue(w)
        /\ \A v \in Worker \ {w} : toQueue'[v] = toQueue[v]
    BY <1>1, <1>3, <1>4, <1>7
  <1>10. \A r \in Request : r \in Range(toQueue'[w]) => r \in Range(toQueue[w])
    BY <1>5, <1>6, <1>7, <1>8, <1>9
  <1> QED
    BY <1>1, <1>2, <1>8, <1>9, <1>10, SignallingServes

LEMMA ExitServes ==
    ASSUME IInv, OnePlace, NEW w \in Worker, Exit(w)
    PROVE  OnePlace' /\ Service!Next
  <1>1. /\ toQueue \in [Worker -> Seq(Message)]
        /\ toWorker \in [Worker -> Seq({HEARTBEAT} \cup Request)]
        /\ job \in [Worker -> Request \cup {NoJob}]
        /\ toQueue[w] \in Seq(Message) /\ Once(toQueue[w])
    BY Parts DEF TypeRest, OnePlace, Tidy
  <1>2. PICK n \in 0 .. Len(toQueue[w]) :
            toQueue' = [toQueue EXCEPT ![w] = SubSeq(toQueue[w], 1, n)]
    BY DEF Exit
  <1>3. /\ toWorker' = [toWorker EXCEPT ![w] = << >>]
        /\ job' = [job EXCEPT ![w] = NoJob]
        /\ UNCHANGED <<frontend, sent, answers>>
    BY DEF Exit
  <1>4. /\ toQueue'[w] = SubSeq(toQueue[w], 1, n) /\ toWorker'[w] = << >> /\ job'[w] = NoJob
        /\ \A v \in Worker \ {w} :
               toQueue'[v] = toQueue[v] /\ toWorker'[v] = toWorker[v] /\ job'[v] = job[v]
    BY <1>1, <1>2, <1>3
  <1>5. Once(toQueue'[w]) /\ Range(toQueue'[w]) \subseteq Range(toQueue[w])
    <2>1. 1 \in 1 .. Len(toQueue[w]) + 1
      BY <1>1
    <2> QED
      BY <1>1, <1>4, <2>1, PartOnce
  <1>6. Tidy(w)' /\ \A r \in Request : HeldBy(w, r)' => HeldBy(w, r)
    BY <1>4, <1>5, EmptyOnce, NoJobAssumption DEF Tidy, HeldBy
  <1> QED
    BY <1>3, <1>4, <1>6, OneWorkerLoses

\* The request goes from the channel to the worker.
LEMMA TakeRequestServes ==
    ASSUME IInv, OnePlace, NEW w \in Worker, TakeRequest(w)
    PROVE  OnePlace' /\ Service!Next
  <1>1. /\ toWorker \in [Worker -> Seq({HEARTBEAT} \cup Request)]
        /\ job \in [Worker -> Request \cup {NoJob}]
    BY Parts DEF TypeRest
  <1>2. /\ toWorker[w] # << >> /\ toWorker' = [toWorker EXCEPT ![w] = Tail(@)]
        /\ job' = [job EXCEPT ![w] = Head(toWorker[w])]
        /\ Head(toWorker[w]) \in Request
        /\ UNCHANGED <<frontend, toQueue, sent, answers>>
    BY DEF TakeRequest, WorkerReceives
  <1>3. PICK r \in Request : r = Head(toWorker[w])
    BY <1>2
  <1>4. /\ toWorker'[w] = Tail(toWorker[w]) /\ job'[w] = r
        /\ \A v \in Worker \ {w} : toWorker'[v] = toWorker[v] /\ job'[v] = job[v]
    BY <1>1, <1>2, <1>3
  <1>5. /\ Once(Tail(toWorker[w]))
        /\ Range(toWorker[w]) = Range(Tail(toWorker[w])) \cup {r}
        /\ r \notin Range(Tail(toWorker[w]))
    BY <1>1, <1>2, <1>3, TailOnce DEF OnePlace, Tidy
  <1>6. Tidy(w)'
    BY <1>2, <1>4, <1>5 DEF OnePlace, Tidy
  <1>7. \A x \in Request : HeldBy(w, x)' => HeldBy(w, x)
    BY <1>2, <1>4, <1>5 DEF HeldBy
  <1> QED
    BY <1>2, <1>4, <1>6, <1>7, OneWorkerLoses

\* The reply goes to the queue, and the worker has it no more.
LEMMA SendReplyServes ==
    ASSUME IInv, OnePlace, NEW w \in Worker, SendReply(w)
    PROVE  OnePlace' /\ Service!Next
  <1>1. /\ toQueue \in [Worker -> Seq(Message)] /\ toQueue[w] \in Seq(Message)
        /\ job \in [Worker -> Request \cup {NoJob}]
        /\ Once(toQueue[w]) /\ Once(toWorker[w])
        /\ job[w] \in Request
    BY Parts DEF TypeRest, OnePlace, Tidy, Patient, SendReply
  <1>2. /\ toQueue' = [toQueue EXCEPT ![w] = @ \o (<<job[w]>> \o HeartbeatIfDue(w))]
        /\ job' = [job EXCEPT ![w] = NoJob]
        /\ UNCHANGED <<frontend, toWorker, sent, answers>>
    BY DEF SendReply, SendToQueue
  <1>3. PICK r \in Request : r = job[w]
    BY <1>1
  <1>4. PICK m \in Seq(Message) : m = <<r>> \o HeartbeatIfDue(w)
    BY MessagesTyped
  <1>5. Once(m) /\ \A x \in Request : x \in Range(m) <=> x = r
    <2>1. <<r>> \in Seq(Message)
      BY DEF Message
    <2>2. Range(<<r>>) = {r} /\ Once(<<r>>)
      BY DEF Range, Once
    <2> QED
      BY <1>4, <2>1, <2>2, MessagesTyped, SignalsCarryNone, MoreSignals
  <1>6. r \notin Range(toQueue[w]) /\ r \notin Range(toWorker[w])
    BY <1>3 DEF OnePlace, Tidy
  <1>7. Once(toQueue[w] \o m) /\ Range(toQueue[w] \o m) = Range(toQueue[w]) \cup Range(m)
    BY <1>1, <1>5, <1>6, ConcatOnce
  <1>8. /\ toQueue'[w] = toQueue[w] \o m /\ job'[w] = NoJob
        /\ \A v \in Worker \ {w} : toQueue'[v] = toQueue[v] /\ job'[v] = job[v]
    BY <1>1, <1>2, <1>3, <1>4
  <1>9. Tidy(w)'
    BY <1>2, <1>5, <1>6, <1>7, <1>8, NoJobAssumption DEF OnePlace, Tidy
  <1>10. \A x \in Request : HeldBy(w, x)' => HeldBy(w, x)
    BY <1>2, <1>3, <1>5, <1>7, <1>8, NoJobAssumption DEF HeldBy
  <1> QED
    BY <1>2, <1>8, <1>9, <1>10, OneWorkerLoses

\* Steps of a request.

\* A step that moves one request, and says where.
LEMMA OneMoves ==
    ASSUME OnePlace, OnePlace', NEW r \in Request,
           \A x \in Request \ {r} :
               /\ x \in sent' <=> x \in sent
               /\ answers'[x] = answers[x]
               /\ x \in Range(frontend') <=> x \in Range(frontend)
               /\ (\E w \in Worker : HeldBy(w, x)') <=> (\E w \in Worker : HeldBy(w, x))
    PROVE  [x \in Request |-> Status(x)]'
               = [[x \in Request |-> Status(x)] EXCEPT ![r] = Status(r)']
  <1>1. ASSUME NEW x \in Request, x # r PROVE Status(x)' = Status(x)
    <2>1. StatusTells(x) /\ StatusTells(x)'
      BY StatusIs, StatusIsNext
    <2> QED
      BY <1>1, <2>1 DEF StatusTells, Service!Stage
  <1> QED
    BY <1>1

LEMMA SubmitServes ==
    ASSUME IInv, OnePlace, NEW r \in Request, Submit(r)
    PROVE  OnePlace' /\ Service!Next
  <1>1. frontend \in Seq(Request)
    BY Parts DEF TypeRest
  <1>2. /\ r \notin sent /\ sent' = sent \cup {r} /\ frontend' = Append(frontend, r)
        /\ UNCHANGED <<toQueue, toWorker, job, answers>>
    BY DEF Submit, workerVars
  <1>3. r \notin Range(frontend)
    BY <1>2 DEF OnePlace
  <1>4. IsInjective(frontend') /\ Range(frontend') = Range(frontend) \cup {r}
    BY <1>1, <1>2, <1>3, PushMembers DEF OnePlace
  <1>5. \A w \in Worker, x \in Request : HeldBy(w, x)' <=> HeldBy(w, x)
    BY <1>2 DEF HeldBy
  <1>6. \A w \in Worker : Tidy(w)' /\ ~ HeldBy(w, r)
    BY <1>2 DEF OnePlace, Tidy
  <1>7. OnePlace'
    <2>1. \A w, v \in Worker, x \in Request : HeldBy(w, x)' /\ HeldBy(v, x)' => w = v
      BY <1>5 DEF OnePlace
    <2>2. \A w \in Worker, x \in Request :
              HeldBy(w, x)' => x \in sent' /\ answers'[x] = 0 /\ x \notin Range(frontend')
      BY <1>2, <1>4, <1>5, <1>6 DEF OnePlace
    <2>3. \A x \in Range(frontend') : x \in sent' /\ answers'[x] = 0
      BY <1>2, <1>4 DEF OnePlace
    <2>4. /\ \A x \in Request : x \notin sent' => answers'[x] = 0
          /\ answers' \in [Request -> {0, 1}]
      BY <1>2 DEF OnePlace
    <2> QED
      BY <1>4, <1>6, <2>1, <2>2, <2>3, <2>4 DEF OnePlace
  <1>8. Status(r) = "new" /\ Status(r)' = "waiting"
    <2>1. StatusTells(r) /\ StatusTells(r)'
      BY <1>7, StatusIs, StatusIsNext
    <2> QED
      BY <1>2, <1>4, <2>1 DEF StatusTells
  <1>9. [x \in Request |-> Status(x)]'
            = [[x \in Request |-> Status(x)] EXCEPT ![r] = "waiting"]
    BY <1>2, <1>4, <1>5, <1>7, <1>8, OneMoves
  <1>10. Service!Submit(r)
    BY <1>2, <1>8, <1>9 DEF Service!Submit, Service!Move
  <1> QED
    BY <1>7, <1>10 DEF Service!Next

\* The request at the front goes to the worker at the front, or nowhere.
LEMMA ForwardRequestServes ==
    ASSUME IInv, OnePlace, ForwardRequest
    PROVE  OnePlace' /\ Service!Next
  <1>1. Good(ws) /\ TypeRest /\ FrontDefined
    BY Parts
  <1>2. /\ frontend \in Seq(Request) /\ frontend # << >>
        /\ ws.queue \in Seq(Worker) /\ ws.queue # << >>
        /\ toWorker \in [Worker -> Seq({HEARTBEAT} \cup Request)]
    BY <1>1 DEF ForwardRequest, FrontDefined, TypeRest, Good, WorkersValue
  <1>3. PICK f \in Worker : f = FrontId(ws)
    BY <1>2 DEF FrontId
  <1>4. PICK r \in Request : r = Head(frontend)
    BY <1>2
  <1>5. /\ SendToWorkers({f}, r) /\ frontend' = Tail(frontend)
        /\ UNCHANGED <<toQueue, job, sent, answers>>
    BY <1>3, <1>4 DEF ForwardRequest, Recipient, workerVars
  <1>6. /\ IsInjective(frontend') /\ Range(frontend') = Range(frontend) \ {r}
        /\ r \in Range(frontend)
    BY <1>2, <1>4, <1>5, PopMembers, HeadIsMember DEF OnePlace
  <1>7. PICK reached \in SUBSET {f} :
            toWorker' = [w \in Worker |-> IF w \in reached THEN Append(toWorker[w], r)
                                                           ELSE toWorker[w]]
    BY <1>5 DEF SendToWorkers
  <1>8. CASE reached = {}
    <2>1. \A w \in Worker : toWorker'[w] = toWorker[w]
      BY <1>7, <1>8
    <2>2. \A w \in Worker : Tidy(w)'
      BY <1>5, <2>1 DEF OnePlace, Tidy
    <2>3. \A w \in Worker, x \in Request : HeldBy(w, x)' => HeldBy(w, x)
      BY <1>5, <2>1 DEF HeldBy
    <2> QED
      BY <1>5, <1>6, <2>2, <2>3, OnlyLoses
  <1>9. CASE reached = {f}
    <2>1. /\ toWorker'[f] = Append(toWorker[f], r)
          /\ \A w \in Worker \ {f} : toWorker'[w] = toWorker[w]
      BY <1>7, <1>9
    <2>2. r \in sent /\ answers[r] = 0 /\ \A w \in Worker : ~ HeldBy(w, r)
      BY <1>6 DEF OnePlace
    <2>3. r \notin Range(toWorker[f]) /\ r \notin Range(toQueue[f]) /\ job[f] # r
      BY <2>2 DEF HeldBy
    <2>4. Once(toWorker'[f]) /\ Range(toWorker'[f]) = Range(toWorker[f]) \cup {r}
      BY <1>2, <2>1, <2>3, AppendOnce DEF OnePlace, Tidy
    <2>5. Tidy(f)'
      BY <1>5, <2>3, <2>4 DEF OnePlace, Tidy
    <2>6. ASSUME NEW w \in Worker, w # f PROVE Tidy(w)'
      BY <1>5, <2>1, <2>6 DEF OnePlace, Tidy
    <2>7. \A w \in Worker, x \in Request :
              HeldBy(w, x)' <=> HeldBy(w, x) \/ (w = f /\ x = r)
      BY <1>5, <2>1, <2>4 DEF HeldBy
    <2>8. OnePlace'
      <3>1. \A w, v \in Worker, x \in Request : HeldBy(w, x)' /\ HeldBy(v, x)' => w = v
        BY <2>2, <2>7 DEF OnePlace
      <3>2. \A w \in Worker, x \in Request :
                HeldBy(w, x)' => x \in sent' /\ answers'[x] = 0 /\ x \notin Range(frontend')
        BY <1>5, <1>6, <2>2, <2>7 DEF OnePlace
      <3>3. \A x \in Range(frontend') : x \in sent' /\ answers'[x] = 0
        BY <1>5, <1>6 DEF OnePlace
      <3>4. /\ \A x \in Request : x \notin sent' => answers'[x] = 0
            /\ answers' \in [Request -> {0, 1}]
        BY <1>5 DEF OnePlace
      <3>5. \A w \in Worker : Tidy(w)'
        BY <2>5, <2>6
      <3> QED
        BY <1>6, <3>1, <3>2, <3>3, <3>4, <3>5 DEF OnePlace
    <2>9. Status(r) = "waiting" /\ Status(r)' = "assigned"
      <3>1. StatusTells(r) /\ StatusTells(r)'
        BY <2>8, StatusIs, StatusIsNext
      <3> QED
        BY <1>6, <2>7, <3>1 DEF StatusTells
    <2>10. [x \in Request |-> Status(x)]'
               = [[x \in Request |-> Status(x)] EXCEPT ![r] = "assigned"]
      BY <1>5, <1>6, <2>7, <2>8, <2>9, OneMoves
    <2>11. Service!Assign(r)
      BY <1>5, <2>9, <2>10 DEF Service!Assign, Service!Move
    <2> QED
      BY <2>8, <2>11 DEF Service!Next
  <1> QED
    BY <1>8, <1>9

\* The reply that the queue reads is the only one.
LEMMA HandleReplyServes ==
    ASSUME IInv, OnePlace, NEW w \in Worker, HandleReply(w)
    PROVE  OnePlace' /\ Service!Next
  <1>1. toQueue \in [Worker -> Seq(Message)]
    BY Parts DEF TypeRest
  <1>2. /\ toQueue[w] # << >> /\ Head(toQueue[w]) \in Request
        /\ toQueue' = [toQueue EXCEPT ![w] = Tail(@)]
        /\ UNCHANGED <<frontend, toWorker, job, sent>>
    BY DEF HandleReply, ReceiveFrom, workerVars
  <1>3. PICK r \in Request : r = Head(toQueue[w])
    BY <1>2
  <1>4. answers' = [answers EXCEPT ![r] = @ + 1]
    BY <1>3 DEF HandleReply
  <1>5. /\ Once(Tail(toQueue[w]))
        /\ Range(toQueue[w]) = Range(Tail(toQueue[w])) \cup {r}
        /\ r \notin Range(Tail(toQueue[w]))
    BY <1>1, <1>2, <1>3, TailOnce DEF OnePlace, Tidy
  <1>6. HeldBy(w, r) /\ r \notin Range(toWorker[w]) /\ job[w] # r
    BY <1>5 DEF OnePlace, Tidy, HeldBy
  <1>7. r \in sent /\ answers[r] = 0 /\ r \notin Range(frontend)
    BY <1>6 DEF OnePlace
  <1>8. /\ answers'[r] = 1 /\ \A x \in Request \ {r} : answers'[x] = answers[x]
        /\ answers' \in [Request -> {0, 1}]
    <2>1. answers \in [Request -> {0, 1}]
      BY DEF OnePlace
    <2> QED
      BY <1>4, <1>7, <2>1
  <1>9. /\ toQueue'[w] = Tail(toQueue[w])
        /\ \A v \in Worker \ {w} : toQueue'[v] = toQueue[v]
    BY <1>1, <1>2
  <1>10. \A v \in Worker, x \in Request : HeldBy(v, x)' <=> HeldBy(v, x) /\ x # r
    <2>1. \A x \in Request : HeldBy(w, x)' <=> HeldBy(w, x) /\ x # r
      BY <1>2, <1>5, <1>6, <1>9 DEF HeldBy
    <2>2. ASSUME NEW v \in Worker, v # w PROVE ~ HeldBy(v, r)
      BY <1>6, <2>2 DEF OnePlace
    <2>3. ASSUME NEW v \in Worker, v # w, NEW x \in Request
          PROVE  HeldBy(v, x)' <=> HeldBy(v, x)
      BY <1>2, <1>9, <2>3 DEF HeldBy
    <2> QED
      BY <2>1, <2>2, <2>3
  <1>11. \A v \in Worker : Tidy(v)'
    <2>1. Tidy(w)'
      BY <1>2, <1>5, <1>9 DEF OnePlace, Tidy
    <2>2. ASSUME NEW v \in Worker, v # w PROVE Tidy(v)'
      BY <1>2, <1>9, <2>2 DEF OnePlace, Tidy
    <2> QED
      BY <2>1, <2>2
  <1>12. OnePlace'
    <2>1. \A u, v \in Worker, x \in Request : HeldBy(u, x)' /\ HeldBy(v, x)' => u = v
      BY <1>10 DEF OnePlace
    <2>2. \A v \in Worker, x \in Request :
              HeldBy(v, x)' => x \in sent' /\ answers'[x] = 0 /\ x \notin Range(frontend')
      BY <1>2, <1>8, <1>10 DEF OnePlace
    <2>3. \A x \in Range(frontend') : x \in sent' /\ answers'[x] = 0
      <3>1. \A x \in Range(frontend) : x \in Request
        BY Parts, MembersTyped DEF TypeRest
      <3> QED
        BY <1>2, <1>7, <1>8, <3>1 DEF OnePlace
    <2>4. \A x \in Request : x \notin sent' => answers'[x] = 0
      BY <1>2, <1>7, <1>8 DEF OnePlace
    <2>5. IsInjective(frontend')
      BY <1>2 DEF OnePlace
    <2> QED
      BY <1>8, <1>11, <2>1, <2>2, <2>3, <2>4, <2>5 DEF OnePlace
  <1>13. Status(r) = "assigned" /\ Status(r)' = "answered"
    <2>1. StatusTells(r) /\ StatusTells(r)'
      BY <1>12, StatusIs, StatusIsNext
    <2> QED
      BY <1>2, <1>6, <1>7, <1>8, <2>1 DEF StatusTells
  <1>14. [x \in Request |-> Status(x)]'
            = [[x \in Request |-> Status(x)] EXCEPT ![r] = "answered"]
    BY <1>2, <1>8, <1>10, <1>12, <1>13, OneMoves
  <1>15. Service!Answer(r)
    BY <1>4, <1>13, <1>14 DEF Service!Answer, Service!Move
  <1> QED
    BY <1>12, <1>15 DEF Service!Next

----------------------------------------------------------------------------

LEMMA InitServes ==
    ASSUME Init
    PROVE  OnePlace /\ Service!Init
  <1>1. /\ \A w \in Worker : /\ toQueue[w] = << >> /\ toWorker[w] = << >>
                            /\ job[w] = NoJob
        /\ frontend = << >> /\ sent = {} /\ answers = [r \in Request |-> 0]
    BY DEF Init
  <1>2. \A w \in Worker : Tidy(w) /\ \A r \in Request : ~ HeldBy(w, r)
    BY <1>1, EmptyOnce, NoJobAssumption DEF Tidy, HeldBy
  <1>3. OnePlace
    BY <1>1, <1>2, EmptyOnce DEF OnePlace, IsInjective
  <1>4. \A r \in Request : Status(r) = "new"
    BY <1>1 DEF Status
  <1> QED
    BY <1>1, <1>3, <1>4 DEF Service!Init

LEMMA NextServes ==
    ASSUME IInv, OnePlace, [Next]_vars
    PROVE  OnePlace' /\ Service!Next
  <1>1. CASE QueueLoop
    <2>1. CASE PollNoBackend \/ NoRequest \/ NobodyToBeat \/ PurgeOne \/ PurgeDone
      BY <2>1, QuietServes DEF PollNoBackend, NoRequest, NobodyToBeat, PurgeOne, PurgeDone,
         workerVars
    <2> QED
      BY <1>1, <2>1, ForwardRequestServes, SendHeartbeatsServes DEF QueueLoop
  <1>2. CASE Restart
    BY <1>2, RestartServes
  <1>3. CASE Tick
    BY <1>3, QuietServes DEF Tick
  <1>4. ASSUME NEW w \in Worker, QueueHandles(w) PROVE OnePlace' /\ Service!Next
    BY <1>4, SignalServes, HandleReplyServes DEF QueueHandles
  <1>5. ASSUME NEW w \in Worker, Start(w) \/ Exit(w) PROVE OnePlace' /\ Service!Next
    BY <1>5, StartServes, ExitServes
  <1>6. ASSUME NEW w \in Worker, WorkerStep(w) PROVE OnePlace' /\ Service!Next
    BY <1>6, TakeRequestServes, SendReplyServes, TakeHeartbeatServes, PollTimeoutServes,
       ReconnectServes DEF WorkerStep
  <1>7. ASSUME NEW r \in Request, Submit(r) PROVE OnePlace' /\ Service!Next
    BY <1>7, SubmitServes
  <1>8. CASE UNCHANGED vars
    BY <1>8, QuietServes DEF vars
  <1> QED
    BY <1>1, <1>2, <1>3, <1>4, <1>5, <1>6, <1>7, <1>8 DEF Next

\* A request is in one place at a time, whatever is dispatched, lost, started again or
\* reconnected (ppqueue.cpp:71, 82; ppworker.cpp:54, 94).
THEOREM InOnePlace == Spec => []OnePlace
  <1>1. Init => OnePlace
    BY InitServes
  <1>2. IInv /\ OnePlace /\ [Next]_vars => OnePlace'
    BY NextServes
  <1> QED
    BY <1>1, <1>2, Invariance, PTL DEF Spec

\* The queue and its workers implement RequestService: a request is handed to one
\* worker at most and answered at most once, and what is lost is never answered
\* (ppqueue.cpp:71, 82).
THEOREM ImplementsService == Spec => ServesOnce
  <1>1. Init => Service!Init
    BY InitServes
  <1>2. IInv /\ OnePlace /\ [Next]_vars
            => [Service!Next]_<<[r \in Request |-> Status(r)], answers>>
    BY NextServes
  <1> QED
    BY <1>1, <1>2, Invariance, InOnePlace, PTL DEF Spec, ServesOnce, Service!Spec

----------------------------------------------------------------------------
(***************************************************************************)
(* What the service promises, which holds of what implements it.           *)
(***************************************************************************)

Stages == [r \in Request |-> Status(r)]

\* Each request is at some stage, and its reply has been sent when it is "answered".
Promised(s, n) ==
    /\ s \in [Request -> Service!Stage]
    /\ n \in [Request -> {0, 1}]
    /\ \A r \in Request : n[r] = 1 <=> s[r] = "answered"

LEMMA PromiseIs ==
    /\ Service!TypeOK /\ Service!AnsweredOnce <=> Promised(Stages, answers)
    /\ (Service!TypeOK /\ Service!AnsweredOnce)' <=> Promised(Stages', answers')
  <1>1. Service!TypeOK /\ Service!AnsweredOnce <=> Promised(Stages, answers)
    BY DEF Promised, Stages, Service!TypeOK, Service!AnsweredOnce
  <1>2. (Service!TypeOK /\ Service!AnsweredOnce)' <=> Promised(Stages', answers')
    BY DEF Promised, Stages, Service!TypeOK, Service!AnsweredOnce
  <1> QED
    BY <1>1, <1>2

LEMMA PromiseMoves ==
    ASSUME NEW s, NEW n, Promised(s, n), NEW r \in Request,
           s[r] # "answered", NEW to \in Service!Stage \ {"answered"}
    PROVE  Promised([s EXCEPT ![r] = to], n)
  BY DEF Promised

LEMMA PromiseAnswers ==
    ASSUME NEW s, NEW n, Promised(s, n), NEW r \in Request, s[r] = "assigned"
    PROVE  Promised([s EXCEPT ![r] = "answered"], [n EXCEPT ![r] = @ + 1])
  <1>1. n \in [Request -> {0, 1}] /\ n[r] = 0
    BY DEF Promised
  <1>2. [n EXCEPT ![r] = @ + 1] = [n EXCEPT ![r] = 1]
    BY <1>1
  <1>3. [n EXCEPT ![r] = 1] \in [Request -> {0, 1}]
    BY <1>1
  <1>4. [s EXCEPT ![r] = "answered"] \in [Request -> Service!Stage]
    BY DEF Promised, Service!Stage
  <1>5. ASSUME NEW d \in Request
        PROVE  [n EXCEPT ![r] = 1][d] = 1 <=> [s EXCEPT ![r] = "answered"][d] = "answered"
    <2>1. CASE d = r
      BY <2>1 DEF Promised
    <2>2. CASE d # r
      BY <2>2 DEF Promised
    <2> QED
      BY <2>1, <2>2
  <1> QED
    BY <1>2, <1>3, <1>4, <1>5 DEF Promised

LEMMA PromiseLoses ==
    ASSUME NEW s, NEW n, Promised(s, n),
           NEW S \in SUBSET {r \in Request : s[r] \in {"waiting", "assigned"}}
    PROVE  Promised([r \in Request |-> IF r \in S THEN "lost" ELSE s[r]], n)
  BY DEF Promised, Service!Stage

LEMMA ServicePromises == Service!Spec => []Service!AnsweredOnce
  <1>1. Service!Init => Service!TypeOK /\ Service!AnsweredOnce
    BY DEF Service!Init, Service!TypeOK, Service!AnsweredOnce, Service!Stage
  <1>2. ASSUME Service!TypeOK, Service!AnsweredOnce, Service!Next
        PROVE  (Service!TypeOK /\ Service!AnsweredOnce)'
    <2>1. Promised(Stages, answers)
      BY <1>2, PromiseIs
    <2>2. CASE Service!Lose
      <3>1. /\ \E S \in SUBSET {r \in Request : Stages[r] \in {"waiting", "assigned"}} :
                   Stages' = [r \in Request |-> IF r \in S THEN "lost" ELSE Stages[r]]
            /\ answers' = answers
        BY <2>2 DEF Service!Lose, Stages
      <3> QED
        BY <2>1, <3>1, PromiseLoses, PromiseIs
    <2>3. ASSUME NEW r \in Request, Service!Submit(r) \/ Service!Assign(r)
          PROVE  Promised(Stages', answers')
      <3>1. PICK to \in {"waiting", "assigned"} : Stages' = [Stages EXCEPT ![r] = to]
        BY <2>3 DEF Service!Submit, Service!Assign, Service!Move, Stages
      <3>2. Stages[r] # "answered" /\ answers' = answers
        BY <2>3 DEF Service!Submit, Service!Assign, Service!Move, Stages
      <3>3. to \in Service!Stage \ {"answered"}
        BY DEF Service!Stage
      <3>4. Promised([Stages EXCEPT ![r] = to], answers)
        BY <2>1, <3>2, <3>3, PromiseMoves
      <3> QED
        BY <3>1, <3>2, <3>4
    <2>4. ASSUME NEW r \in Request, Service!Answer(r)
          PROVE  Promised(Stages', answers')
      <3>1. /\ Stages[r] = "assigned"
            /\ Stages' = [Stages EXCEPT ![r] = "answered"]
            /\ answers' = [answers EXCEPT ![r] = @ + 1]
        BY <2>4 DEF Service!Answer, Service!Move, Stages
      <3> QED
        BY <2>1, <3>1, PromiseAnswers
    <2> QED
      BY <1>2, <2>2, <2>3, <2>4, PromiseIs DEF Service!Next
  <1>3. ASSUME Service!TypeOK, Service!AnsweredOnce, UNCHANGED <<Stages, answers>>
        PROVE  (Service!TypeOK /\ Service!AnsweredOnce)'
    BY <1>3, PromiseIs
  <1> QED
    BY <1>1, <1>2, <1>3, PTL DEF Service!Spec, Stages

\* A client gets one reply at most, and none to a request that is lost (ppqueue.cpp:71,
\* 82): what is promised by the service holds of the queue that implements it.
THEOREM EachAnsweredOnce == Spec => []Service!AnsweredOnce
  BY ImplementsService, ServicePromises, PTL DEF ServesOnce

=============================================================================
