------------------------- MODULE PeerBrokersProofs -------------------------
(***************************************************************************)
(* Peer brokers keep their types, have only idle workers of their own on   *)
(* their lists, and have each request or its reply in one place, for any   *)
(* brokers with any numbers of clients and workers.                        *)
(***************************************************************************)
EXTENDS PeerBrokers, QueueLemmas, FiniteSetTheorems

----------------------------------------------------------------------------
(***************************************************************************)
(* Channels, and how many of their messages are in a set.                  *)
(***************************************************************************)

One(x, S) == IF x \in S THEN 1 ELSE 0

\* From f to g, a message more at the back of channel k, or one less in front.
Pushes(f, k, x, g) == g = [f EXCEPT ![k] = Append(@, x)]
Pops(f, k, g) == g = [f EXCEPT ![k] = Tail(@)]

\* The places, one by one.
LEMMA PlacesAre ==
    ASSUME NEW K, NEW M, NEW f \in [K -> Seq(M)], NEW S
    PROVE  \A x : x \in PlacesOf(f, S) <=>
               \E k \in K : \E i \in DOMAIN f[k] : f[k][i] \in S /\ x = <<k, i>>
  BY DEF PlacesOf

LEMMA PlaceIsPair ==
    ASSUME NEW K, NEW M, NEW f \in [K -> Seq(M)], NEW S, NEW x \in PlacesOf(f, S)
    PROVE  \E k \in K : \E i : x = <<k, i>>
  BY PlacesAre

LEMMA PlaceAt ==
    ASSUME NEW K, NEW M, NEW f \in [K -> Seq(M)], NEW S, NEW k \in K, NEW i
    PROVE  <<k, i>> \in PlacesOf(f, S) <=> i \in DOMAIN f[k] /\ f[k][i] \in S
  <1>1. ASSUME <<k, i>> \in PlacesOf(f, S) PROVE i \in DOMAIN f[k] /\ f[k][i] \in S
    <2>1. PICK j \in K : \E h \in DOMAIN f[j] : f[j][h] \in S /\ <<k, i>> = <<j, h>>
      BY <1>1, PlacesAre
    <2> QED
      BY <2>1
  <1>2. ASSUME i \in DOMAIN f[k], f[k][i] \in S PROVE <<k, i>> \in PlacesOf(f, S)
    BY <1>2, PlacesAre
  <1> QED
    BY <1>1, <1>2

\* A message more at the back of channel k.
LEMMA PushChannel ==
    ASSUME NEW K, NEW M, NEW f \in [K -> Seq(M)], NEW k \in K, NEW x \in M
    PROVE  LET g == [f EXCEPT ![k] = Append(@, x)]
           IN  /\ g \in [K -> Seq(M)]
               /\ g[k] = Append(f[k], x)
               /\ \A j \in K \ {k} : g[j] = f[j]
  <1> DEFINE g == [f EXCEPT ![k] = Append(@, x)]
  <1>1. /\ g \in [K -> Seq(M)]
        /\ g[k] = Append(f[k], x)
        /\ \A j \in K \ {k} : g[j] = f[j]
    BY AppendPositions
  <1> QED
    BY <1>1

LEMMA PushCount ==
    ASSUME NEW K, NEW M, NEW f \in [K -> Seq(M)], NEW k \in K, NEW x \in M,
           NEW g, Pushes(f, k, x, g), NEW S, IsFiniteSet(PlacesOf(f, S))
    PROVE  /\ IsFiniteSet(PlacesOf(g, S))
           /\ Count(f, S) \in Nat
           /\ Count(g, S) = Count(f, S) + One(x, S)
  <1> DEFINE n == Len(f[k]) + 1
  <1>1. /\ g \in [K -> Seq(M)]
        /\ g[k] = Append(f[k], x)
        /\ \A j \in K \ {k} : g[j] = f[j]
    BY PushChannel DEF Pushes
  <1>2. /\ DOMAIN f[k] = 1 .. n - 1 /\ DOMAIN g[k] = 1 .. n /\ n \in Nat
        /\ \A i \in 1 .. n - 1 : g[k][i] = f[k][i]
        /\ g[k][n] = x
    BY <1>1, AppendPositions
  <1>3. <<k, n>> \notin PlacesOf(f, S)
    BY <1>2, PlacesAre
  <1>4. ASSUME NEW p
        PROVE  p \in PlacesOf(g, S) <=> p \in PlacesOf(f, S) \/ (x \in S /\ p = <<k, n>>)
    <2>1. ASSUME NEW j \in K, NEW i
          PROVE  i \in DOMAIN g[j] /\ g[j][i] \in S <=>
                     (i \in DOMAIN f[j] /\ f[j][i] \in S) \/ (x \in S /\ j = k /\ i = n)
      <3>1. CASE j = k
        BY <1>1, <1>2, <3>1
      <3>2. CASE j # k
        BY <1>1, <3>2
      <3> QED
        BY <3>1, <3>2
    <2>2. \A j \in K : \A i : /\ <<j, i>> \in PlacesOf(g, S) <=> i \in DOMAIN g[j] /\ g[j][i] \in S
                              /\ <<j, i>> \in PlacesOf(f, S) <=> i \in DOMAIN f[j] /\ f[j][i] \in S
      BY <1>1, PlaceAt
    <2>3. ASSUME NEW j \in K, NEW i, p = <<j, i>>
          PROVE  p \in PlacesOf(g, S) <=> p \in PlacesOf(f, S) \/ (x \in S /\ p = <<k, n>>)
      BY <2>1, <2>2, <2>3
    <2>4. p \in PlacesOf(g, S) \/ p \in PlacesOf(f, S) \/ p = <<k, n>> =>
              \E j \in K : \E i : p = <<j, i>>
      BY <1>1, PlaceIsPair
    <2> QED
      BY <2>3, <2>4
  <1>5. PlacesOf(g, S) = IF x \in S THEN PlacesOf(f, S) \cup {<<k, n>>} ELSE PlacesOf(f, S)
    BY <1>4
  <1>6. Count(f, S) \in Nat
    BY FS_CardinalityType DEF Count
  <1> HIDE DEF n
  <1>7. CASE x \in S
    <2>1. PlacesOf(g, S) = PlacesOf(f, S) \cup {<<k, n>>}
      BY <1>5, <1>7
    <2>2. /\ IsFiniteSet(PlacesOf(f, S) \cup {<<k, n>>})
          /\ Cardinality(PlacesOf(f, S) \cup {<<k, n>>}) = Cardinality(PlacesOf(f, S)) + 1
      BY <1>3, FS_AddElement
    <2> QED
      BY <1>6, <1>7, <2>1, <2>2 DEF Count, One
  <1>8. CASE x \notin S
    BY <1>5, <1>6, <1>8 DEF Count, One
  <1> QED
    BY <1>6, <1>7, <1>8

\* A message less at the front of channel k.
LEMMA PopChannel ==
    ASSUME NEW K, NEW M, NEW f \in [K -> Seq(M)], NEW k \in K, f[k] # << >>
    PROVE  LET g == [f EXCEPT ![k] = Tail(@)]
           IN  /\ g \in [K -> Seq(M)]
               /\ g[k] = Tail(f[k])
               /\ \A j \in K \ {k} : g[j] = f[j]
               /\ Range(Tail(f[k])) \subseteq Range(f[k])
               /\ Head(f[k]) \in M
               /\ Head(f[k]) \in Range(f[k])
  <1> DEFINE g == [f EXCEPT ![k] = Tail(@)]
  <1>1. /\ g \in [K -> Seq(M)]
        /\ g[k] = Tail(f[k])
        /\ \A j \in K \ {k} : g[j] = f[j]
    BY TailPositions
  <1>2. Range(Tail(f[k])) \subseteq Range(f[k])
    BY TailRange
  <1>3. Head(f[k]) \in M /\ Head(f[k]) \in Range(f[k])
    BY TailPositions, HeadIsMember
  <1> QED
    BY <1>1, <1>2, <1>3

LEMMA PopCount ==
    ASSUME NEW K, NEW M, NEW f \in [K -> Seq(M)], NEW k \in K, f[k] # << >>,
           NEW g, Pops(f, k, g), NEW S, IsFiniteSet(PlacesOf(f, S))
    PROVE  /\ IsFiniteSet(PlacesOf(g, S))
           /\ Count(f, S) \in Nat
           /\ Count(g, S) = Count(f, S) - One(Head(f[k]), S)
  <1> DEFINE front == <<k, 1>>
             rest == PlacesOf(f, S) \ {front}
             move == [p \in rest |-> IF p[1] = k THEN <<k, p[2] - 1>> ELSE p]
  <1>1. /\ g \in [K -> Seq(M)]
        /\ g[k] = Tail(f[k])
        /\ \A j \in K \ {k} : g[j] = f[j]
    BY PopChannel DEF Pops
  <1>2. /\ DOMAIN f[k] = 1 .. Len(f[k]) /\ Len(f[k]) \in Nat /\ Len(f[k]) >= 1
        /\ DOMAIN g[k] = 1 .. Len(f[k]) - 1
        /\ \A i \in 1 .. Len(f[k]) - 1 : g[k][i] = f[k][i + 1]
        /\ Head(f[k]) = f[k][1]
    BY <1>1, TailPositions
  <1>3. front \in PlacesOf(f, S) <=> Head(f[k]) \in S
    <2>1. front \in PlacesOf(f, S) <=> 1 \in DOMAIN f[k] /\ f[k][1] \in S
      BY PlaceAt
    <2> QED
      BY <1>2, <2>1
  <1>4. \A j \in K : \A i : <<j, i>> \in PlacesOf(f, S) <=> i \in DOMAIN f[j] /\ f[j][i] \in S
    BY PlaceAt
  <1>5. \A j \in K : \A i : <<j, i>> \in PlacesOf(g, S) <=> i \in DOMAIN g[j] /\ g[j][i] \in S
    BY <1>1, PlaceAt
  <1>6. \A p \in rest : \E j \in K : \E i : p = <<j, i>>
    BY PlaceIsPair
  <1>7. \A p \in PlacesOf(g, S) : \E j \in K : \E i : p = <<j, i>>
    BY <1>1, PlaceIsPair
  <1>8. ASSUME NEW p \in rest
        PROVE  /\ move[p] \in PlacesOf(g, S)
               /\ p[1] = k => p[2] \in 2 .. Len(f[k]) /\ p = <<k, p[2]>>
               /\ p[1] # k => move[p][1] # k
    <2>1. PICK j \in K : \E i : p = <<j, i>>
      BY <1>6
    <2>2. PICK i : p = <<j, i>>
      BY <2>1
    <2>3. i \in DOMAIN f[j] /\ f[j][i] \in S
      BY <1>4, <2>2
    <2>4. CASE j = k
      <3>1. i \in 2 .. Len(f[k])
        BY <1>2, <2>2, <2>3, <2>4
      <3>2. i - 1 \in DOMAIN g[k] /\ g[k][i - 1] = f[k][i]
        BY <1>2, <3>1
      <3>3. <<k, i - 1>> \in PlacesOf(g, S)
        BY <1>5, <2>3, <2>4, <3>2
      <3> QED
        BY <2>2, <2>4, <3>1, <3>3
    <2>5. CASE j # k
      BY <1>1, <1>5, <2>2, <2>3, <2>5
    <2> QED
      BY <2>4, <2>5
  <1>9. ASSUME NEW p \in rest, NEW q \in rest, move[p] = move[q]
        PROVE  p = q
    <2>1. CASE p[1] = k /\ q[1] = k
      <3>1. /\ p[2] \in 2 .. Len(f[k]) /\ q[2] \in 2 .. Len(f[k])
            /\ p = <<k, p[2]>> /\ q = <<k, q[2]>>
        BY <1>8, <2>1
      <3>2. <<k, p[2] - 1>> = <<k, q[2] - 1>>
        BY <1>9, <2>1
      <3>3. p[2] - 1 = q[2] - 1
        BY <3>2
      <3>4. p[2] \in Int /\ q[2] \in Int
        BY <1>2, <3>1
      <3>5. p[2] = q[2]
        BY <3>3, <3>4
      <3> QED
        BY <3>1, <3>5, Zenon
    <2>2. CASE p[1] # k /\ q[1] # k
      BY <1>9, <2>2
    <2>3. CASE ~ (p[1] = k <=> q[1] = k)
      BY <1>8, <1>9, <2>3
    <2> QED
      BY <2>1, <2>2, <2>3
  <1>10. ASSUME NEW q \in PlacesOf(g, S)
         PROVE  \E p \in rest : move[p] = q
    <2>1. PICK j \in K : \E i : q = <<j, i>>
      BY <1>7
    <2>2. PICK i : q = <<j, i>>
      BY <2>1
    <2>3. i \in DOMAIN g[j] /\ g[j][i] \in S
      BY <1>5, <2>2
    <2>4. CASE j = k
      <3>1. i \in 1 .. Len(f[k]) - 1 /\ f[k][i + 1] \in S /\ i + 1 \in DOMAIN f[k]
        BY <1>2, <2>2, <2>3, <2>4
      <3>2. <<k, i + 1>> \in PlacesOf(f, S) /\ i + 1 # 1 /\ (i + 1) - 1 = i
        BY <1>2, <1>4, <3>1
      <3>3. <<k, i + 1>> \in rest /\ <<k, i + 1>>[1] = k /\ <<k, i + 1>>[2] = i + 1
        BY <3>2
      <3>4. move[<<k, i + 1>>] = <<k, i>>
        BY <3>2, <3>3
      <3> QED
        BY <2>2, <2>4, <3>3, <3>4
    <2>5. CASE j # k
      <3>1. q \in rest /\ q[1] # k
        BY <1>1, <1>4, <2>2, <2>3, <2>5
      <3> QED
        BY <3>1
    <2> QED
      BY <2>4, <2>5
  <1>11. ExistsBijection(rest, PlacesOf(g, S))
    <2>1. move \in [rest -> PlacesOf(g, S)]
      BY <1>8
    <2>2. move \in Bijection(rest, PlacesOf(g, S))
      BY <1>9, <1>10, <2>1 DEF Bijection, Injection, Surjection, IsInjective
    <2> QED
      BY <2>2 DEF ExistsBijection
  <1>12. /\ IsFiniteSet(rest)
         /\ Cardinality(rest) = IF front \in PlacesOf(f, S) THEN Count(f, S) - 1 ELSE Count(f, S)
    BY FS_RemoveElement DEF Count
  <1>13. IsFiniteSet(PlacesOf(g, S)) /\ Count(g, S) = Cardinality(rest)
    <2> HIDE DEF rest
    <2> QED
      BY <1>11, <1>12, FS_Bijection DEF Count
  <1>14. Count(f, S) \in Nat
    BY FS_CardinalityType DEF Count
  <1> QED
    BY <1>3, <1>12, <1>13, <1>14 DEF One

----------------------------------------------------------------------------
(***************************************************************************)
(* The inductive invariant.                                                *)
(***************************************************************************)

\* A ready worker is on the list of its own broker, and there once.
ListsAreOwn ==
    \A b \in Broker : IsInjective(ready[b]) /\ \A w \in Range(ready[b]) : Home(w) = b

\* A worker is in one place at most: ready, with a message to its broker, with
\* one from it, or at work; and it has a job only while at work.
WorkerInOnePlace(w) ==
    /\ wpc[w] # "waiting" => w \notin Range(ready[Home(w)])
    /\ wpc[w] # "waiting" \/ w \in Range(ready[Home(w)]) =>
           localbe[w] = << >> /\ toWorker[w] = << >>
    /\ localbe[w] # << >> => toWorker[w] = << >>
    /\ Len(localbe[w]) <= 1
    /\ Len(toWorker[w]) <= 1
    /\ IF wpc[w] = "working" THEN job[w] \in Envelope ELSE job[w] = NoJob

OnePlace == \A w \in Worker : WorkerInOnePlace(w)

\* The frames of envelope e lead from worker w to the broker of the client: to
\* another one if they name it, else to the broker of w itself.
LeadsHome(w, e) ==
    e # WORKER_READY =>
        /\ From(e) # Home(w)
        /\ Home(For(e)) = IF From(e) = Local THEN Home(w) ELSE From(e)

\* Whose client's messages a channel carries.
ChannelsLeadHome ==
    /\ \A b \in Broker : \A c \in Range(localfe[b]) : Home(c) = b
    /\ \A k \in Link : \A c \in Range(cloudfe[k]) : Home(c) = k[2]
    /\ \A k \in Link : \A c \in Range(cloudbe[k]) : Home(c) = k[1]
    /\ \A w \in Worker : \A e \in Range(localbe[w]) : LeadsHome(w, e)
    /\ \A w \in Worker : \A e \in Range(toWorker[w]) : LeadsHome(w, e)
    /\ \A w \in Worker : LeadsHome(w, job[w])

\* What the count of a client's messages relies on.
Base == TypeOK /\ ListsAreOwn /\ OnePlace /\ ChannelsLeadHome

\* The workers that are at work for client c, when they have the jobs j.
WorkingFor(j, c) == {w \in Worker : j[w] \in EnvelopesOf(c)}
AtWork(j, c) == Cardinality(WorkingFor(j, c))

\* Each message is of one client, and there are finitely many of them.
FiniteUnderWay(c) ==
    /\ IsFiniteSet(PlacesOf(localfe, {c}))
    /\ IsFiniteSet(PlacesOf(cloudfe, {c}))
    /\ IsFiniteSet(PlacesOf(cloudbe, {c}))
    /\ IsFiniteSet(PlacesOf(toWorker, EnvelopesOf(c)))
    /\ IsFiniteSet(PlacesOf(localbe, EnvelopesOf(c)))
    /\ IsFiniteSet(WorkingFor(job, c))

\* A client whose request has been dropped does not send another.
DroppedWait == \A c \in dropped : cpc[c] = "waiting"

\* What every step keeps.  That a client has one message under way takes that
\* none goes astray, which Base says: ToLocalfe drops what is not its own.
IInv ==
    /\ Base
    /\ \A c \in Client : FiniteUnderWay(c)
    /\ InOnePlace
    /\ DroppedWait

----------------------------------------------------------------------------
(***************************************************************************)
(* Types, lists and channels, action by action.                            *)
(***************************************************************************)

LEMMA Homes ==
    /\ \A w \in Worker : Home(w) \in Broker
    /\ \A c \in Client : Home(c) \in Broker
  BY DEF Worker, Client, Home

LEMMA Envelopes ==
    /\ \A e \in Envelope : /\ From(e) \in Broker \cup {Local}
                           /\ For(e) \in Client
                           /\ e # WORKER_READY
    /\ \A f \in Broker \cup {Local}, c \in Client :
           /\ <<f, c>> \in Envelope
           /\ From(<<f, c>>) = f
           /\ For(<<f, c>>) = c
  BY DEF Envelope, From, For, WORKER_READY

LEMMA InitBase == Init => Base
  <1> SUFFICES ASSUME Init PROVE Base
    OBVIOUS
  <1>1. Range(<< >>) = {} /\ IsInjective(<< >>)
    BY DEF Range, IsInjective
  <1>2. TypeOK
    BY DEF Init, TypeOK, NoJob
  <1>3. ListsAreOwn
    BY <1>1 DEF Init, ListsAreOwn
  <1>4. OnePlace
    BY <1>1, Homes, EmptyLength DEF Init, OnePlace, WorkerInOnePlace
  <1>5. ChannelsLeadHome
    BY <1>1 DEF Init, ChannelsLeadHome, LeadsHome, NoJob, WORKER_READY
  <1> QED
    BY <1>2, <1>3, <1>4, <1>5 DEF Base

\* Frames that lead home reach the broker of their client.
LEMMA SendReplyLeadsHome ==
    ASSUME Base, NEW b \in Broker, NEW w \in Worker, Home(w) = b,
           NEW e \in Envelope, LeadsHome(w, e), SendReply(b, e)
    PROVE  /\ cloudbe' \in [Link -> Seq(Client)]
           /\ toClient' \in [Client -> Nat]
           /\ \A k \in Link : \A c \in Range(cloudbe'[k]) : Home(c) = k[1]
           /\ \/ /\ From(e) \in Peers(b)
                 /\ cloudbe' = [cloudbe EXCEPT ![<<From(e), b>>] = Append(@, For(e))]
                 /\ toClient' = toClient
              \/ /\ cloudbe' = cloudbe
                 /\ toClient' = [toClient EXCEPT ![For(e)] = @ + 1]
  <1>1. /\ cloudbe \in [Link -> Seq(Client)]
        /\ toClient \in [Client -> Nat]
        /\ \A k \in Link : \A c \in Range(cloudbe[k]) : Home(c) = k[1]
    BY DEF Base, TypeOK, ChannelsLeadHome
  <1>2. /\ For(e) \in Client /\ From(e) \in Broker \cup {Local}
        /\ From(e) # b /\ Home(For(e)) = IF From(e) = Local THEN b ELSE From(e)
    BY Envelopes DEF LeadsHome
  <1>3. CASE From(e) \in Peers(b)
    <2> DEFINE k == <<From(e), b>>
    <2>1. /\ cloudbe' = [cloudbe EXCEPT ![k] = Append(@, For(e))]
          /\ toClient' = toClient
      BY <1>3 DEF SendReply
    <2>2. k \in Link /\ k[1] = From(e) /\ From(e) # Local
      BY <1>3, NameAssumption DEF Peers, Link
    <2>3. /\ cloudbe' \in [Link -> Seq(Client)]
          /\ \A j \in Link \ {k} : cloudbe'[j] = cloudbe[j]
          /\ Range(cloudbe'[k]) = Range(cloudbe[k]) \cup {For(e)}
      <3>1. For(e) \in Client /\ k \in Link /\ cloudbe \in [Link -> Seq(Client)]
        BY <1>1, <1>2, <2>2
      <3>2. cloudbe' = [cloudbe EXCEPT ![k] = Append(@, For(e))]
        BY <2>1
      <3> HIDE DEF k
      <3>3. /\ cloudbe' \in [Link -> Seq(Client)]
            /\ cloudbe'[k] = Append(cloudbe[k], For(e))
            /\ \A j \in Link \ {k} : cloudbe'[j] = cloudbe[j]
        BY <3>1, <3>2, PushChannel
      <3>4. Range(Append(cloudbe[k], For(e))) = Range(cloudbe[k]) \cup {For(e)}
        BY <3>1, AppendRange
      <3> QED
        BY <3>3, <3>4
    <2> HIDE DEF k
    <2>4. \A j \in Link : \A c \in Range(cloudbe'[j]) : Home(c) = j[1]
      BY <1>1, <1>2, <2>2, <2>3
    <2> QED
      BY <1>1, <1>3, <2>1, <2>3, <2>4 DEF k
  <1>4. CASE From(e) \notin Peers(b)
    <2>1. From(e) = Local /\ Home(For(e)) = b
      BY <1>2, <1>4 DEF Peers
    <2>2. /\ cloudbe' = cloudbe
          /\ toClient' = [toClient EXCEPT ![For(e)] = @ + 1]
      BY <1>4, <2>1 DEF SendReply, ToLocalfe, Delivered
    <2> QED
      BY <1>1, <1>2, <2>2
  <1> QED
    BY <1>3, <1>4

LEMMA FromLocalbeBase ==
    ASSUME Base, NEW b \in Broker, NEW w \in OwnWorkers(b), FromLocalbe(b, w)
    PROVE  Base'
  <1> DEFINE e == Head(localbe[w])
             M == {WORKER_READY} \cup Envelope
  <1>1. /\ w \in Worker /\ Home(w) = b
        /\ localbe \in [Worker -> Seq(M)] /\ localbe[w] # << >>
        /\ localbe' = [localbe EXCEPT ![w] = Tail(@)]
        /\ ready \in [Broker -> Seq(Worker)]
        /\ ready' = [ready EXCEPT ![b] = Append(@, w)]
        /\ pc' = [pc EXCEPT ![b] = "frontends"]
        /\ UNCHANGED <<linkVars, localfe, cloudfe, toWorker, workerVars, cpc>>
    BY DEF Base, TypeOK, OwnWorkers, FromLocalbe
  <1>2. /\ wpc[w] = "waiting" /\ w \notin Range(ready[b]) /\ toWorker[w] = << >>
        /\ Len(localbe[w]) <= 1
        /\ IsInjective(ready[b])
    BY <1>1 DEF Base, OnePlace, WorkerInOnePlace, ListsAreOwn
  <1>3. /\ localbe' \in [Worker -> Seq(M)]
        /\ \A v \in Worker \ {w} : localbe'[v] = localbe[v]
        /\ localbe'[w] = << >>
        /\ e \in M /\ e \in Range(localbe[w])
    <2> HIDE DEF M
    <2>1. /\ localbe' \in [Worker -> Seq(M)]
          /\ localbe'[w] = Tail(localbe[w])
          /\ \A v \in Worker \ {w} : localbe'[v] = localbe[v]
          /\ e \in M /\ e \in Range(localbe[w])
      BY <1>1, PopChannel
    <2>2. Tail(localbe[w]) = << >>
      BY <1>1, <1>2, OnlyMessage
    <2> QED
      BY <2>1, <2>2
  <1>4. /\ ready' \in [Broker -> Seq(Worker)]
        /\ \A d \in Broker \ {b} : ready'[d] = ready[d]
        /\ IsInjective(ready'[b]) /\ Range(ready'[b]) = Range(ready[b]) \cup {w}
    BY <1>1, <1>2, PushMembers, PushChannel
  <1>5. /\ cloudbe' \in [Link -> Seq(Client)]
        /\ toClient' \in [Client -> Nat]
        /\ \A k \in Link : \A c \in Range(cloudbe'[k]) : Home(c) = k[1]
    <2>1. CASE e = WORKER_READY
      BY <2>1 DEF FromLocalbe, Base, TypeOK, ChannelsLeadHome
    <2>2. CASE e # WORKER_READY
      <3>1. e \in Envelope /\ LeadsHome(w, e) /\ SendReply(b, e)
        BY <1>1, <1>3, <2>2 DEF FromLocalbe, Base, ChannelsLeadHome
      <3> QED
        BY <1>1, <3>1, SendReplyLeadsHome
    <2> QED
      BY <2>1, <2>2
  <1>6. TypeOK'
    BY <1>1, <1>3, <1>4, <1>5 DEF Base, TypeOK, linkVars, workerVars
  <1>7. ListsAreOwn'
    BY <1>1, <1>4 DEF Base, ListsAreOwn
  <1>8. OnePlace'
    <2>1. ASSUME NEW v \in Worker PROVE WorkerInOnePlace(v)'
      <3>1. /\ WorkerInOnePlace(v) /\ Home(v) \in Broker
            /\ wpc'[v] = wpc[v] /\ toWorker'[v] = toWorker[v] /\ job'[v] = job[v]
        BY <1>1, Homes DEF Base, OnePlace, workerVars
      <3>2. CASE v = w
        BY <1>1, <1>2, <1>3, <3>1, <3>2, EmptyLength DEF WorkerInOnePlace
      <3>3. CASE v # w
        <4>1. v \in Range(ready'[Home(v)]) <=> v \in Range(ready[Home(v)])
          BY <1>4, <3>1, <3>3
        <4> QED
          BY <1>3, <3>1, <3>3, <4>1 DEF WorkerInOnePlace
      <3> QED
        BY <3>2, <3>3
    <2> QED
      BY <2>1 DEF OnePlace
  <1>9. ChannelsLeadHome'
    <2>1. Range(localbe'[w]) = {}
      BY <1>3 DEF Range
    <2> QED
      BY <1>1, <1>3, <1>5, <2>1 DEF Base, ChannelsLeadHome, LeadsHome, workerVars
  <1> QED
    BY <1>6, <1>7, <1>8, <1>9 DEF Base

\* A reply that a peer sends back is for a client of the broker.
LEMMA FromCloudbeBase ==
    ASSUME Base, NEW b \in Broker, NEW p \in Peers(b), FromCloudbe(b, p)
    PROVE  /\ Base'
           /\ Head(cloudbe[<<b, p>>]) \in Client
           /\ toClient' = [toClient EXCEPT ![Head(cloudbe[<<b, p>>])] = @ + 1]
  <1> DEFINE k == <<b, p>>
             c == Head(cloudbe[k])
  <1>1. /\ k \in Link /\ k[1] = b
        /\ cloudbe \in [Link -> Seq(Client)] /\ cloudbe[k] # << >>
        /\ cloudbe' = [cloudbe EXCEPT ![k] = Tail(@)]
        /\ pc' = [pc EXCEPT ![b] = "frontends"]
        /\ toClient \in [Client -> Nat] /\ toClient' = Delivered(b, c)
        /\ UNCHANGED <<linkVars, ready, localfe, cloudfe, localbe, toWorker, workerVars, cpc>>
    BY DEF Base, TypeOK, FromCloudbe, Peers, Link
  <1>2. /\ cloudbe' \in [Link -> Seq(Client)]
        /\ \A j \in Link \ {k} : cloudbe'[j] = cloudbe[j]
        /\ Range(cloudbe'[k]) \subseteq Range(cloudbe[k])
        /\ c \in Client /\ c \in Range(cloudbe[k])
    <2> HIDE DEF k
    <2> QED
      BY <1>1, PopChannel
  <1> HIDE DEF k
  <1>3. Home(c) = b
    BY <1>1, <1>2 DEF Base, ChannelsLeadHome
  <1>4. toClient' = [toClient EXCEPT ![c] = @ + 1]
    BY <1>1, <1>3 DEF Delivered
  <1>5. TypeOK'
    <2>1. toClient' \in [Client -> Nat]
      BY <1>1, <1>2, <1>4
    <2> QED
      BY <1>1, <1>2, <2>1 DEF Base, TypeOK, linkVars, workerVars
  <1>6. ListsAreOwn' /\ OnePlace'
    BY <1>1 DEF Base, ListsAreOwn, OnePlace, WorkerInOnePlace, workerVars
  <1>7. ChannelsLeadHome'
    <2>1. \A j \in Link : \A d \in Range(cloudbe'[j]) : Home(d) = j[1]
      BY <1>1, <1>2 DEF Base, ChannelsLeadHome
    <2> QED
      BY <1>1, <2>1 DEF Base, ChannelsLeadHome, LeadsHome, workerVars
  <1> QED
    BY <1>2, <1>4, <1>5, <1>6, <1>7 DEF Base, k

\* The steps of a broker and its connections that move no message.
LEMMA QuietBase ==
    ASSUME Base, NEW b \in Broker,
           PollTimesOut(b) \/ RoutingDone(b) \/ \E p \in Peers(b) : Connect(b, p)
    PROVE  /\ Base'
           /\ UNCHANGED <<dropped, localfe, cloudfe, cloudbe, localbe, toWorker, job, cpc,
                          toClient>>
  <1>1. UNCHANGED <<dropped, ready, localfe, cloudfe, cloudbe, localbe, toWorker, workerVars,
                    cpc, toClient>>
    BY DEF PollTimesOut, RoutingDone, Connect, linkVars, brokerVars
  <1>2. TypeOK'
    <2>1. CASE \E p \in Peers(b) : Connect(b, p)
      BY <1>1, <2>1 DEF Base, TypeOK, Connect, Peers, brokerVars, workerVars
    <2>2. CASE PollTimesOut(b) \/ RoutingDone(b)
      BY <1>1, <2>2 DEF Base, TypeOK, PollTimesOut, RoutingDone, linkVars, workerVars
    <2> QED
      BY <2>1, <2>2
  <1>3. ListsAreOwn' /\ OnePlace' /\ ChannelsLeadHome'
    BY <1>1 DEF Base, ListsAreOwn, OnePlace, WorkerInOnePlace, ChannelsLeadHome, LeadsHome,
                workerVars
  <1> QED
    BY <1>1, <1>2, <1>3 DEF Base, workerVars

\* The first of the ready workers gets a request whose frames lead home from it.
LEMMA GiveToWorkerBase ==
    ASSUME Base, NEW b \in Broker, ready[b] # << >>, NEW e \in Envelope,
           \A w \in OwnWorkers(b) : LeadsHome(w, e),
           GiveToWorker(b, e), UNCHANGED <<localbe, workerVars>>
    PROVE  /\ toWorker' \in [Worker -> Seq(Envelope)]
           /\ ready' \in [Broker -> Seq(Worker)]
           /\ ListsAreOwn'
           /\ OnePlace'
           /\ \A w \in Worker : \A d \in Range(toWorker'[w]) : LeadsHome(w, d)
           /\ \E w \in Worker : toWorker' = [toWorker EXCEPT ![w] = Append(@, e)]
  <1>1. /\ ready \in [Broker -> Seq(Worker)] /\ ready[b] \in Seq(Worker)
        /\ IsInjective(ready[b]) /\ \A w \in Range(ready[b]) : Home(w) = b
        /\ toWorker \in [Worker -> Seq(Envelope)]
    BY DEF Base, TypeOK, ListsAreOwn
  <1>2. PICK w \in Worker : w = Head(ready[b]) /\ w \in Range(ready[b])
    BY <1>1, TailPositions, HeadIsMember
  <1>3. /\ Home(w) = b /\ wpc[w] = "waiting"
        /\ localbe[w] = << >> /\ toWorker[w] = << >> /\ job[w] = NoJob
    BY <1>1, <1>2 DEF Base, OnePlace, WorkerInOnePlace
  <1>4. /\ toWorker' = [toWorker EXCEPT ![w] = Append(@, e)]
        /\ ready' = [ready EXCEPT ![b] = Tail(@)]
    BY <1>2 DEF GiveToWorker
  <1>5. /\ toWorker' \in [Worker -> Seq(Envelope)]
        /\ toWorker'[w] = <<e>>
        /\ \A v \in Worker \ {w} : toWorker'[v] = toWorker[v]
    <2>1. /\ toWorker' \in [Worker -> Seq(Envelope)]
          /\ toWorker'[w] = Append(toWorker[w], e)
          /\ \A v \in Worker \ {w} : toWorker'[v] = toWorker[v]
      BY <1>1, <1>4, PushChannel
    <2> QED
      BY <1>3, <2>1
  <1>6. /\ ready' \in [Broker -> Seq(Worker)]
        /\ \A d \in Broker \ {b} : ready'[d] = ready[d]
        /\ IsInjective(ready'[b]) /\ Range(ready'[b]) = Range(ready[b]) \ {w}
    BY <1>1, <1>2, <1>4, PopMembers, PopChannel
  <1>7. ListsAreOwn'
    BY <1>1, <1>6 DEF Base, ListsAreOwn
  <1>8. OnePlace'
    <2>1. ASSUME NEW v \in Worker PROVE WorkerInOnePlace(v)'
      <3>1. /\ WorkerInOnePlace(v) /\ Home(v) \in Broker
            /\ wpc'[v] = wpc[v] /\ localbe'[v] = localbe[v] /\ job'[v] = job[v]
        BY Homes DEF Base, OnePlace, workerVars
      <3>2. CASE v = w
        <4>1. Len(<<e>>) = 1 /\ Len(<< >>) = 0 /\ v \notin Range(ready'[Home(v)])
          BY <1>3, <1>6, <3>2
        <4>2. /\ wpc'[v] = "waiting" /\ job'[v] = NoJob
              /\ localbe'[v] = << >> /\ toWorker'[v] = <<e>>
          BY <1>3, <1>5, <3>1, <3>2
        <4> QED
          BY <4>1, <4>2 DEF WorkerInOnePlace
      <3>3. CASE v # w
        <4>1. v \in Range(ready'[Home(v)]) <=> v \in Range(ready[Home(v)])
          BY <1>6, <3>1, <3>3
        <4> QED
          BY <1>5, <3>1, <3>3, <4>1 DEF WorkerInOnePlace
      <3> QED
        BY <3>2, <3>3
    <2> QED
      BY <2>1 DEF OnePlace
  <1>9. \A v \in Worker : \A d \in Range(toWorker'[v]) : LeadsHome(v, d)
    <2>1. Range(<<e>>) = {e} /\ LeadsHome(w, e)
      BY <1>3 DEF Range, OwnWorkers
    <2> QED
      BY <1>5, <2>1 DEF Base, ChannelsLeadHome
  <1> QED
    BY <1>4, <1>5, <1>6, <1>7, <1>8, <1>9

LEMMA RouteCloudBase ==
    ASSUME Base, NEW b \in Broker, NEW p \in Peers(b), RouteCloud(b, p)
    PROVE  /\ Base'
           /\ Head(cloudfe[<<b, p>>]) \in Client
           /\ \E w \in Worker :
                  toWorker' = [toWorker EXCEPT ![w] = Append(@, <<p, Head(cloudfe[<<b, p>>])>>)]
  <1> DEFINE k == <<b, p>>
             c == Head(cloudfe[k])
             e == <<p, c>>
  <1>1. /\ k \in Link /\ k[2] = p /\ p \in Broker /\ p # b
        /\ cloudfe \in [Link -> Seq(Client)] /\ cloudfe[k] # << >>
        /\ cloudfe' = [cloudfe EXCEPT ![k] = Tail(@)]
        /\ ready[b] # << >> /\ GiveToWorker(b, e)
        /\ UNCHANGED <<linkVars, pc, localfe, cloudbe, localbe, workerVars, cpc, toClient>>
    BY DEF Base, TypeOK, RouteCloud, Peers, Link
  <1>2. /\ cloudfe' \in [Link -> Seq(Client)]
        /\ \A j \in Link \ {k} : cloudfe'[j] = cloudfe[j]
        /\ Range(cloudfe'[k]) \subseteq Range(cloudfe[k])
        /\ c \in Client /\ c \in Range(cloudfe[k])
    <2> HIDE DEF k
    <2> QED
      BY <1>1, PopChannel
  <1>3. Home(c) = p
    <2> HIDE DEF k
    <2> QED
      BY <1>1, <1>2 DEF Base, ChannelsLeadHome
  <1>4. e \in Envelope /\ From(e) = p /\ For(e) = c
    <2> HIDE DEF c
    <2> QED
      BY <1>1, <1>2, Envelopes
  <1> HIDE DEF k, c, e
  <1>5. \A w \in OwnWorkers(b) : LeadsHome(w, e)
    BY <1>1, <1>3, <1>4, NameAssumption DEF OwnWorkers, LeadsHome
  <1>6. /\ toWorker' \in [Worker -> Seq(Envelope)]
        /\ ready' \in [Broker -> Seq(Worker)]
        /\ ListsAreOwn' /\ OnePlace'
        /\ \A w \in Worker : \A d \in Range(toWorker'[w]) : LeadsHome(w, d)
        /\ \E w \in Worker : toWorker' = [toWorker EXCEPT ![w] = Append(@, e)]
    BY <1>1, <1>4, <1>5, GiveToWorkerBase
  <1>7. TypeOK'
    BY <1>1, <1>2, <1>6 DEF Base, TypeOK, linkVars, workerVars
  <1>8. ChannelsLeadHome'
    <2>1. \A j \in Link : \A d \in Range(cloudfe'[j]) : Home(d) = j[2]
      BY <1>2 DEF Base, ChannelsLeadHome
    <2> QED
      BY <1>1, <1>6, <2>1 DEF Base, ChannelsLeadHome, LeadsHome, workerVars
  <1> QED
    BY <1>2, <1>6, <1>7, <1>8 DEF Base, k, c, e

\* What is taken from the local frontend is the request of an own client.
LEMMA FromLocalfeTakes ==
    ASSUME Base, NEW b \in Broker, FromLocalfe(b)
    PROVE  /\ localfe \in [Broker -> Seq(Client)] /\ localfe[b] # << >>
           /\ localfe' = [localfe EXCEPT ![b] = Tail(@)]
           /\ localfe' \in [Broker -> Seq(Client)]
           /\ \A d \in Broker : \A c \in Range(localfe'[d]) : Home(c) = d
           /\ Head(localfe[b]) \in Client
           /\ Home(Head(localfe[b])) = b
           /\ ready[b] # << >>
           /\ UNCHANGED <<known, pc, cloudbe, localbe, workerVars, cpc, toClient>>
  <1>1. /\ localfe \in [Broker -> Seq(Client)] /\ localfe[b] # << >>
        /\ localfe' = [localfe EXCEPT ![b] = Tail(@)]
        /\ ready[b] # << >>
        /\ UNCHANGED <<known, pc, cloudbe, localbe, workerVars, cpc, toClient>>
    BY DEF Base, TypeOK, FromLocalfe
  <1>2. /\ localfe' \in [Broker -> Seq(Client)]
        /\ \A d \in Broker \ {b} : localfe'[d] = localfe[d]
        /\ Range(localfe'[b]) \subseteq Range(localfe[b])
        /\ Head(localfe[b]) \in Client /\ Head(localfe[b]) \in Range(localfe[b])
    BY <1>1, PopChannel
  <1>3. \A d \in Broker : \A c \in Range(localfe[d]) : Home(c) = d
    BY DEF Base, ChannelsLeadHome
  <1> QED
    BY <1>1, <1>2, <1>3

LEMMA RouteLocalBase ==
    ASSUME Base, NEW b \in Broker, RouteLocal(b)
    PROVE  /\ Base'
           /\ \E w \in Worker :
                  toWorker' = [toWorker EXCEPT ![w] = Append(@, <<Local, Head(localfe[b])>>)]
  <1> DEFINE c == Head(localfe[b])
             e == <<Local, c>>
  <1>1. /\ localfe' \in [Broker -> Seq(Client)]
        /\ \A d \in Broker : \A x \in Range(localfe'[d]) : Home(x) = d
        /\ c \in Client /\ Home(c) = b /\ ready[b] # << >>
        /\ UNCHANGED <<known, pc, cloudbe, localbe, workerVars, cpc, toClient>>
    BY FromLocalfeTakes DEF RouteLocal
  <1>2. GiveToWorker(b, e) /\ UNCHANGED <<cloudfe, dropped>>
    BY DEF RouteLocal
  <1>3. e \in Envelope /\ From(e) = Local /\ For(e) = c
    <2> HIDE DEF c
    <2> QED
      BY <1>1, Envelopes
  <1> HIDE DEF c, e
  <1>4. \A w \in OwnWorkers(b) : LeadsHome(w, e)
    BY <1>1, <1>3, NameAssumption DEF OwnWorkers, LeadsHome
  <1>5. /\ toWorker' \in [Worker -> Seq(Envelope)]
        /\ ready' \in [Broker -> Seq(Worker)]
        /\ ListsAreOwn' /\ OnePlace'
        /\ \A w \in Worker : \A d \in Range(toWorker'[w]) : LeadsHome(w, d)
        /\ \E w \in Worker : toWorker' = [toWorker EXCEPT ![w] = Append(@, e)]
    BY <1>1, <1>2, <1>3, <1>4, GiveToWorkerBase
  <1>6. TypeOK'
    BY <1>1, <1>2, <1>5 DEF Base, TypeOK, workerVars
  <1>7. ChannelsLeadHome'
    BY <1>1, <1>2, <1>5 DEF Base, ChannelsLeadHome, LeadsHome, workerVars
  <1> QED
    BY <1>5, <1>6, <1>7 DEF Base, c, e

LEMMA RouteToPeerBase ==
    ASSUME Base, NEW b \in Broker, NEW p \in Peers(b), RouteToPeer(b, p)
    PROVE  Base'
  <1> DEFINE k == <<p, b>>
             c == Head(localfe[b])
  <1>1. /\ localfe' \in [Broker -> Seq(Client)]
        /\ \A d \in Broker : \A x \in Range(localfe'[d]) : Home(x) = d
        /\ c \in Client /\ Home(c) = b
        /\ UNCHANGED <<known, pc, cloudbe, localbe, workerVars, cpc, toClient>>
    BY FromLocalfeTakes DEF RouteToPeer
  <1>2. /\ k \in Link /\ k[2] = b
        /\ cloudfe' = [cloudfe EXCEPT ![k] = Append(@, c)] \/ cloudfe' = cloudfe
        /\ dropped' = dropped \cup {c} \/ dropped' = dropped
        /\ UNCHANGED <<ready, toWorker>>
    BY DEF RouteToPeer, Peers, Link
  <1>3. /\ cloudfe \in [Link -> Seq(Client)]
        /\ \A j \in Link : \A d \in Range(cloudfe[j]) : Home(d) = j[2]
    BY DEF Base, TypeOK, ChannelsLeadHome
  <1> HIDE DEF k, c
  <1>4. /\ cloudfe' \in [Link -> Seq(Client)]
        /\ \A j \in Link : \A d \in Range(cloudfe'[j]) : Home(d) = j[2]
    <2>1. CASE cloudfe' = [cloudfe EXCEPT ![k] = Append(@, c)]
      <3>1. /\ cloudfe' \in [Link -> Seq(Client)]
            /\ cloudfe'[k] = Append(cloudfe[k], c)
            /\ \A j \in Link \ {k} : cloudfe'[j] = cloudfe[j]
        BY <1>1, <1>2, <1>3, <2>1, PushChannel
      <3>2. Range(Append(cloudfe[k], c)) = Range(cloudfe[k]) \cup {c}
        BY <1>1, <1>2, <1>3, AppendRange
      <3> QED
        BY <1>1, <1>2, <1>3, <3>1, <3>2
    <2>2. CASE cloudfe' = cloudfe
      BY <1>3, <2>2
    <2> QED
      BY <1>2, <2>1, <2>2
  <1>5. TypeOK'
    BY <1>1, <1>2, <1>4 DEF Base, TypeOK, workerVars
  <1>6. ListsAreOwn' /\ OnePlace'
    BY <1>1, <1>2 DEF Base, ListsAreOwn, OnePlace, WorkerInOnePlace, workerVars
  <1>7. ChannelsLeadHome'
    BY <1>1, <1>2, <1>4 DEF Base, ChannelsLeadHome, LeadsHome, workerVars
  <1> QED
    BY <1>5, <1>6, <1>7 DEF Base

LEMMA WorkerThreadBase ==
    ASSUME Base, NEW w \in Worker, WorkerThread(w)
    PROVE  Base'
  <1> DEFINE M == {WORKER_READY} \cup Envelope
  <1>1. /\ localbe \in [Worker -> Seq(M)] /\ toWorker \in [Worker -> Seq(Envelope)]
        /\ wpc \in [Worker -> {"new", "waiting", "working"}]
        /\ job \in [Worker -> Envelope \cup {NoJob}]
        /\ WorkerInOnePlace(w) /\ Home(w) \in Broker
        /\ \A e \in Range(localbe[w]) \cup Range(toWorker[w]) \cup {job[w]} : LeadsHome(w, e)
    BY Homes DEF Base, TypeOK, OnePlace, ChannelsLeadHome
  <1>2. UNCHANGED <<linkVars, brokerVars, localfe, cloudfe, cloudbe, cpc, toClient>>
    BY DEF WorkerThread, WorkerStarts, WorkerReceives, WorkerReplies
  <1>3. Range(<< >>) = {} /\ \A x : Range(<<x>>) = {x} /\ Len(<<x>>) = 1 /\ Len(<< >>) = 0
    BY DEF Range
  <1>4. /\ localbe' \in [Worker -> Seq(M)] /\ toWorker' \in [Worker -> Seq(Envelope)]
        /\ wpc' \in [Worker -> {"new", "waiting", "working"}]
        /\ job' \in [Worker -> Envelope \cup {NoJob}]
        /\ WorkerInOnePlace(w)'
        /\ \A e \in Range(localbe'[w]) \cup Range(toWorker'[w]) \cup {job'[w]} : LeadsHome(w, e)
        /\ \A v \in Worker \ {w} : /\ localbe'[v] = localbe[v] /\ toWorker'[v] = toWorker[v]
                                   /\ wpc'[v] = wpc[v] /\ job'[v] = job[v]
    <2>1. CASE WorkerStarts(w)
      <3>1. /\ wpc[w] = "new" /\ wpc' = [wpc EXCEPT ![w] = "waiting"]
            /\ localbe' = [localbe EXCEPT ![w] = Append(@, WORKER_READY)]
            /\ UNCHANGED <<toWorker, job>>
        BY <2>1 DEF WorkerStarts
      <3>2. /\ localbe[w] = << >> /\ toWorker[w] = << >> /\ job[w] = NoJob
            /\ w \notin Range(ready[Home(w)])
        BY <1>1, <3>1 DEF WorkerInOnePlace
      <3>3. /\ localbe' \in [Worker -> Seq(M)]
            /\ localbe'[w] = <<WORKER_READY>>
            /\ \A v \in Worker \ {w} : localbe'[v] = localbe[v]
        <4>1. /\ localbe' \in [Worker -> Seq(M)]
              /\ localbe'[w] = Append(localbe[w], WORKER_READY)
              /\ \A v \in Worker \ {w} : localbe'[v] = localbe[v]
          <5>1. WORKER_READY \in M
            OBVIOUS
          <5> HIDE DEF M
          <5> QED
            BY <1>1, <3>1, <5>1, PushChannel
        <4> QED
          BY <3>2, <4>1
      <3>4. wpc'[w] = "waiting" /\ wpc' \in [Worker -> {"new", "waiting", "working"}]
        BY <1>1, <3>1
      <3>5. WorkerInOnePlace(w)'
        BY <1>2, <1>3, <3>1, <3>2, <3>3, <3>4 DEF WorkerInOnePlace, brokerVars
      <3>6. \A e \in Range(localbe'[w]) \cup Range(toWorker'[w]) \cup {job'[w]} : LeadsHome(w, e)
        BY <1>3, <3>1, <3>2, <3>3 DEF LeadsHome, NoJob, WORKER_READY
      <3> QED
        BY <1>1, <3>1, <3>3, <3>4, <3>5, <3>6
    <2>2. CASE WorkerReceives(w)
      <3> DEFINE e == Head(toWorker[w])
      <3>1. /\ wpc[w] = "waiting" /\ wpc' = [wpc EXCEPT ![w] = "working"]
            /\ toWorker[w] # << >> /\ toWorker' = [toWorker EXCEPT ![w] = Tail(@)]
            /\ job' = [job EXCEPT ![w] = e]
            /\ UNCHANGED localbe
        BY <2>2 DEF WorkerReceives
      <3>2. /\ localbe[w] = << >> /\ Len(toWorker[w]) <= 1
            /\ w \notin Range(ready[Home(w)])
        BY <1>1, <3>1 DEF WorkerInOnePlace
      <3>3. /\ toWorker' \in [Worker -> Seq(Envelope)]
            /\ toWorker'[w] = << >>
            /\ \A v \in Worker \ {w} : toWorker'[v] = toWorker[v]
            /\ e \in Envelope /\ e \in Range(toWorker[w])
        <4>1. /\ toWorker' \in [Worker -> Seq(Envelope)]
              /\ toWorker'[w] = Tail(toWorker[w])
              /\ \A v \in Worker \ {w} : toWorker'[v] = toWorker[v]
              /\ e \in Envelope /\ e \in Range(toWorker[w])
          BY <1>1, <3>1, PopChannel
        <4>2. Tail(toWorker[w]) = << >>
          BY <1>1, <3>1, <3>2, OnlyMessage
        <4> QED
          BY <4>1, <4>2
      <3> HIDE DEF e
      <3>4. /\ wpc'[w] = "working" /\ wpc' \in [Worker -> {"new", "waiting", "working"}]
            /\ job'[w] = e /\ job' \in [Worker -> Envelope \cup {NoJob}]
        BY <1>1, <3>1, <3>3
      <3>5. WorkerInOnePlace(w)'
        BY <1>2, <1>3, <3>1, <3>2, <3>3, <3>4 DEF WorkerInOnePlace, brokerVars
      <3>6. \A d \in Range(localbe'[w]) \cup Range(toWorker'[w]) \cup {job'[w]} : LeadsHome(w, d)
        <4>1. LeadsHome(w, e)
          BY <1>1, <3>3
        <4>2. /\ Range(localbe'[w]) = {} /\ Range(toWorker'[w]) = {}
              /\ job'[w] = e
          BY <1>3, <3>1, <3>2, <3>3, <3>4
        <4> QED
          BY <4>1, <4>2
      <3> QED
        BY <1>1, <3>1, <3>3, <3>4, <3>5, <3>6
    <2>3. CASE WorkerReplies(w)
      <3>1. /\ wpc[w] = "working" /\ wpc' = [wpc EXCEPT ![w] = "waiting"]
            /\ localbe' = [localbe EXCEPT ![w] = Append(@, job[w])]
            /\ job' = [job EXCEPT ![w] = NoJob]
            /\ UNCHANGED toWorker
        BY <2>3 DEF WorkerReplies
      <3>2. /\ localbe[w] = << >> /\ toWorker[w] = << >> /\ job[w] \in Envelope
            /\ w \notin Range(ready[Home(w)])
        BY <1>1, <3>1 DEF WorkerInOnePlace
      <3>3. /\ localbe' \in [Worker -> Seq(M)]
            /\ localbe'[w] = <<job[w]>>
            /\ \A v \in Worker \ {w} : localbe'[v] = localbe[v]
        <4>1. /\ localbe' \in [Worker -> Seq(M)]
              /\ localbe'[w] = Append(localbe[w], job[w])
              /\ \A v \in Worker \ {w} : localbe'[v] = localbe[v]
          <5>1. job[w] \in M
            BY <3>2
          <5> HIDE DEF M
          <5> QED
            BY <1>1, <3>1, <5>1, PushChannel
        <4> QED
          BY <3>2, <4>1
      <3>4. /\ wpc'[w] = "waiting" /\ wpc' \in [Worker -> {"new", "waiting", "working"}]
            /\ job'[w] = NoJob /\ job' \in [Worker -> Envelope \cup {NoJob}]
        BY <1>1, <3>1
      <3>5. WorkerInOnePlace(w)'
        BY <1>2, <1>3, <3>1, <3>2, <3>3, <3>4 DEF WorkerInOnePlace, brokerVars
      <3>6. \A d \in Range(localbe'[w]) \cup Range(toWorker'[w]) \cup {job'[w]} : LeadsHome(w, d)
        BY <1>1, <1>3, <3>1, <3>2, <3>3, <3>4 DEF LeadsHome, NoJob, WORKER_READY
      <3> QED
        BY <1>1, <3>1, <3>3, <3>4, <3>5, <3>6
    <2> QED
      BY <2>1, <2>2, <2>3 DEF WorkerThread
  <1>5. TypeOK'
    BY <1>2, <1>4 DEF Base, TypeOK, linkVars, brokerVars
  <1>6. ListsAreOwn'
    BY <1>2 DEF Base, ListsAreOwn, brokerVars
  <1>7. OnePlace'
    <2>1. ASSUME NEW v \in Worker PROVE WorkerInOnePlace(v)'
      BY <1>2, <1>4 DEF Base, OnePlace, WorkerInOnePlace, brokerVars
    <2> QED
      BY <2>1 DEF OnePlace
  <1>8. ChannelsLeadHome'
    BY <1>2, <1>4 DEF Base, ChannelsLeadHome
  <1> QED
    BY <1>5, <1>6, <1>7, <1>8 DEF Base

LEMMA ClientThreadBase ==
    ASSUME Base, NEW c \in Client, ClientThread(c)
    PROVE  Base'
  <1>1. /\ localfe \in [Broker -> Seq(Client)] /\ toClient \in [Client -> Nat]
        /\ cpc \in [Client -> {"sending", "waiting"}]
        /\ Home(c) \in Broker
        /\ \A d \in Broker : \A x \in Range(localfe[d]) : Home(x) = d
    BY Homes DEF Base, TypeOK, ChannelsLeadHome
  <1>2. UNCHANGED <<linkVars, brokerVars, cloudfe, cloudbe, localbe, toWorker, workerVars>>
    BY DEF ClientThread, ClientSends, ClientReceives
  <1>3. /\ localfe' \in [Broker -> Seq(Client)] /\ toClient' \in [Client -> Nat]
        /\ cpc' \in [Client -> {"sending", "waiting"}]
        /\ \A d \in Broker : \A x \in Range(localfe'[d]) : Home(x) = d
    <2>1. CASE ClientSends(c)
      <3> DEFINE b == Home(c)
      <3>1. /\ localfe' = [localfe EXCEPT ![b] = Append(@, c)]
            /\ cpc' = [cpc EXCEPT ![c] = "waiting"]
            /\ UNCHANGED toClient
        BY <2>1 DEF ClientSends
      <3>2. b \in Broker /\ Home(c) = b
        BY <1>1
      <3> HIDE DEF b
      <3>3. /\ localfe' \in [Broker -> Seq(Client)]
            /\ localfe'[b] = Append(localfe[b], c)
            /\ \A d \in Broker \ {b} : localfe'[d] = localfe[d]
        BY <1>1, <3>1, <3>2, PushChannel
      <3>4. Range(Append(localfe[b], c)) = Range(localfe[b]) \cup {c}
        BY <1>1, <3>2, AppendRange
      <3> QED
        BY <1>1, <3>1, <3>2, <3>3, <3>4
    <2>2. CASE ClientReceives(c)
      BY <1>1, <2>2 DEF ClientReceives, HasReply
    <2> QED
      BY <2>1, <2>2 DEF ClientThread
  <1>4. TypeOK'
    BY <1>2, <1>3 DEF Base, TypeOK, linkVars, brokerVars, workerVars
  <1>5. ListsAreOwn' /\ OnePlace' /\ ChannelsLeadHome'
    BY <1>2, <1>3 DEF Base, ListsAreOwn, OnePlace, WorkerInOnePlace, ChannelsLeadHome,
                      LeadsHome, brokerVars, workerVars
  <1> QED
    BY <1>4, <1>5 DEF Base

----------------------------------------------------------------------------
(***************************************************************************)
(* The messages of a client, action by action.                             *)
(***************************************************************************)

\* An envelope is the message of the client it names; other messages are not.
LEMMA OneEnvelope ==
    ASSUME NEW c \in Client
    PROVE  /\ \A e \in Envelope : One(e, EnvelopesOf(c)) = One(For(e), {c})
           /\ One(WORKER_READY, EnvelopesOf(c)) = 0
           /\ NoJob \notin EnvelopesOf(c)
           /\ \A x, S : One(x, S) \in {0, 1}
  <1>1. NoJob = WORKER_READY /\ WORKER_READY \notin Envelope
    BY Envelopes DEF NoJob, WORKER_READY
  <1> QED
    BY <1>1 DEF One, EnvelopesOf

\* The counts are numbers, so that their sum is.
LEMMA Tally ==
    ASSUME Base, NEW c \in Client, FiniteUnderWay(c)
    PROVE  /\ Count(localfe, {c}) \in Nat
           /\ Count(cloudfe, {c}) \in Nat
           /\ Count(cloudbe, {c}) \in Nat
           /\ Count(toWorker, EnvelopesOf(c)) \in Nat
           /\ Count(localbe, EnvelopesOf(c)) \in Nat
           /\ AtWork(job, c) \in Nat
           /\ toClient[c] \in Nat
  BY FS_CardinalityType DEF FiniteUnderWay, Count, AtWork, Base, TypeOK

LEMMA Sums ==
    ASSUME NEW c \in Client
    PROVE  /\ UnderWay(c) =
                  Count(localfe, {c}) + Count(cloudfe, {c}) + Count(cloudbe, {c})
                  + Count(toWorker, EnvelopesOf(c)) + Count(localbe, EnvelopesOf(c))
                  + AtWork(job, c) + toClient[c]
           /\ UnderWay(c)' =
                  Count(localfe', {c}) + Count(cloudfe', {c}) + Count(cloudbe', {c})
                  + Count(toWorker', EnvelopesOf(c)) + Count(localbe', EnvelopesOf(c))
                  + AtWork(job', c) + toClient'[c]
  BY DEF UnderWay, AtWork, WorkingFor

\* How many messages c gains and loses in a step.
Changes(c, gained, lost) ==
    /\ FiniteUnderWay(c)'
    /\ UnderWay(c)' = UnderWay(c) + gained - lost

\* A reply takes over from the envelope.
LEMMA FromLocalbeCounts ==
    ASSUME Base, NEW b \in Broker, NEW w \in OwnWorkers(b), FromLocalbe(b, w),
           NEW c \in Client, FiniteUnderWay(c)
    PROVE  Changes(c, 0, 0)
  <1> DEFINE e == Head(localbe[w])
             M == {WORKER_READY} \cup Envelope
             E == EnvelopesOf(c)
  <1>1. /\ w \in Worker /\ Home(w) = b
        /\ localbe \in [Worker -> Seq(M)] /\ localbe[w] # << >>
        /\ localbe' = [localbe EXCEPT ![w] = Tail(@)]
        /\ cloudbe \in [Link -> Seq(Client)] /\ toClient \in [Client -> Nat]
        /\ UNCHANGED <<localfe, cloudfe, toWorker, job>>
    BY DEF Base, TypeOK, OwnWorkers, FromLocalbe, workerVars
  <1>2. e \in M /\ e \in Range(localbe[w])
    <2> HIDE DEF M
    <2> QED
      BY <1>1, PopChannel
  <1>3. /\ IsFiniteSet(PlacesOf(localbe', E))
        /\ Count(localbe', E) = Count(localbe, E) - One(e, E)
    <2>1. IsFiniteSet(PlacesOf(localbe, E)) /\ Pops(localbe, w, localbe')
      BY <1>1 DEF FiniteUnderWay, Pops
    <2>2. w \in Worker /\ localbe \in [Worker -> Seq(M)] /\ localbe[w] # << >>
      BY <1>1
    <2>3. e = Head(localbe[w])
      OBVIOUS
    <2> HIDE DEF e, M, E
    <2>4. /\ IsFiniteSet(PlacesOf(localbe', E))
          /\ Count(localbe', E) = Count(localbe, E) - One(Head(localbe[w]), E)
      BY <2>1, <2>2, PopCount
    <2> QED
      BY <2>3, <2>4
  <1>4. /\ IsFiniteSet(PlacesOf(cloudbe', {c}))
        /\ Count(cloudbe', {c}) + toClient'[c] = Count(cloudbe, {c}) + toClient[c] + One(e, E)
        /\ Count(cloudbe', {c}) \in Nat /\ toClient'[c] \in Nat
    <2>1. IsFiniteSet(PlacesOf(cloudbe, {c})) /\ Count(cloudbe, {c}) \in Nat /\ toClient[c] \in Nat
      BY Tally DEF FiniteUnderWay
    <2>2. CASE e = WORKER_READY
      <3>1. cloudbe' = cloudbe /\ toClient' = toClient
        BY <2>2 DEF FromLocalbe
      <3>2. One(e, E) = 0
        BY <2>2, OneEnvelope
      <3> HIDE DEF e, E
      <3> QED
        BY <2>1, <3>1, <3>2
    <2>3. CASE e # WORKER_READY
      <3>1. e \in Envelope /\ LeadsHome(w, e) /\ SendReply(b, e)
        BY <1>1, <1>2, <2>3 DEF FromLocalbe, Base, ChannelsLeadHome
      <3>2. For(e) \in Client /\ One(e, E) = One(For(e), {c}) /\ One(For(e), {c}) \in {0, 1}
        BY <3>1, Envelopes, OneEnvelope
      <3> HIDE DEF e, E
      <3>3. \/ /\ From(e) \in Peers(b)
               /\ cloudbe' = [cloudbe EXCEPT ![<<From(e), b>>] = Append(@, For(e))]
               /\ toClient' = toClient
            \/ /\ cloudbe' = cloudbe
               /\ toClient' = [toClient EXCEPT ![For(e)] = @ + 1]
        BY <1>1, <3>1, SendReplyLeadsHome
      <3>4. CASE cloudbe' = cloudbe /\ toClient' = [toClient EXCEPT ![For(e)] = @ + 1]
        <4>1. toClient'[c] = toClient[c] + One(For(e), {c})
          BY <1>1, <3>2, <3>4 DEF One
        <4> HIDE DEF e
        <4> QED
          BY <2>1, <3>2, <3>4, <4>1
      <3>5. CASE /\ From(e) \in Peers(b)
                 /\ cloudbe' = [cloudbe EXCEPT ![<<From(e), b>>] = Append(@, For(e))]
                 /\ toClient' = toClient
        <4> DEFINE k == <<From(e), b>>
        <4>1. k \in Link /\ Pushes(cloudbe, k, For(e), cloudbe')
          BY <3>5 DEF Peers, Link, Pushes
        <4> HIDE DEF k
        <4>2. /\ IsFiniteSet(PlacesOf(cloudbe', {c}))
              /\ Count(cloudbe', {c}) = Count(cloudbe, {c}) + One(For(e), {c})
          <5>1. cloudbe \in [Link -> Seq(Client)] /\ For(e) \in Client
            BY <1>1, <3>2
          <5> QED
            BY <2>1, <4>1, <5>1, PushCount
        <4> QED
          BY <2>1, <3>2, <3>5, <4>2
      <3> QED
        BY <3>3, <3>4, <3>5
    <2> QED
      BY <2>2, <2>3
  <1>5. FiniteUnderWay(c)'
    BY <1>1, <1>3, <1>4 DEF FiniteUnderWay, WorkingFor
  <1>6. UnderWay(c)' = UnderWay(c) + 0 - 0
    <2>1. One(e, E) \in {0, 1} /\ E = EnvelopesOf(c)
      BY OneEnvelope
    <2>2. /\ Count(localfe', {c}) = Count(localfe, {c})
          /\ Count(cloudfe', {c}) = Count(cloudfe, {c})
          /\ Count(toWorker', E) = Count(toWorker, E)
          /\ AtWork(job', c) = AtWork(job, c)
      BY <1>1
    <2> HIDE DEF e, E
    <2> QED
      BY <1>3, <1>4, <2>1, <2>2, Sums, Tally
  <1> QED
    BY <1>5, <1>6 DEF Changes

LEMMA FromCloudbeCounts ==
    ASSUME Base, NEW b \in Broker, NEW p \in Peers(b), FromCloudbe(b, p),
           NEW c \in Client, FiniteUnderWay(c)
    PROVE  Changes(c, 0, 0)
  <1> DEFINE k == <<b, p>>
             x == Head(cloudbe[k])
  <1>1. /\ k \in Link /\ cloudbe \in [Link -> Seq(Client)] /\ cloudbe[k] # << >>
        /\ Pops(cloudbe, k, cloudbe')
        /\ toClient \in [Client -> Nat] /\ x \in Client
        /\ toClient' = [toClient EXCEPT ![x] = @ + 1]
        /\ UNCHANGED <<localfe, cloudfe, localbe, toWorker, job>>
    BY FromCloudbeBase DEF Base, TypeOK, FromCloudbe, Peers, Link, Pops, workerVars
  <1>2. IsFiniteSet(PlacesOf(cloudbe, {c}))
    BY DEF FiniteUnderWay
  <1> HIDE DEF k
  <1>3. /\ IsFiniteSet(PlacesOf(cloudbe', {c}))
        /\ Count(cloudbe', {c}) = Count(cloudbe, {c}) - One(x, {c})
    BY <1>1, <1>2, PopCount
  <1>4. toClient'[c] = toClient[c] + One(x, {c}) /\ One(x, {c}) \in {0, 1}
    <2> HIDE DEF x
    <2> QED
      BY <1>1, OneEnvelope DEF One
  <1> HIDE DEF x
  <1>5. FiniteUnderWay(c)'
    BY <1>1, <1>3 DEF FiniteUnderWay
  <1>6. UnderWay(c)' = UnderWay(c) + 0 - 0
    <2>1. /\ Count(localfe', {c}) = Count(localfe, {c})
          /\ Count(cloudfe', {c}) = Count(cloudfe, {c})
          /\ Count(toWorker', EnvelopesOf(c)) = Count(toWorker, EnvelopesOf(c))
          /\ Count(localbe', EnvelopesOf(c)) = Count(localbe, EnvelopesOf(c))
          /\ AtWork(job', c) = AtWork(job, c)
      BY <1>1
    <2> QED
      BY <1>3, <1>4, <2>1, Sums, Tally
  <1> QED
    BY <1>5, <1>6 DEF Changes

\* The request that a worker gets is the one taken from a frontend.
LEMMA GivenCounts ==
    ASSUME Base, NEW w \in Worker, NEW x \in Client, NEW f \in Broker \cup {Local},
           toWorker' = [toWorker EXCEPT ![w] = Append(@, <<f, x>>)],
           NEW c \in Client, FiniteUnderWay(c)
    PROVE  /\ IsFiniteSet(PlacesOf(toWorker', EnvelopesOf(c)))
           /\ Count(toWorker', EnvelopesOf(c)) = Count(toWorker, EnvelopesOf(c)) + One(x, {c})
           /\ One(x, {c}) \in {0, 1}
  <1> DEFINE e == <<f, x>>
             E == EnvelopesOf(c)
  <1>1. e \in Envelope /\ One(e, E) = One(x, {c}) /\ One(x, {c}) \in {0, 1}
    BY Envelopes, OneEnvelope
  <1>2. /\ toWorker \in [Worker -> Seq(Envelope)] /\ IsFiniteSet(PlacesOf(toWorker, E))
        /\ Pushes(toWorker, w, e, toWorker')
    BY DEF Base, TypeOK, FiniteUnderWay, Pushes
  <1> HIDE DEF e, E
  <1>3. /\ IsFiniteSet(PlacesOf(toWorker', E))
        /\ Count(toWorker', E) = Count(toWorker, E) + One(e, E)
    BY <1>1, <1>2, PushCount
  <1> QED
    BY <1>1, <1>3 DEF E

LEMMA RouteCloudCounts ==
    ASSUME Base, NEW b \in Broker, NEW p \in Peers(b), RouteCloud(b, p),
           NEW c \in Client, FiniteUnderWay(c)
    PROVE  Changes(c, 0, 0)
  <1> DEFINE k == <<b, p>>
             x == Head(cloudfe[k])
  <1>1. /\ k \in Link /\ cloudfe \in [Link -> Seq(Client)] /\ cloudfe[k] # << >>
        /\ Pops(cloudfe, k, cloudfe')
        /\ x \in Client /\ p \in Broker
        /\ \E w \in Worker : toWorker' = [toWorker EXCEPT ![w] = Append(@, <<p, x>>)]
        /\ UNCHANGED <<localfe, cloudbe, localbe, job, toClient>>
    BY RouteCloudBase DEF Base, TypeOK, RouteCloud, Peers, Link, Pops, workerVars
  <1>2. IsFiniteSet(PlacesOf(cloudfe, {c}))
    BY DEF FiniteUnderWay
  <1> HIDE DEF k
  <1>3. /\ IsFiniteSet(PlacesOf(cloudfe', {c}))
        /\ Count(cloudfe', {c}) = Count(cloudfe, {c}) - One(x, {c})
    BY <1>1, <1>2, PopCount
  <1> HIDE DEF x
  <1>4. /\ IsFiniteSet(PlacesOf(toWorker', EnvelopesOf(c)))
        /\ Count(toWorker', EnvelopesOf(c)) = Count(toWorker, EnvelopesOf(c)) + One(x, {c})
        /\ One(x, {c}) \in {0, 1}
    BY <1>1, GivenCounts
  <1>5. FiniteUnderWay(c)'
    BY <1>1, <1>3, <1>4 DEF FiniteUnderWay
  <1>6. UnderWay(c)' = UnderWay(c) + 0 - 0
    <2>1. /\ Count(localfe', {c}) = Count(localfe, {c})
          /\ Count(cloudbe', {c}) = Count(cloudbe, {c})
          /\ Count(localbe', EnvelopesOf(c)) = Count(localbe, EnvelopesOf(c))
          /\ AtWork(job', c) = AtWork(job, c)
          /\ toClient'[c] = toClient[c]
      BY <1>1
    <2> QED
      BY <1>3, <1>4, <2>1, Sums, Tally
  <1> QED
    BY <1>5, <1>6 DEF Changes

\* A request less at the local frontend.
LEMMA FromLocalfeCounts ==
    ASSUME Base, NEW b \in Broker, FromLocalfe(b), NEW c \in Client, FiniteUnderWay(c)
    PROVE  /\ IsFiniteSet(PlacesOf(localfe', {c}))
           /\ Count(localfe', {c}) = Count(localfe, {c}) - One(Head(localfe[b]), {c})
  <1>1. /\ localfe \in [Broker -> Seq(Client)] /\ localfe[b] # << >>
        /\ Pops(localfe, b, localfe')
        /\ IsFiniteSet(PlacesOf(localfe, {c}))
    BY FromLocalfeTakes DEF FiniteUnderWay, Pops
  <1> QED
    BY <1>1, PopCount

LEMMA RouteLocalCounts ==
    ASSUME Base, NEW b \in Broker, RouteLocal(b), NEW c \in Client, FiniteUnderWay(c)
    PROVE  Changes(c, 0, 0)
  <1> DEFINE x == Head(localfe[b])
  <1>1. /\ FromLocalfe(b) /\ x \in Client
        /\ \E w \in Worker : toWorker' = [toWorker EXCEPT ![w] = Append(@, <<Local, x>>)]
        /\ UNCHANGED <<cloudfe, cloudbe, localbe, job, toClient>>
    BY RouteLocalBase, FromLocalfeTakes DEF RouteLocal, workerVars
  <1>2. /\ IsFiniteSet(PlacesOf(localfe', {c}))
        /\ Count(localfe', {c}) = Count(localfe, {c}) - One(x, {c})
    BY <1>1, FromLocalfeCounts
  <1> HIDE DEF x
  <1>3. /\ IsFiniteSet(PlacesOf(toWorker', EnvelopesOf(c)))
        /\ Count(toWorker', EnvelopesOf(c)) = Count(toWorker, EnvelopesOf(c)) + One(x, {c})
        /\ One(x, {c}) \in {0, 1}
    BY <1>1, GivenCounts
  <1>4. FiniteUnderWay(c)'
    BY <1>1, <1>2, <1>3 DEF FiniteUnderWay
  <1>5. UnderWay(c)' = UnderWay(c) + 0 - 0
    <2>1. /\ Count(cloudfe', {c}) = Count(cloudfe, {c})
          /\ Count(cloudbe', {c}) = Count(cloudbe, {c})
          /\ Count(localbe', EnvelopesOf(c)) = Count(localbe, EnvelopesOf(c))
          /\ AtWork(job', c) = AtWork(job, c)
          /\ toClient'[c] = toClient[c]
      BY <1>1
    <2> QED
      BY <1>2, <1>3, <2>1, Sums, Tally
  <1> QED
    BY <1>4, <1>5 DEF Changes

\* A request for a peer that is not known is one less of its client.
LEMMA RouteToPeerCounts ==
    ASSUME Base, NEW b \in Broker, NEW p \in Peers(b), RouteToPeer(b, p),
           NEW c \in Client, FiniteUnderWay(c)
    PROVE  IF p \in known[b]
           THEN Changes(c, 0, 0) /\ dropped' = dropped
           ELSE /\ Changes(c, 0, One(Head(localfe[b]), {c}))
                /\ dropped' = dropped \cup {Head(localfe[b])}
  <1> DEFINE k == <<p, b>>
             x == Head(localfe[b])
  <1>1. /\ FromLocalfe(b) /\ x \in Client /\ k \in Link
        /\ UNCHANGED <<toWorker, cloudbe, localbe, job, toClient>>
        /\ cloudfe \in [Link -> Seq(Client)]
        /\ IF p \in known[b]
           THEN Pushes(cloudfe, k, x, cloudfe') /\ dropped' = dropped
           ELSE cloudfe' = cloudfe /\ dropped' = dropped \cup {x}
    BY FromLocalfeTakes DEF RouteToPeer, workerVars, Base, TypeOK, Peers, Link, Pushes
  <1>2. /\ IsFiniteSet(PlacesOf(localfe', {c}))
        /\ Count(localfe', {c}) = Count(localfe, {c}) - One(x, {c})
    BY <1>1, FromLocalfeCounts
  <1>3. IsFiniteSet(PlacesOf(cloudfe, {c})) /\ One(x, {c}) \in {0, 1}
    BY OneEnvelope DEF FiniteUnderWay
  <1>4. /\ Count(toWorker', EnvelopesOf(c)) = Count(toWorker, EnvelopesOf(c))
        /\ Count(cloudbe', {c}) = Count(cloudbe, {c})
        /\ Count(localbe', EnvelopesOf(c)) = Count(localbe, EnvelopesOf(c))
        /\ AtWork(job', c) = AtWork(job, c)
        /\ toClient'[c] = toClient[c]
    BY <1>1
  <1> HIDE DEF k
  <1>5. CASE p \in known[b]
    <2>1. /\ IsFiniteSet(PlacesOf(cloudfe', {c}))
          /\ Count(cloudfe', {c}) = Count(cloudfe, {c}) + One(x, {c})
      <3>1. cloudfe \in [Link -> Seq(Client)] /\ x \in Client /\ Pushes(cloudfe, k, x, cloudfe')
        BY <1>1, <1>5
      <3> HIDE DEF x
      <3> QED
        BY <1>1, <1>3, <3>1, PushCount
    <2>2. FiniteUnderWay(c)'
      BY <1>1, <1>2, <2>1 DEF FiniteUnderWay
    <2> HIDE DEF x
    <2>3. UnderWay(c)' = UnderWay(c) + 0 - 0
      BY <1>2, <1>3, <1>4, <2>1, Sums, Tally
    <2> QED
      BY <1>1, <1>5, <2>2, <2>3 DEF Changes
  <1>6. CASE p \notin known[b]
    <2>1. FiniteUnderWay(c)'
      BY <1>1, <1>2, <1>6 DEF FiniteUnderWay
    <2>2. UnderWay(c)' = UnderWay(c) + 0 - One(x, {c})
      <3>1. Count(cloudfe', {c}) = Count(cloudfe, {c})
        BY <1>1, <1>6
      <3> HIDE DEF x
      <3> QED
        BY <1>2, <1>3, <1>4, <3>1, Sums, Tally
    <2> QED
      BY <1>1, <1>6, <2>1, <2>2 DEF Changes
  <1> QED
    BY <1>5, <1>6

\* A worker takes a job, and gives it back.
LEMMA TakesJob ==
    ASSUME NEW w \in Worker, job \in [Worker -> Envelope \cup {NoJob}], job[w] = NoJob,
           NEW e \in Envelope, job' = [job EXCEPT ![w] = e],
           NEW c \in Client, IsFiniteSet(WorkingFor(job, c))
    PROVE  /\ IsFiniteSet(WorkingFor(job', c))
           /\ AtWork(job', c) = AtWork(job, c) + One(e, EnvelopesOf(c))
  <1>1. w \notin WorkingFor(job, c)
    BY OneEnvelope DEF WorkingFor
  <1>2. WorkingFor(job', c) = IF e \in EnvelopesOf(c) THEN WorkingFor(job, c) \cup {w}
                              ELSE WorkingFor(job, c)
    BY <1>1 DEF WorkingFor
  <1>3. AtWork(job, c) \in Nat
    BY FS_CardinalityType DEF AtWork
  <1> QED
    BY <1>1, <1>2, <1>3, FS_AddElement DEF AtWork, One

LEMMA ReturnsJob ==
    ASSUME NEW w \in Worker, job \in [Worker -> Envelope \cup {NoJob}],
           job' = [job EXCEPT ![w] = NoJob],
           NEW c \in Client, IsFiniteSet(WorkingFor(job, c))
    PROVE  /\ IsFiniteSet(WorkingFor(job', c))
           /\ AtWork(job', c) = AtWork(job, c) - One(job[w], EnvelopesOf(c))
  <1>1. WorkingFor(job', c) = WorkingFor(job, c) \ {w}
    BY OneEnvelope DEF WorkingFor
  <1>2. w \in WorkingFor(job, c) <=> job[w] \in EnvelopesOf(c)
    BY DEF WorkingFor
  <1>3. AtWork(job, c) \in Nat
    BY FS_CardinalityType DEF AtWork
  <1> QED
    <2>1. /\ IsFiniteSet(WorkingFor(job, c) \ {w})
          /\ Cardinality(WorkingFor(job, c) \ {w}) =
                 IF w \in WorkingFor(job, c) THEN Cardinality(WorkingFor(job, c)) - 1
                 ELSE Cardinality(WorkingFor(job, c))
      BY FS_RemoveElement
    <2>2. One(job[w], EnvelopesOf(c)) = IF w \in WorkingFor(job, c) THEN 1 ELSE 0
      BY <1>2 DEF One
    <2>3. /\ AtWork(job, c) = Cardinality(WorkingFor(job, c))
          /\ AtWork(job', c) = Cardinality(WorkingFor(job, c) \ {w})
      BY <1>1 DEF AtWork
    <2>4. IsFiniteSet(WorkingFor(job', c))
      BY <1>1, <2>1
    <2> QED
      BY <1>3, <2>1, <2>2, <2>3, <2>4

LEMMA WorkerThreadCounts ==
    ASSUME Base, NEW w \in Worker, WorkerThread(w), NEW c \in Client, FiniteUnderWay(c)
    PROVE  Changes(c, 0, 0)
  <1> DEFINE M == {WORKER_READY} \cup Envelope
             E == EnvelopesOf(c)
  <1>1. /\ localbe \in [Worker -> Seq(M)] /\ toWorker \in [Worker -> Seq(Envelope)]
        /\ job \in [Worker -> Envelope \cup {NoJob}]
        /\ WorkerInOnePlace(w)
        /\ IsFiniteSet(PlacesOf(localbe, E)) /\ IsFiniteSet(PlacesOf(toWorker, E))
        /\ IsFiniteSet(WorkingFor(job, c))
    BY DEF Base, TypeOK, OnePlace, FiniteUnderWay
  <1>2. UNCHANGED <<localfe, cloudfe, cloudbe, toClient>>
    BY DEF WorkerThread, WorkerStarts, WorkerReceives, WorkerReplies
  <1>3. /\ Count(localfe', {c}) = Count(localfe, {c})
        /\ Count(cloudfe', {c}) = Count(cloudfe, {c})
        /\ Count(cloudbe', {c}) = Count(cloudbe, {c})
        /\ toClient'[c] = toClient[c]
    BY <1>2
  <1>4. CASE WorkerStarts(w)
    <2>1. /\ Pushes(localbe, w, WORKER_READY, localbe')
          /\ UNCHANGED <<toWorker, job>>
      BY <1>4 DEF WorkerStarts, Pushes
    <2>2. WORKER_READY \in M /\ One(WORKER_READY, E) = 0
      BY OneEnvelope
    <2> HIDE DEF M, E
    <2>3. /\ IsFiniteSet(PlacesOf(localbe', E))
          /\ Count(localbe', E) = Count(localbe, E) + 0
      BY <1>1, <2>1, <2>2, PushCount
    <2>4. FiniteUnderWay(c)'
      BY <1>1, <1>2, <2>1, <2>3 DEF FiniteUnderWay, E
    <2>5. UnderWay(c)' = UnderWay(c) + 0 - 0
      <3>1. Count(toWorker', E) = Count(toWorker, E) /\ AtWork(job', c) = AtWork(job, c)
        BY <2>1
      <3> QED
        BY <1>3, <2>3, <3>1, Sums, Tally DEF E
    <2> QED
      BY <2>4, <2>5 DEF Changes
  <1>5. CASE WorkerReceives(w)
    <2> DEFINE e == Head(toWorker[w])
    <2>1. /\ toWorker[w] # << >> /\ Pops(toWorker, w, toWorker')
          /\ job' = [job EXCEPT ![w] = e] /\ wpc[w] = "waiting"
          /\ UNCHANGED localbe
      BY <1>5 DEF WorkerReceives, Pops
    <2>2. e \in Envelope /\ One(e, E) \in {0, 1}
      BY <1>1, <2>1, PopChannel, OneEnvelope
    <2>3. job[w] = NoJob
      BY <1>1, <2>1 DEF WorkerInOnePlace
    <2> HIDE DEF M, E
    <2>4. /\ IsFiniteSet(PlacesOf(toWorker', E))
          /\ Count(toWorker', E) = Count(toWorker, E) - One(e, E)
      <3>1. /\ toWorker \in [Worker -> Seq(Envelope)] /\ IsFiniteSet(PlacesOf(toWorker, E))
            /\ toWorker[w] # << >> /\ Pops(toWorker, w, toWorker')
        BY <1>1, <2>1
      <3> QED
        BY <3>1, PopCount
    <2> HIDE DEF e
    <2>5. /\ IsFiniteSet(WorkingFor(job', c))
          /\ AtWork(job', c) = AtWork(job, c) + One(e, E)
      BY <1>1, <2>1, <2>2, <2>3, TakesJob DEF E
    <2>6. FiniteUnderWay(c)'
      BY <1>1, <1>2, <2>1, <2>4, <2>5 DEF FiniteUnderWay, E
    <2>7. UnderWay(c)' = UnderWay(c) + 0 - 0
      <3>1. Count(localbe', E) = Count(localbe, E)
        BY <2>1
      <3> QED
        BY <1>3, <2>2, <2>4, <2>5, <3>1, Sums, Tally DEF E
    <2> QED
      BY <2>6, <2>7 DEF Changes
  <1>6. CASE WorkerReplies(w)
    <2>1. /\ Pushes(localbe, w, job[w], localbe')
          /\ job' = [job EXCEPT ![w] = NoJob] /\ wpc[w] = "working"
          /\ UNCHANGED toWorker
      BY <1>6 DEF WorkerReplies, Pushes
    <2>2. job[w] \in M /\ One(job[w], E) \in {0, 1}
      BY <1>1, <2>1, OneEnvelope DEF WorkerInOnePlace
    <2> HIDE DEF M, E
    <2>3. /\ IsFiniteSet(PlacesOf(localbe', E))
          /\ Count(localbe', E) = Count(localbe, E) + One(job[w], E)
      <3>1. /\ localbe \in [Worker -> Seq(M)] /\ IsFiniteSet(PlacesOf(localbe, E))
            /\ job[w] \in M /\ Pushes(localbe, w, job[w], localbe')
        BY <1>1, <2>1, <2>2
      <3> QED
        BY <3>1, PushCount
    <2>4. /\ IsFiniteSet(WorkingFor(job', c))
          /\ AtWork(job', c) = AtWork(job, c) - One(job[w], E)
      BY <1>1, <2>1, ReturnsJob DEF E
    <2>5. FiniteUnderWay(c)'
      BY <1>1, <1>2, <2>1, <2>3, <2>4 DEF FiniteUnderWay, E
    <2>6. UnderWay(c)' = UnderWay(c) + 0 - 0
      <3>1. Count(toWorker', E) = Count(toWorker, E)
        BY <2>1
      <3> QED
        BY <1>3, <2>2, <2>3, <2>4, <3>1, Sums, Tally DEF E
    <2> QED
      BY <2>5, <2>6 DEF Changes
  <1> QED
    BY <1>4, <1>5, <1>6 DEF WorkerThread

\* A client has a message more when it sends, and one less when it receives.
LEMMA ClientThreadCounts ==
    ASSUME Base, NEW x \in Client, ClientThread(x), NEW c \in Client, FiniteUnderWay(c)
    PROVE  \/ ClientSends(x) /\ Changes(c, One(x, {c}), 0)
           \/ ClientReceives(x) /\ Changes(c, 0, One(x, {c}))
  <1>1. UNCHANGED <<cloudfe, cloudbe, localbe, toWorker, job>>
    BY DEF ClientThread, ClientSends, ClientReceives, workerVars
  <1>2. /\ Count(cloudfe', {c}) = Count(cloudfe, {c})
        /\ Count(cloudbe', {c}) = Count(cloudbe, {c})
        /\ Count(toWorker', EnvelopesOf(c)) = Count(toWorker, EnvelopesOf(c))
        /\ Count(localbe', EnvelopesOf(c)) = Count(localbe, EnvelopesOf(c))
        /\ AtWork(job', c) = AtWork(job, c)
        /\ One(x, {c}) \in {0, 1}
    BY <1>1, OneEnvelope
  <1>3. CASE ClientSends(x)
    <2> DEFINE b == Home(x)
    <2>1. /\ b \in Broker /\ localfe \in [Broker -> Seq(Client)]
          /\ Pushes(localfe, b, x, localfe') /\ toClient' = toClient
          /\ IsFiniteSet(PlacesOf(localfe, {c}))
      BY <1>3, Homes DEF ClientSends, Base, TypeOK, FiniteUnderWay, Pushes
    <2> HIDE DEF b
    <2>2. /\ IsFiniteSet(PlacesOf(localfe', {c}))
          /\ Count(localfe', {c}) = Count(localfe, {c}) + One(x, {c})
      BY <2>1, PushCount
    <2>3. FiniteUnderWay(c)'
      BY <1>1, <2>2 DEF FiniteUnderWay
    <2>4. UnderWay(c)' = UnderWay(c) + One(x, {c}) - 0
      <3>1. toClient'[c] = toClient[c]
        BY <2>1
      <3> QED
        BY <1>2, <2>2, <3>1, Sums, Tally
    <2> QED
      BY <1>3, <2>3, <2>4 DEF Changes
  <1>4. CASE ClientReceives(x)
    <2>1. /\ toClient \in [Client -> Nat] /\ localfe' = localfe
          /\ toClient' = [toClient EXCEPT ![x] = @ - 1]
      BY <1>4 DEF ClientReceives, Base, TypeOK
    <2>2. toClient'[c] = toClient[c] - One(x, {c})
      BY <2>1 DEF One
    <2>3. FiniteUnderWay(c)'
      BY <1>1, <2>1 DEF FiniteUnderWay
    <2>4. UnderWay(c)' = UnderWay(c) + 0 - One(x, {c})
      <3>1. Count(localfe', {c}) = Count(localfe, {c})
        BY <2>1
      <3> QED
        BY <1>2, <2>2, <3>1, Sums, Tally
    <2> QED
      BY <1>4, <2>3, <2>4 DEF Changes
  <1> QED
    BY <1>3, <1>4 DEF ClientThread

LEMMA QuietCounts ==
    ASSUME Base, UNCHANGED <<localfe, cloudfe, cloudbe, localbe, toWorker, job, toClient>>,
           NEW c \in Client, FiniteUnderWay(c)
    PROVE  Changes(c, 0, 0)
  <1>1. FiniteUnderWay(c)'
    BY DEF FiniteUnderWay
  <1>2. UnderWay(c)' = UnderWay(c)
    BY DEF UnderWay
  <1>3. UnderWay(c) \in Int
    BY Tally DEF UnderWay, AtWork, WorkingFor
  <1> QED
    BY <1>1, <1>2, <1>3 DEF Changes

----------------------------------------------------------------------------
(***************************************************************************)
(* The invariant holds at the start and after every step.                  *)
(***************************************************************************)

LEMMA EmptyChannels ==
    ASSUME NEW K, NEW f, f = [k \in K |-> << >>], NEW S
    PROVE  IsFiniteSet(PlacesOf(f, S)) /\ Count(f, S) = 0
  <1>1. PlacesOf(f, S) = {}
    BY DEF PlacesOf
  <1> QED
    BY <1>1, FS_EmptySet DEF Count

LEMMA InitIInv == Init => IInv
  <1> SUFFICES ASSUME Init PROVE IInv
    OBVIOUS
  <1>1. Base
    BY InitBase
  <1>2. ASSUME NEW c \in Client PROVE FiniteUnderWay(c) /\ UnderWay(c) = 0
    <2>1. /\ localfe = [b \in Broker |-> << >>]
          /\ cloudfe = [k \in Link |-> << >>] /\ cloudbe = [k \in Link |-> << >>]
          /\ localbe = [w \in Worker |-> << >>] /\ toWorker = [w \in Worker |-> << >>]
          /\ toClient[c] = 0
      BY DEF Init
    <2>2. \A S : /\ IsFiniteSet(PlacesOf(localfe, S)) /\ Count(localfe, S) = 0
                 /\ IsFiniteSet(PlacesOf(cloudfe, S)) /\ Count(cloudfe, S) = 0
                 /\ IsFiniteSet(PlacesOf(cloudbe, S)) /\ Count(cloudbe, S) = 0
                 /\ IsFiniteSet(PlacesOf(localbe, S)) /\ Count(localbe, S) = 0
                 /\ IsFiniteSet(PlacesOf(toWorker, S)) /\ Count(toWorker, S) = 0
      BY <2>1, EmptyChannels
    <2>3. WorkingFor(job, c) = {}
      BY OneEnvelope DEF Init, WorkingFor
    <2>4. IsFiniteSet(WorkingFor(job, c)) /\ AtWork(job, c) = 0
      BY <2>3, FS_EmptySet DEF AtWork
    <2> QED
      BY <2>1, <2>2, <2>4 DEF FiniteUnderWay, UnderWay, AtWork, WorkingFor
  <1>3. InOnePlace /\ DroppedWait
    BY <1>2 DEF Init, InOnePlace, DroppedWait
  <1> QED
    BY <1>1, <1>2, <1>3 DEF IInv

LEMMA Total ==
    ASSUME NEW c \in Client
    PROVE  /\ Base /\ FiniteUnderWay(c) => UnderWay(c) \in Nat
           /\ Base' /\ FiniteUnderWay(c)' => UnderWay(c)' \in Nat
  <1>1. ASSUME Base, FiniteUnderWay(c) PROVE UnderWay(c) \in Nat
    BY <1>1, FS_CardinalityType DEF FiniteUnderWay, UnderWay, Count, WorkingFor, Base, TypeOK
  <1>2. ASSUME Base', FiniteUnderWay(c)' PROVE UnderWay(c)' \in Nat
    BY <1>2, FS_CardinalityType DEF FiniteUnderWay, UnderWay, Count, WorkingFor, Base, TypeOK
  <1> QED
    BY <1>1, <1>2

LEMMA OneLess ==
    ASSUME NEW x \in Client,
           \A c \in Client : UnderWay(c) \in Nat /\ UnderWay(c)' \in Nat,
           \A c \in Client : UnderWay(c)' = UnderWay(c) + 0 - One(x, {c})
    PROVE  /\ UnderWay(x) >= 1 /\ UnderWay(x)' = UnderWay(x) - 1
           /\ \A c \in Client \ {x} : UnderWay(c)' = UnderWay(c)
  <1>1. /\ UnderWay(x) \in Nat /\ UnderWay(x)' \in Nat /\ One(x, {x}) = 1
        /\ UnderWay(x)' = UnderWay(x) + 0 - One(x, {x})
    BY DEF One
  <1>2. ASSUME NEW c \in Client \ {x} PROVE UnderWay(c)' = UnderWay(c)
    <2>1. /\ UnderWay(c) \in Nat /\ One(x, {c}) = 0
          /\ UnderWay(c)' = UnderWay(c) + 0 - One(x, {c})
      BY DEF One
    <2> QED
      BY <2>1
  <1> QED
    BY <1>1, <1>2

\* Steps that move messages, and make none and lose none.
Moves ==
    /\ Base'
    /\ \A c \in Client : Changes(c, 0, 0)
    /\ UNCHANGED <<dropped, cpc>>

LEMMA MovesIInv == IInv /\ Moves => IInv'
  <1> SUFFICES ASSUME IInv, Moves PROVE IInv'
    OBVIOUS
  <1>1. \A c \in Client : FiniteUnderWay(c)' /\ UnderWay(c)' = UnderWay(c)
    BY Total DEF IInv, Moves, Changes
  <1>2. InOnePlace' /\ DroppedWait'
    BY <1>1 DEF IInv, Moves, InOnePlace, DroppedWait
  <1> QED
    BY <1>1, <1>2 DEF IInv, Moves

LEMMA BrokerLoopIInv ==
    ASSUME IInv, NEW b \in Broker, BrokerLoop(b)
    PROVE  IInv'
  <1>1. Base /\ \A c \in Client : FiniteUnderWay(c)
    BY DEF IInv
  <1>2. CASE \E w \in OwnWorkers(b) : FromLocalbe(b, w)
    <2>1. UNCHANGED <<dropped, cpc>>
      BY <1>2 DEF FromLocalbe, linkVars
    <2>2. Moves
      BY <1>1, <1>2, <2>1, FromLocalbeBase, FromLocalbeCounts DEF Moves
    <2> QED
      BY <2>2, MovesIInv
  <1>3. ASSUME NEW p \in Peers(b), FromCloudbe(b, p) PROVE IInv'
    <2>1. UNCHANGED <<dropped, cpc>>
      BY <1>3 DEF FromCloudbe, linkVars
    <2>2. Moves
      BY <1>1, <1>3, <2>1, FromCloudbeBase, FromCloudbeCounts DEF Moves
    <2> QED
      BY <2>2, MovesIInv
  <1>4. ASSUME NEW p \in Peers(b), RouteCloud(b, p) PROVE IInv'
    <2>1. UNCHANGED <<dropped, cpc>>
      BY <1>4 DEF RouteCloud, linkVars
    <2>2. Moves
      BY <1>1, <1>4, <2>1, RouteCloudBase, RouteCloudCounts DEF Moves
    <2> QED
      BY <2>2, MovesIInv
  <1>5. ASSUME NEW p \in Peers(b), RouteToPeer(b, p) PROVE IInv'
    <2>1. Base' /\ Head(localfe[b]) \in Client /\ cpc' = cpc
      BY <1>1, <1>5, RouteToPeerBase, FromLocalfeTakes DEF RouteToPeer
    <2>2. CASE p \in known[b]
      <3>1. Moves
        BY <1>1, <1>5, <2>1, <2>2, RouteToPeerCounts DEF Moves
      <3> QED
        BY <3>1, MovesIInv
    <2>3. CASE p \notin known[b]
      <3> PICK x \in Client : x = Head(localfe[b])
        BY <2>1
      <3>1. /\ \A c \in Client : Changes(c, 0, One(x, {c}))
            /\ dropped' = dropped \cup {x}
        BY <1>1, <1>5, <2>3, RouteToPeerCounts
      <3>2. \A c \in Client : FiniteUnderWay(c)' /\ UnderWay(c)' = UnderWay(c) + 0 - One(x, {c})
        BY <3>1 DEF Changes
      <3>3. /\ UnderWay(x) >= 1 /\ UnderWay(x)' = UnderWay(x) - 1
            /\ \A c \in Client \ {x} : UnderWay(c)' = UnderWay(c)
        <4>1. \A c \in Client : UnderWay(c) \in Nat /\ UnderWay(c)' \in Nat
          BY <1>1, <2>1, <3>2, Total
        <4> QED
          BY <2>1, <3>2, <4>1, OneLess
      <3>4. cpc[x] = "waiting" /\ UnderWay(x) = 1
        BY <2>1, <3>3 DEF IInv, InOnePlace
      <3>5. InOnePlace'
        BY <2>1, <3>1, <3>3, <3>4 DEF IInv, InOnePlace
      <3>6. DroppedWait'
        BY <2>1, <3>1, <3>4 DEF IInv, DroppedWait
      <3> QED
        BY <2>1, <3>2, <3>5, <3>6 DEF IInv
    <2> QED
      BY <2>2, <2>3
  <1>6. CASE PollTimesOut(b) \/ RoutingDone(b)
    <2>1. Moves
      BY <1>1, <1>6, QuietBase, QuietCounts DEF Moves
    <2> QED
      BY <2>1, MovesIInv
  <1>7. CASE RouteLocal(b)
    <2>1. UNCHANGED <<dropped, cpc>>
      BY <1>7 DEF RouteLocal, FromLocalfe
    <2>2. Moves
      BY <1>1, <1>7, <2>1, RouteLocalBase, RouteLocalCounts DEF Moves
    <2> QED
      BY <2>2, MovesIInv
  <1> QED
    BY <1>2, <1>3, <1>4, <1>5, <1>6, <1>7 DEF BrokerLoop

LEMMA ClientThreadIInv ==
    ASSUME IInv, NEW x \in Client, ClientThread(x)
    PROVE  IInv'
  <1>1. Base /\ (\A c \in Client : FiniteUnderWay(c)) /\ cpc \in [Client -> {"sending", "waiting"}]
    BY DEF IInv, Base, TypeOK
  <1>2. Base'
    BY <1>1, ClientThreadBase
  <1>3. \A c \in Client : One(x, {c}) = IF c = x THEN 1 ELSE 0
    BY DEF One
  <1>4. CASE ClientSends(x)
    <2>1. /\ cpc[x] = "sending" /\ cpc' = [cpc EXCEPT ![x] = "waiting"] /\ dropped' = dropped
          /\ ~ ClientReceives(x)
      BY <1>4 DEF ClientSends, ClientReceives, linkVars
    <2>2. \A c \in Client : FiniteUnderWay(c)' /\ UnderWay(c)' = UnderWay(c) + One(x, {c}) - 0
      BY <1>1, <2>1, ClientThreadCounts DEF Changes
    <2>3. x \notin dropped /\ UnderWay(x) = 0
      BY <2>1 DEF IInv, DroppedWait, InOnePlace
    <2>4. UnderWay(x)' = 1
      <3>1. One(x, {x}) = 1 /\ UnderWay(x)' = UnderWay(x) + One(x, {x}) - 0
        BY <2>2 DEF One
      <3> QED
        BY <2>3, <3>1
    <2>5. ASSUME NEW c \in Client \ {x} PROVE UnderWay(c)' = UnderWay(c)
      <3>1. UnderWay(c)' = UnderWay(c) + 0 - 0
        BY <1>3, <2>2
      <3>2. UnderWay(c) \in Nat
        BY <1>1, Total
      <3> QED
        BY <3>1, <3>2
    <2>6. InOnePlace' /\ DroppedWait'
      BY <1>1, <2>1, <2>3, <2>4, <2>5 DEF IInv, InOnePlace, DroppedWait
    <2> QED
      BY <1>2, <2>2, <2>6 DEF IInv
  <1>5. CASE ClientReceives(x)
    <2>1. /\ cpc[x] = "waiting" /\ cpc' = [cpc EXCEPT ![x] = "sending"] /\ dropped' = dropped
          /\ ~ ClientSends(x)
      BY <1>5 DEF ClientSends, ClientReceives, linkVars
    <2>2. \A c \in Client : FiniteUnderWay(c)' /\ UnderWay(c)' = UnderWay(c) + 0 - One(x, {c})
      BY <1>1, <2>1, ClientThreadCounts DEF Changes
    <2>3. \A c \in Client : UnderWay(c) \in Nat /\ UnderWay(c)' \in Nat
      BY <1>1, <1>2, <2>2, Total
    <2>4. /\ UnderWay(x) >= 1 /\ UnderWay(x)' = UnderWay(x) - 1
          /\ \A c \in Client \ {x} : UnderWay(c)' = UnderWay(c)
      BY <2>2, <2>3, OneLess
    <2>5. x \notin dropped /\ UnderWay(x)' = 0
      BY <2>1, <2>4 DEF IInv, InOnePlace
    <2>6. InOnePlace' /\ DroppedWait'
      BY <1>1, <2>1, <2>4, <2>5 DEF IInv, InOnePlace, DroppedWait
    <2> QED
      BY <1>2, <2>2, <2>6 DEF IInv
  <1> QED
    BY <1>4, <1>5 DEF ClientThread

LEMMA NextIInv == IInv /\ [Next]_vars => IInv'
  <1> SUFFICES ASSUME IInv, [Next]_vars PROVE IInv'
    OBVIOUS
  <1>1. Base /\ \A c \in Client : FiniteUnderWay(c)
    BY DEF IInv
  <1>2. ASSUME NEW b \in Broker, BrokerLoop(b) PROVE IInv'
    BY <1>2, BrokerLoopIInv
  <1>3. ASSUME NEW w \in Worker, WorkerThread(w) PROVE IInv'
    <2>1. UNCHANGED <<dropped, cpc>>
      BY <1>3 DEF WorkerThread, WorkerStarts, WorkerReceives, WorkerReplies, linkVars
    <2>2. Moves
      BY <1>1, <1>3, <2>1, WorkerThreadBase, WorkerThreadCounts DEF Moves
    <2> QED
      BY <2>2, MovesIInv
  <1>4. ASSUME NEW c \in Client, ClientThread(c) PROVE IInv'
    BY <1>4, ClientThreadIInv
  <1>5. ASSUME NEW b \in Broker, NEW p \in Peers(b), Connect(b, p) PROVE IInv'
    <2>1. Moves
      BY <1>1, <1>5, QuietBase, QuietCounts DEF Moves
    <2> QED
      BY <2>1, MovesIInv
  <1>6. CASE UNCHANGED vars
    <2>1. Base'
      BY <1>1, <1>6 DEF vars, Base, TypeOK, ListsAreOwn, OnePlace, WorkerInOnePlace,
                        ChannelsLeadHome, LeadsHome
    <2>2. Moves
      BY <1>1, <1>6, <2>1, QuietCounts DEF vars, Moves
    <2> QED
      BY <2>2, MovesIInv
  <1> QED
    BY <1>2, <1>3, <1>4, <1>5, <1>6 DEF Next

\* The brokers, their clients and workers keep the invariant.
THEOREM Invariance == Spec => []IInv
  <1> QED
    BY InitIInv, NextIInv, PTL DEF Spec

\* What the brokers, workers and clients keep, and what waits in the channels
\* between them, stays of its type (peering2.cpp:120-250).
THEOREM TypeCorrect == Spec => []TypeOK
  <1>1. IInv => TypeOK
    BY DEF IInv, Base
  <1> QED
    BY <1>1, Invariance, PTL

\* A broker routes only to workers of its own that wait, with nothing on the way
\* to them or from them, and has none of them on its list twice
\* (peering2.cpp:156, 240).
THEOREM ReadyIdle == Spec => []ReadyAreIdle
  <1>1. IInv => ReadyAreIdle
    <2> SUFFICES ASSUME IInv, NEW b \in Broker
                 PROVE  /\ IsInjective(ready[b])
                        /\ \A w \in Range(ready[b]) :
                               /\ Home(w) = b
                               /\ wpc[w] = "waiting"
                               /\ toWorker[w] = << >>
                               /\ localbe[w] = << >>
      BY DEF ReadyAreIdle
    <2>1. IsInjective(ready[b]) /\ ready[b] \in Seq(Worker)
      BY DEF IInv, Base, ListsAreOwn, TypeOK
    <2>2. ASSUME NEW w \in Range(ready[b])
          PROVE  /\ Home(w) = b
                 /\ wpc[w] = "waiting"
                 /\ toWorker[w] = << >>
                 /\ localbe[w] = << >>
      <3>1. w \in Worker /\ Home(w) = b
        BY <2>1, MembersTyped DEF IInv, Base, ListsAreOwn
      <3> QED
        BY <3>1 DEF IInv, Base, OnePlace, WorkerInOnePlace
    <2> QED
      BY <2>1, <2>2
  <1> QED
    BY <1>1, Invariance, PTL

\* Routing over peers neither loses a request nor answers one twice: a client
\* that waits has one message under way, request or reply, and one that does not
\* wait has none (peering2.cpp:181-192, 200-247).
THEOREM RequestInOnePlace == Spec => []InOnePlace
  <1>1. IInv => InOnePlace
    BY DEF IInv
  <1> QED
    BY <1>1, Invariance, PTL

=============================================================================
