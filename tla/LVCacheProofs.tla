--------------------------- MODULE LVCacheProofs ---------------------------
(***************************************************************************)
(* The last value cache never sends a subscriber an older value of a topic *)
(* after a newer one, whatever subscribers come and go, for any topics and *)
(* any high-water mark.                                                    *)
(***************************************************************************)
EXTENDS LVCache, QueueLemmas

----------------------------------------------------------------------------
(***************************************************************************)
(* The inductive invariant.  On their way from the publisher to a          *)
(* subscriber the values of a topic get older: no message to a subscriber  *)
(* is newer than the cache, which is no newer than what comes in, and that *)
(* is no newer than what is published.                                     *)
(***************************************************************************)

\* A poll's results stay good until they are used.
PolledIsThere ==
    /\ pc = "frontend" /\ "frontend" \in revents => feed # << >>
    /\ pc # "poll" /\ "backend" \in revents => events # << >>

\* Whoever runs has drawn its topic; nobody has shown anything before.
Drawn ==
    \A s \in Subscriber :
        IF spc[s] = "new" THEN shown[s] = None ELSE sub_topic[s] \in Topic

\* The values of each topic in q, from the front on.
Rises(q) ==
    \A i, j \in DOMAIN q : i < j /\ q[i][1] = q[j][1] => q[i][2] <= q[j][2]

FeedRises ==
    /\ Rises(feed)
    /\ \A i \in DOMAIN feed : /\ cache[feed[i][1]] <= feed[i][2]
                              /\ feed[i][2] <= published[feed[i][1]]
    /\ \A t \in Topic : cache[t] <= published[t]

\* What s has shown and is about to show.
InboxRises(s) ==
    /\ Rises(inbox[s])
    /\ \A i \in DOMAIN inbox[s] : inbox[s][i][2] <= cache[inbox[s][i][1]]
    /\ \A i \in OwnPlaces(s) : shown[s] <= inbox[s][i][2]
    /\ spc[s] # "new" => shown[s] <= cache[sub_topic[s]]

IInv ==
    /\ TypeOK
    /\ PolledIsThere
    /\ Drawn
    /\ FeedRises
    /\ \A s \in Subscriber : InboxRises(s)

----------------------------------------------------------------------------
(***************************************************************************)
(* Queues of updates.                                                      *)
(***************************************************************************)

LEMMA Updates ==
    \A m \in Update : m[1] \in Topic /\ m[2] \in Nat /\ m[2] # None
  BY DEF Update

LEMMA PlacesTyped ==
    ASSUME NEW q \in Seq(Update), NEW i \in DOMAIN q
    PROVE  i \in Nat /\ q[i] \in Update /\ q[i][1] \in Topic /\ q[i][2] \in Nat
  <1>1. i \in Nat /\ q[i] \in Update
    OBVIOUS
  <1> QED
    BY <1>1, Updates

\* The places of the queue without its front.
LEMMA TailPlaces ==
    ASSUME NEW q \in Seq(Update), q # << >>
    PROVE  /\ 1 \in DOMAIN q /\ Head(q) = q[1]
           /\ \A i \in DOMAIN Tail(q) :
                  i \in Nat /\ 1 < i + 1 /\ i + 1 \in DOMAIN q /\ Tail(q)[i] = q[i + 1]
  <1>1. /\ Head(q) = q[1]
        /\ Len(q) \in Nat /\ Len(q) >= 1
        /\ DOMAIN q = 1 .. Len(q)
        /\ DOMAIN Tail(q) = 1 .. Len(q) - 1
        /\ \A i \in 1 .. Len(q) - 1 : Tail(q)[i] = q[i + 1]
    BY TailPositions
  <1> QED
    BY <1>1

LEMMA TailRises ==
    ASSUME NEW q \in Seq(Update), q # << >>, Rises(q)
    PROVE  /\ Rises(Tail(q))
           /\ \A i \in DOMAIN Tail(q) :
                  Head(q)[1] = Tail(q)[i][1] => Head(q)[2] <= Tail(q)[i][2]
  <1>1. /\ 1 \in DOMAIN q /\ Head(q) = q[1]
        /\ \A i \in DOMAIN Tail(q) :
               i \in Nat /\ 1 < i + 1 /\ i + 1 \in DOMAIN q /\ Tail(q)[i] = q[i + 1]
    BY TailPlaces
  <1>2. ASSUME NEW i \in DOMAIN Tail(q), NEW j \in DOMAIN Tail(q), i < j,
               Tail(q)[i][1] = Tail(q)[j][1]
        PROVE  Tail(q)[i][2] <= Tail(q)[j][2]
    <2>1. /\ i + 1 \in DOMAIN q /\ j + 1 \in DOMAIN q /\ i + 1 < j + 1
          /\ Tail(q)[i] = q[i + 1] /\ Tail(q)[j] = q[j + 1]
      BY <1>1, <1>2
    <2> QED
      BY <1>2, <2>1 DEF Rises
  <1>3. ASSUME NEW i \in DOMAIN Tail(q), Head(q)[1] = Tail(q)[i][1]
        PROVE  Head(q)[2] <= Tail(q)[i][2]
    <2>1. 1 < i + 1 /\ i + 1 \in DOMAIN q /\ Tail(q)[i] = q[i + 1]
      BY <1>1
    <2> QED
      BY <1>1, <1>3, <2>1 DEF Rises
  <1> QED
    BY <1>2, <1>3 DEF Rises

\* The places of the queue with a new back.
LEMMA AppendPlaces ==
    ASSUME NEW q \in Seq(Update), NEW m \in Update
    PROVE  \A i \in DOMAIN Append(q, m) :
               \/ i \in DOMAIN q /\ Append(q, m)[i] = q[i]
               \/ /\ i = Len(q) + 1 /\ Append(q, m)[i] = m
                  /\ \A j \in DOMAIN Append(q, m) : j <= i
  <1>1. /\ Len(q) \in Nat /\ DOMAIN q = 1 .. Len(q)
        /\ DOMAIN Append(q, m) = 1 .. Len(q) + 1
        /\ \A i \in 1 .. Len(q) : Append(q, m)[i] = q[i]
        /\ Append(q, m)[Len(q) + 1] = m
    BY AppendPositions
  <1> QED
    BY <1>1

LEMMA AppendRises ==
    ASSUME NEW q \in Seq(Update), NEW m \in Update, Rises(q),
           \A i \in DOMAIN q : q[i][1] = m[1] => q[i][2] <= m[2]
    PROVE  Rises(Append(q, m))
  <1> DEFINE r == Append(q, m)
  <1>1. \A i \in DOMAIN r :
            \/ i \in DOMAIN q /\ r[i] = q[i]
            \/ i = Len(q) + 1 /\ r[i] = m /\ \A j \in DOMAIN r : j <= i
    BY AppendPlaces
  <1>2. r \in Seq(Update)
    BY AppendPositions
  <1> HIDE DEF r
  <1>3. ASSUME NEW i \in DOMAIN r, NEW j \in DOMAIN r, i < j, r[i][1] = r[j][1]
        PROVE  r[i][2] <= r[j][2]
    <2>1. i \in Nat /\ j \in Nat
      BY <1>2, PlacesTyped
    <2>2. i \in DOMAIN q /\ r[i] = q[i]
      BY <1>1, <1>3, <2>1
    <2>3. CASE j \in DOMAIN q /\ r[j] = q[j]
      BY <1>3, <2>2, <2>3 DEF Rises
    <2>4. CASE r[j] = m
      BY <1>3, <2>2, <2>4
    <2> QED
      BY <1>1, <2>3, <2>4
  <1>4. Rises(r)
    BY <1>3 DEF Rises
  <1> QED
    BY <1>4 DEF r

----------------------------------------------------------------------------
(***************************************************************************)
(* The inboxes.                                                            *)
(***************************************************************************)

\* The inbox of s stays, or gets what is now in the cache for its topic; and
\* what is in the cache only gets newer.
LEMMA SentRises ==
    ASSUME TypeOK, NEW s \in Subscriber, Drawn, InboxRises(s),
           NEW m \in Update, inbox'[s] \in {inbox[s], Append(inbox[s], m)},
           cache' \in [Topic -> Nat], cache'[m[1]] = m[2],
           \A t \in Topic : cache[t] <= cache'[t],
           UNCHANGED subscriberVars
    PROVE  InboxRises(s)'
  <1>1. /\ inbox[s] \in Seq(Update) /\ m[1] \in Topic /\ m[2] \in Nat
        /\ cache \in [Topic -> Nat] /\ shown[s] \in Nat
        /\ spc'[s] = spc[s] /\ sub_topic'[s] = sub_topic[s] /\ shown'[s] = shown[s]
    BY Updates DEF TypeOK, subscriberVars
  <1>2. \A i \in DOMAIN inbox[s] :
            /\ inbox[s][i][1] \in Topic /\ inbox[s][i][2] \in Nat
            /\ inbox[s][i][2] <= cache[inbox[s][i][1]]
    BY <1>1, PlacesTyped DEF InboxRises
  <1>3. \A i \in DOMAIN inbox[s] : inbox[s][i][2] <= cache'[inbox[s][i][1]]
    <2> SUFFICES ASSUME NEW i \in DOMAIN inbox[s]
                 PROVE  inbox[s][i][2] <= cache'[inbox[s][i][1]]
      OBVIOUS
    <2> DEFINE t == inbox[s][i][1]
               v == inbox[s][i][2]
    <2>1. t \in Topic /\ v \in Nat /\ v <= cache[t] /\ cache[t] \in Nat /\ cache'[t] \in Nat
      BY <1>1, <1>2
    <2> HIDE DEF t, v
    <2>2. v <= cache'[t]
      BY <2>1
    <2> QED
      BY <2>2 DEF t, v
  <1>4. spc[s] # "new" => sub_topic[s] \in Topic /\ shown[s] <= cache'[sub_topic[s]]
    <2> SUFFICES ASSUME spc[s] # "new"
                 PROVE  sub_topic[s] \in Topic /\ shown[s] <= cache'[sub_topic[s]]
      OBVIOUS
    <2> DEFINE t == sub_topic[s]
    <2>1. t \in Topic /\ shown[s] <= cache[t]
      BY DEF Drawn, InboxRises
    <2>2. shown[s] <= cache'[t]
      <3> HIDE DEF t
      <3> QED
        BY <1>1, <2>1
    <2> QED
      BY <2>1, <2>2
  <1>5. CASE inbox'[s] = inbox[s]
    <2>1. OwnPlaces(s)' = OwnPlaces(s)
      BY <1>1, <1>5 DEF OwnPlaces
    <2> QED
      BY <1>1, <1>3, <1>4, <1>5, <2>1 DEF InboxRises
  <1>6. CASE inbox'[s] = Append(inbox[s], m)
    <2> DEFINE q == inbox[s]
               r == inbox'[s]
    <2>1. \A i \in DOMAIN q : q[i][1] = m[1] => q[i][2] <= m[2]
      BY <1>3
    <2>2. Rises(r)
      BY <1>1, <1>6, <2>1, AppendRises DEF InboxRises
    <2>3. \A i \in DOMAIN r : (i \in DOMAIN q /\ r[i] = q[i]) \/ r[i] = m
      BY <1>1, <1>6, AppendPlaces
    <2>4. \A i \in DOMAIN r : r[i][2] <= cache'[r[i][1]]
      <3>1. m[2] <= cache'[m[1]]
        BY <1>1
      <3> HIDE DEF r
      <3> QED
        BY <1>3, <2>3, <3>1
    <2>5. \A i \in OwnPlaces(s)' : shown[s] <= r[i][2]
      <3> SUFFICES ASSUME NEW i \in DOMAIN r, r[i][1] = sub_topic[s]
                   PROVE  shown[s] <= r[i][2]
        BY <1>1 DEF OwnPlaces
      <3>1. CASE i \in DOMAIN q /\ r[i] = q[i]
        BY <3>1 DEF InboxRises, OwnPlaces
      <3>2. CASE r[i] = m
        <4>1. CASE spc[s] = "new"
          BY <1>1, <3>2, <4>1 DEF Drawn, None
        <4>2. CASE spc[s] # "new"
          BY <1>4, <3>2, <4>2
        <4> QED
          BY <4>1, <4>2
      <3> QED
        BY <2>3, <3>1, <3>2
    <2> QED
      BY <1>1, <1>4, <2>2, <2>4, <2>5 DEF InboxRises
  <1> QED
    BY <1>5, <1>6

\* What is sent by the backend reaches each inbox at its back, or not at all.
LEMMA SendTyped ==
    ASSUME TypeOK, NEW m \in Update, BackendSend(m)
    PROVE  /\ inbox' \in [Subscriber -> Seq(Update)]
           /\ \A s \in Subscriber : inbox'[s] \in {inbox[s], Append(inbox[s], m)}
  <1>1. \A s \in Subscriber : inbox[s] \in Seq(Update) /\ Append(inbox[s], m) \in Seq(Update)
    BY DEF TypeOK
  <1>2. inbox' = [s \in Subscriber |->
            IF subscribed[s] # None /\ IsPrefix(subscribed[s], m[1])
            THEN Append(inbox[s], m)
            ELSE inbox[s]]
    BY DEF BackendSend
  <1> QED
    BY <1>1, <1>2

\* A subscriber takes the front of its inbox.
LEMMA ReceiveRises ==
    ASSUME TypeOK, NEW s \in Subscriber, Drawn, InboxRises(s), Receive(s)
    PROVE  InboxRises(s)'
  <1> DEFINE q == inbox[s]
  <1>1. /\ q \in Seq(Update) /\ q # << >> /\ Head(q) \in Update
        /\ inbox'[s] = Tail(q) /\ cache' = cache /\ sub_topic' = sub_topic
        /\ cache \in [Topic -> Nat] /\ spc[s] # "new" /\ sub_topic[s] \in Topic
        /\ spc'[s] # "new"
        /\ \/ Head(q)[1] = sub_topic[s] /\ shown'[s] = Head(q)[2]
           \/ shown'[s] = shown[s]
    BY DEF TypeOK, Receive, cacheVars, Drawn
  <1>2. /\ Rises(Tail(q))
        /\ \A i \in DOMAIN Tail(q) :
               Head(q)[1] = Tail(q)[i][1] => Head(q)[2] <= Tail(q)[i][2]
    BY <1>1, TailRises DEF InboxRises
  <1>3. /\ 1 \in DOMAIN q /\ Head(q) = q[1]
        /\ \A i \in DOMAIN Tail(q) :
               i \in Nat /\ 1 < i + 1 /\ i + 1 \in DOMAIN q /\ Tail(q)[i] = q[i + 1]
    BY <1>1, TailPlaces
  <1>4. \A i \in DOMAIN Tail(q) : Tail(q)[i][2] <= cache[Tail(q)[i][1]]
    BY <1>3 DEF InboxRises
  <1>5. \A i \in DOMAIN Tail(q) : Tail(q)[i][1] = sub_topic[s] => shown'[s] <= Tail(q)[i][2]
    <2>1. CASE Head(q)[1] = sub_topic[s] /\ shown'[s] = Head(q)[2]
      BY <1>2, <2>1
    <2>2. CASE shown'[s] = shown[s]
      BY <1>3, <2>2 DEF InboxRises, OwnPlaces
    <2> QED
      BY <1>1, <2>1, <2>2
  <1>6. shown'[s] <= cache[sub_topic[s]]
    <2>1. CASE Head(q)[1] = sub_topic[s] /\ shown'[s] = Head(q)[2]
      BY <1>3, <2>1 DEF InboxRises
    <2>2. CASE shown'[s] = shown[s]
      BY <1>1, <2>2 DEF InboxRises
    <2> QED
      BY <1>1, <2>1, <2>2
  <1> QED
    BY <1>1, <1>2, <1>4, <1>5, <1>6 DEF InboxRises, OwnPlaces

----------------------------------------------------------------------------
(***************************************************************************)
(* The invariant holds at the start and after every step.                  *)
(***************************************************************************)

LEMMA InitIInv == Init => IInv
  <1> SUFFICES ASSUME Init PROVE IInv
    OBVIOUS
  <1>1. TypeOK
    <2>1. \A S : << >> \in Seq(S)
      OBVIOUS
    <2>2. published \in [Topic -> 0 .. MaxUpdates]
      BY TopicAssumption DEF Init
    <2>3. cache \in [Topic -> Nat] /\ shown \in [Subscriber -> Nat]
      BY DEF Init, None
    <2>4. inbox \in [Subscriber -> Seq(Update)]
      BY <2>1 DEF Init
    <2> QED
      BY <2>1, <2>2, <2>3, <2>4 DEF Init, TypeOK
  <1>2. PolledIsThere /\ Drawn
    BY DEF Init, PolledIsThere, Drawn
  <1>3. FeedRises
    BY DEF Init, FeedRises, Rises, None
  <1>4. \A s \in Subscriber : InboxRises(s)
    BY DEF Init, InboxRises, Rises, OwnPlaces
  <1> QED
    BY <1>1, <1>2, <1>3, <1>4 DEF IInv

\* The subscriptions are not what the values depend on.
LEMMA ValuesKeep ==
    ASSUME IInv, UNCHANGED <<publisherVars, feed, cache, inbox, shown, spc, sub_topic>>
    PROVE  Drawn' /\ FeedRises' /\ \A s \in Subscriber : InboxRises(s)'
  BY DEF IInv, Drawn, FeedRises, InboxRises, OwnPlaces, publisherVars

LEMMA PublishIInv ==
    ASSUME IInv, NEW t \in Topic, Publish(t)
    PROVE  IInv'
  <1> DEFINE m == <<t, published[t] + 1>>
  <1>1. /\ published \in [Topic -> 0 .. MaxUpdates] /\ published[t] < MaxUpdates
        /\ published' = [published EXCEPT ![t] = @ + 1]
        /\ feed \in Seq(Update) /\ cache \in [Topic -> Nat]
        /\ feed' = feed \/ feed' = Append(feed, m)
        /\ UNCHANGED <<linked, cacheVars, subscribed, events, subscriberVars, inbox>>
    BY DEF IInv, TypeOK, Publish
  <1>2. /\ published' \in [Topic -> 0 .. MaxUpdates] /\ published'[t] = published[t] + 1
        /\ \A u \in Topic : /\ published[u] \in Nat /\ published'[u] \in Nat
                            /\ published[u] <= published'[u]
    BY <1>1, TopicAssumption
  <1>3. m \in Update
    BY <1>1, <1>2 DEF Update, None
  <1>4. /\ feed' \in Seq(Update)
        /\ feed # << >> => feed' # << >>
    <2> HIDE DEF m
    <2>1. Append(feed, m) \in Seq(Update) /\ Append(feed, m) # << >>
      BY <1>1, <1>3, AppendPositions
    <2> QED
      BY <1>1, <2>1
  <1>5. TypeOK'
    BY <1>1, <1>2, <1>4 DEF IInv, TypeOK, cacheVars, subscriberVars
  <1>6. PolledIsThere' /\ Drawn' /\ \A s \in Subscriber : InboxRises(s)'
    BY <1>1, <1>4 DEF IInv, PolledIsThere, Drawn, InboxRises, OwnPlaces, cacheVars,
                      subscriberVars
  <1>7. \A i \in DOMAIN feed : /\ feed[i][1] \in Topic /\ feed[i][2] \in Nat
                               /\ cache[feed[i][1]] <= feed[i][2]
                               /\ feed[i][2] <= published[feed[i][1]]
    BY <1>1, PlacesTyped DEF IInv, FeedRises
  <1>8. \A i \in DOMAIN feed : feed[i][2] <= published'[feed[i][1]]
    BY <1>2, <1>7
  <1>9. \A u \in Topic : cache[u] <= published[u] /\ cache[u] <= published'[u]
    BY <1>1, <1>2 DEF IInv, FeedRises
  <1>10. cache' = cache
    BY <1>1 DEF cacheVars
  <1>11. ASSUME feed' = feed PROVE FeedRises'
    <2>1. Rises(feed')
      BY <1>11 DEF IInv, FeedRises
    <2>2. \A i \in DOMAIN feed' : /\ cache'[feed'[i][1]] <= feed'[i][2]
                                  /\ feed'[i][2] <= published'[feed'[i][1]]
      BY <1>7, <1>8, <1>10, <1>11
    <2>3. \A u \in Topic : cache'[u] <= published'[u]
      BY <1>9, <1>10
    <2> QED
      BY <2>1, <2>2, <2>3 DEF FeedRises
  <1>12. ASSUME feed' = Append(feed, m) PROVE FeedRises'
    <2>1. m[1] = t /\ m[2] = published[t] + 1
      OBVIOUS
    <2> HIDE DEF m
    <2>2. \A i \in DOMAIN feed : feed[i][1] = m[1] => feed[i][2] <= m[2]
      BY <1>2, <1>7, <2>1
    <2>3. Rises(feed')
      BY <1>1, <1>3, <1>12, <2>2, AppendRises DEF IInv, FeedRises
    <2>4. \A i \in DOMAIN feed' : (i \in DOMAIN feed /\ feed'[i] = feed[i]) \/ feed'[i] = m
      BY <1>1, <1>3, <1>12, AppendPlaces
    <2>5. cache[m[1]] <= m[2] /\ m[2] <= published'[m[1]]
      BY <1>1, <1>2, <1>9, <2>1
    <2>6. \A i \in DOMAIN feed' : /\ cache'[feed'[i][1]] <= feed'[i][2]
                                  /\ feed'[i][2] <= published'[feed'[i][1]]
      BY <1>7, <1>8, <1>10, <2>4, <2>5
    <2>7. \A u \in Topic : cache'[u] <= published'[u]
      BY <1>9, <1>10
    <2> QED
      BY <2>3, <2>6, <2>7 DEF FeedRises
  <1>13. FeedRises'
    BY <1>1, <1>11, <1>12
  <1> QED
    BY <1>5, <1>6, <1>13 DEF IInv

LEMMA RouteUpdateIInv ==
    ASSUME IInv, RouteUpdate
    PROVE  IInv'
  <1> DEFINE m == Head(feed)
  <1>1. /\ pc = "frontend" /\ pc' = "backend" /\ feed # << >>
        /\ feed \in Seq(Update) /\ m \in Update
        /\ feed' = Tail(feed) /\ feed' \in Seq(Update)
        /\ cache \in [Topic -> Nat] /\ cache' = [cache EXCEPT ![m[1]] = m[2]]
        /\ BackendSend(m)
        /\ UNCHANGED <<publisherVars, revents, subscribed, events, subscriberVars>>
    <2>1. pc = "frontend" /\ "frontend" \in revents /\ feed \in Seq(Update) /\ feed # << >>
      BY DEF IInv, TypeOK, PolledIsThere, RouteUpdate
    <2>2. Head(feed) \in Update /\ Tail(feed) \in Seq(Update)
      BY <2>1, TailPositions
    <2> QED
      BY <2>1, <2>2 DEF IInv, TypeOK, RouteUpdate, Remember
  <1>2. /\ 1 \in DOMAIN feed /\ m = feed[1]
        /\ \A i \in DOMAIN Tail(feed) :
               i \in Nat /\ 1 < i + 1 /\ i + 1 \in DOMAIN feed /\ Tail(feed)[i] = feed[i + 1]
    BY <1>1, TailPlaces
  <1>3. /\ Rises(Tail(feed))
        /\ \A i \in DOMAIN Tail(feed) : m[1] = Tail(feed)[i][1] => m[2] <= Tail(feed)[i][2]
    BY <1>1, TailRises DEF IInv, FeedRises
  <1>4. /\ cache[m[1]] <= m[2] /\ m[2] <= published[m[1]]
        /\ \A i \in DOMAIN Tail(feed) : /\ cache[Tail(feed)[i][1]] <= Tail(feed)[i][2]
                                        /\ Tail(feed)[i][2] <= published[Tail(feed)[i][1]]
        /\ \A t \in Topic : cache[t] <= published[t]
    BY <1>2 DEF IInv, FeedRises
  <1> HIDE DEF m
  <1>5. /\ m[1] \in Topic /\ m[2] \in Nat
        /\ cache' \in [Topic -> Nat] /\ cache'[m[1]] = m[2]
        /\ \A t \in Topic \ {m[1]} : cache'[t] = cache[t]
    BY <1>1, Updates
  <1>6. \A t \in Topic : cache[t] \in Nat /\ cache[t] <= cache'[t] /\ cache'[t] <= published[t]
    BY <1>1, <1>4, <1>5
  <1>7. /\ inbox' \in [Subscriber -> Seq(Update)]
        /\ \A s \in Subscriber : inbox'[s] \in {inbox[s], Append(inbox[s], m)}
    BY <1>1, SendTyped DEF IInv
  <1>8. TypeOK'
    BY <1>1, <1>5, <1>7 DEF IInv, TypeOK, publisherVars, subscriberVars
  <1>9. PolledIsThere' /\ Drawn'
    BY <1>1 DEF IInv, PolledIsThere, Drawn, subscriberVars
  <1>10. FeedRises'
    <2>1. \A i \in DOMAIN feed' : cache'[feed'[i][1]] <= feed'[i][2]
      <3> SUFFICES ASSUME NEW i \in DOMAIN feed' PROVE cache'[feed'[i][1]] <= feed'[i][2]
        OBVIOUS
      <3>1. feed'[i][1] \in Topic
        BY <1>1, PlacesTyped
      <3>2. CASE feed'[i][1] = m[1]
        BY <1>1, <1>3, <1>5, <3>2
      <3>3. CASE feed'[i][1] # m[1]
        BY <1>1, <1>4, <1>5, <3>1, <3>3
      <3> QED
        BY <3>2, <3>3
    <2> QED
      BY <1>1, <1>3, <1>4, <1>6, <2>1 DEF FeedRises, publisherVars
  <1>11. \A s \in Subscriber : InboxRises(s)'
    BY <1>1, <1>5, <1>6, <1>7, SentRises DEF IInv
  <1> QED
    BY <1>8, <1>9, <1>10, <1>11 DEF IInv

\* What a new subscription gets is what is in the cache.
LEMMA HandleEventIInv ==
    ASSUME IInv, HandleEvent
    PROVE  IInv'
  <1> DEFINE t == Head(events)[2]
             m == <<t, cache[t]>>
             M == {SUB, UNSUB} \X Topic
  <1>1. /\ pc' = "poll" /\ events' = Tail(events)
        /\ events \in Seq(M) /\ events # << >>
        /\ cache \in [Topic -> Nat]
        /\ UNCHANGED <<publisherVars, feed, revents, cache, subscribed, subscriberVars>>
    BY DEF IInv, TypeOK, PolledIsThere, HandleEvent
  <1>2. Head(events) \in M /\ events' \in Seq(M)
    <2> HIDE DEF M
    <2> QED
      BY <1>1, TailPositions
  <1>3. t \in Topic
    BY <1>2
  <1>4. PolledIsThere' /\ Drawn' /\ FeedRises'
    BY <1>1 DEF IInv, PolledIsThere, Drawn, FeedRises, subscriberVars, publisherVars
  <1>5. CASE Answers(Head(events))
    <2>1. BackendSend(m) /\ m \in Update
      BY <1>1, <1>3, <1>5 DEF HandleEvent, Answers, Update
    <2>2. m[1] = t /\ m[2] = cache[t]
      OBVIOUS
    <2> HIDE DEF m
    <2>3. /\ inbox' \in [Subscriber -> Seq(Update)]
          /\ \A s \in Subscriber : inbox'[s] \in {inbox[s], Append(inbox[s], m)}
      BY <2>1, SendTyped DEF IInv
    <2>4. TypeOK'
      BY <1>1, <1>2, <2>3 DEF IInv, TypeOK, publisherVars, subscriberVars
    <2>5. \A u \in Topic : cache[u] <= cache'[u]
      BY <1>1
    <2>6. \A s \in Subscriber : InboxRises(s)'
      BY <1>1, <1>3, <2>1, <2>2, <2>3, <2>5, SentRises DEF IInv
    <2> QED
      BY <1>4, <2>4, <2>6 DEF IInv
  <1>6. CASE ~ Answers(Head(events))
    <2>1. UNCHANGED inbox
      BY <1>6 DEF HandleEvent
    <2>2. TypeOK'
      BY <1>1, <1>2, <2>1 DEF IInv, TypeOK, publisherVars, subscriberVars
    <2>3. \A s \in Subscriber : InboxRises(s)'
      BY <1>1, <2>1 DEF IInv, InboxRises, OwnPlaces, subscriberVars
    <2> QED
      BY <1>4, <2>2, <2>3 DEF IInv
  <1> QED
    BY <1>5, <1>6

\* The other steps of the cache move no update.
LEMMA QuietIInv ==
    ASSUME IInv, LinkUp \/ Poll \/ NoUpdate \/ NoEvent
    PROVE  IInv'
  <1>1. UNCHANGED <<published, feed, cache, subscribed, events, subscriberVars, inbox>>
    BY DEF LinkUp, Poll, NoUpdate, NoEvent, publisherVars, cacheVars
  <1>2. TypeOK'
    BY <1>1 DEF IInv, TypeOK, LinkUp, Poll, NoUpdate, NoEvent, publisherVars, cacheVars,
                subscriberVars
  <1>3. PolledIsThere'
    BY <1>1 DEF IInv, PolledIsThere, LinkUp, Poll, NoUpdate, NoEvent, cacheVars
  <1>4. Drawn' /\ FeedRises' /\ \A s \in Subscriber : InboxRises(s)'
    BY <1>1 DEF IInv, Drawn, FeedRises, InboxRises, OwnPlaces, subscriberVars
  <1> QED
    BY <1>2, <1>3, <1>4 DEF IInv

\* A subscription and its end: the backend may have one event more to report.
LEMMA SubscriptionIInv ==
    ASSUME IInv, NEW s \in Subscriber, Subscription(s) \/ Unsubscription(s)
    PROVE  IInv'
  <1> DEFINE M == {SUB, UNSUB} \X Topic
  <1>1. /\ subscribed \in [Subscriber -> Topic \cup {None}] /\ events \in Seq(M)
        /\ sub_topic \in [Subscriber -> Topic \cup {None}]
        /\ inbox \in [Subscriber -> Seq(Update)]
        /\ UNCHANGED <<publisherVars, feed, cacheVars, subscriberVars>>
    BY DEF IInv, TypeOK, Subscription, Unsubscription
  <1>2. PICK e \in M : events' = events \/ events' = Append(events, e)
    <2>1. CASE Subscription(s)
      <3>1. <<SUB, sub_topic[s]>> \in M
        BY <2>1 DEF Subscription, IInv, Drawn
      <3>2. events' = events \/ events' = Append(events, <<SUB, sub_topic[s]>>)
        BY <2>1 DEF Subscription, Report
      <3> QED
        BY <3>1, <3>2, Zenon
    <2>2. CASE Unsubscription(s)
      <3>1. <<UNSUB, subscribed[s]>> \in M
        BY <1>1, <2>2 DEF Unsubscription
      <3>2. events' = events \/ events' = Append(events, <<UNSUB, subscribed[s]>>)
        BY <2>2 DEF Unsubscription, Report
      <3> QED
        BY <3>1, <3>2, Zenon
    <2> QED
      BY <2>1, <2>2
  <1>3. events' \in Seq(M) /\ (events # << >> => events' # << >>)
    <2> HIDE DEF M
    <2>1. Append(events, e) \in Seq(M) /\ Append(events, e) # << >>
      BY <1>1, AppendPositions
    <2> QED
      BY <1>1, <1>2, <2>1
  <1>4. subscribed' \in [Subscriber -> Topic \cup {None}]
    BY <1>1 DEF Subscription, Unsubscription, SetSubscription
  <1>5. /\ inbox' \in [Subscriber -> Seq(Update)]
        /\ \A o \in Subscriber : inbox'[o] \in {inbox[o], << >>}
    <2>1. << >> \in Seq(Update)
      OBVIOUS
    <2>2. inbox' = inbox \/ inbox' = [inbox EXCEPT ![s] = << >>]
      BY DEF Subscription, Unsubscription
    <2> QED
      BY <1>1, <2>1, <2>2
  <1>6. TypeOK'
    BY <1>1, <1>3, <1>4, <1>5 DEF IInv, TypeOK, publisherVars, cacheVars, subscriberVars
  <1>7. PolledIsThere' /\ Drawn' /\ FeedRises'
    BY <1>1, <1>3 DEF IInv, PolledIsThere, Drawn, FeedRises, publisherVars, cacheVars,
                      subscriberVars
  <1>8. ASSUME NEW o \in Subscriber PROVE InboxRises(o)'
    <2>1. CASE inbox'[o] = inbox[o]
      BY <1>1, <2>1 DEF IInv, InboxRises, OwnPlaces, cacheVars, subscriberVars
    <2>2. CASE inbox'[o] = << >>
      BY <1>1, <2>2 DEF IInv, InboxRises, OwnPlaces, Rises, cacheVars, subscriberVars
    <2> QED
      BY <1>5, <2>1, <2>2
  <1> QED
    BY <1>6, <1>7, <1>8 DEF IInv

LEMMA SubscribeIInv ==
    ASSUME IInv, NEW s \in Subscriber, NEW t \in Topic, Subscribe(s, t)
    PROVE  IInv'
  <1>1. /\ spc[s] = "new" /\ shown[s] = None
        /\ spc' = [spc EXCEPT ![s] = "running"]
        /\ sub_topic' = [sub_topic EXCEPT ![s] = t]
        /\ UNCHANGED <<publisherVars, feed, cacheVars, subscribed, events, inbox, shown>>
    BY DEF IInv, Drawn, Subscribe
  <1>2. TypeOK'
    BY <1>1 DEF IInv, TypeOK, publisherVars, cacheVars
  <1>3. PolledIsThere' /\ FeedRises'
    BY <1>1 DEF IInv, PolledIsThere, FeedRises, publisherVars, cacheVars
  <1>4. Drawn'
    BY <1>1 DEF IInv, TypeOK, Drawn
  <1>5. ASSUME NEW o \in Subscriber PROVE InboxRises(o)'
    <2>1. /\ inbox[o] \in Seq(Update) /\ cache \in [Topic -> Nat]
          /\ InboxRises(o) /\ cache' = cache /\ inbox' = inbox /\ shown' = shown
      BY <1>1 DEF IInv, TypeOK, cacheVars
    <2>2. CASE o # s
      <3>1. spc'[o] = spc[o] /\ sub_topic'[o] = sub_topic[o]
        BY <1>1, <2>2 DEF IInv, TypeOK
      <3> QED
        BY <2>1, <3>1 DEF InboxRises, OwnPlaces
    <2>3. CASE o = s
      <3>1. spc'[o] = "running" /\ sub_topic'[o] = t /\ shown'[o] = 0
        BY <1>1, <2>3 DEF IInv, TypeOK, None
      <3>2. \A i \in DOMAIN inbox[o] : inbox[o][i][2] \in Nat
        BY <2>1, PlacesTyped
      <3>3. \A i \in OwnPlaces(o)' : shown'[o] <= inbox'[o][i][2]
        BY <2>1, <3>1, <3>2 DEF OwnPlaces
      <3>4. shown'[o] <= cache'[sub_topic'[o]]
        BY <2>1, <3>1
      <3> QED
        BY <2>1, <3>3, <3>4 DEF InboxRises
    <2> QED
      BY <2>2, <2>3
  <1> QED
    BY <1>2, <1>3, <1>4, <1>5 DEF IInv

LEMMA ReceiveIInv ==
    ASSUME IInv, NEW s \in Subscriber, Receive(s)
    PROVE  IInv'
  <1>1. /\ spc[s] = "running" /\ inbox[s] \in Seq(Update) /\ inbox[s] # << >>
        /\ inbox \in [Subscriber -> Seq(Update)]
        /\ inbox' = [inbox EXCEPT ![s] = Tail(@)]
        /\ spc' = spc \/ spc' = [spc EXCEPT ![s] = "ended"]
        /\ shown' = shown \/ shown' = [shown EXCEPT ![s] = Head(inbox[s])[2]]
        /\ UNCHANGED <<publisherVars, feed, cacheVars, subscribed, events, sub_topic>>
    BY DEF IInv, TypeOK, Receive
  <1>2. Tail(inbox[s]) \in Seq(Update) /\ Head(inbox[s])[2] \in Nat
    BY <1>1, TailPositions, Updates
  <1>3. TypeOK'
    BY <1>1, <1>2 DEF IInv, TypeOK, publisherVars, cacheVars
  <1>4. PolledIsThere' /\ FeedRises'
    BY <1>1 DEF IInv, PolledIsThere, FeedRises, publisherVars, cacheVars
  <1>5. Drawn'
    BY <1>1 DEF IInv, TypeOK, Drawn
  <1>6. ASSUME NEW o \in Subscriber PROVE InboxRises(o)'
    <2>1. CASE o = s
      BY <2>1, ReceiveRises DEF IInv
    <2>2. CASE o # s
      <3>1. /\ inbox'[o] = inbox[o] /\ shown'[o] = shown[o] /\ sub_topic' = sub_topic
            /\ cache' = cache /\ (spc'[o] = "new" <=> spc[o] = "new")
        BY <1>1, <2>2 DEF IInv, TypeOK, cacheVars
      <3> QED
        BY <3>1 DEF IInv, InboxRises, OwnPlaces
    <2> QED
      BY <2>1, <2>2
  <1> QED
    BY <1>3, <1>4, <1>5, <1>6 DEF IInv

LEMMA NextIInv == IInv /\ [Next]_vars => IInv'
  <1> SUFFICES ASSUME IInv, [Next]_vars PROVE IInv'
    OBVIOUS
  <1>1. CASE UNCHANGED vars
    BY <1>1 DEF vars, publisherVars, cacheVars, subscriberVars, IInv, TypeOK, PolledIsThere,
                Drawn, FeedRises, InboxRises, OwnPlaces
  <1>2. CASE CacheLoop
    BY <1>2, QuietIInv, RouteUpdateIInv, HandleEventIInv DEF CacheLoop
  <1> QED
    BY <1>1, <1>2, PublishIInv, QuietIInv, SubscriptionIInv, ReceiveIInv, SubscribeIInv
       DEF Next

THEOREM Invariance == Spec => []IInv
  <1> QED
    BY InitIInv, NextIInv, PTL DEF Spec

\* The cache, the backend and the subscribers keep values of their types: only
\* what has been published is ever sent, and only for a topic that is known
\* (lvcache.cpp:55, 72-78).
THEOREM TypeCorrect == Spec => []TypeOK
  <1>1. IInv => TypeOK
    BY DEF IInv
  <1> QED
    BY <1>1, Invariance, PTL

\* A subscriber never gets an older value of its topic after a newer one, though
\* the answer to a new subscription goes to all that have it (lvcache.cpp:55,
\* 72-78).
THEOREM ValuesNeverGoBack == Spec => []NeverGoesBack
  <1>1. IInv => NeverGoesBack
    BY DEF IInv, InboxRises, Rises, OwnPlaces, NeverGoesBack
  <1> QED
    BY <1>1, Invariance, PTL

=============================================================================
