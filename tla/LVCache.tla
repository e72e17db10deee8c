------------------------------ MODULE LVCache ------------------------------
(***************************************************************************)
(* The last value cache (last-value-caching): a publisher that sends every *)
(* topic once and then random ones (pathopub.cpp), the cache that forwards *)
(* them and answers new subscriptions with the last value (lvcache.cpp),   *)
(* and subscribers to one random topic each (pathosub.cpp).                *)
(*                                                                         *)
(* The backend is an XPUB socket.  It sends a message to whoever has       *)
(* subscribed to a prefix of its topic, and reports a subscription only    *)
(* when nobody else had it, and its end only when nobody else has it.      *)
(* What is published is known by how many times its topic had been, so     *)
(* that an older value can be told from a newer one.                       *)
(***************************************************************************)
EXTENDS Integers, Sequences, FiniteSets, Functions, FiniteSetsExt

CONSTANTS Subscriber,
          Topic,      \* the topic numbers, 1 .. 1000 in the code
          HWM,        \* messages the publisher's socket holds for the cache
          MaxUpdates  \* bound: how often a topic is published

ASSUME TopicAssumption ==
    Topic \subseteq Nat \ {0} /\ IsFiniteSet(Topic) /\ HWM \in Nat /\ MaxUpdates \in Nat

None == 0

\* topic_frame is the number in decimal: 1 is a prefix of 10 and of 1000.
IsPrefix(sub, topic) == \E digits \in 0 .. 3 : topic \div 10^digits = sub

SUB == 1
UNSUB == 0

VARIABLES
    published,  \* published[t]: how often topic t has been published
    linked,     \* the publisher knows of the cache's subscription
    feed,       \* what is on its way from the publisher to the cache
    pc,         \* where the cache is in its loop
    revents,    \* the sockets that zmq::poll has found readable
    cache,      \* cache[t]: the last value, or None
    subscribed, \* subscribed[s]: the topic the backend has for s, or None
    events,     \* what the backend has to report
    spc,        \* spc[s]: where subscriber s is
    sub_topic,  \* sub_topic[s], or None before it is drawn
    inbox,      \* inbox[s]: what is on its way to s
    shown       \* shown[s]: the last value s has printed, or None

publisherVars == <<published, linked>>
cacheVars == <<pc, revents, cache>>
subscriberVars == <<spc, sub_topic, shown>>
vars == <<publisherVars, feed, cacheVars, subscribed, events, subscriberVars, inbox>>

Update == Topic \X (Nat \ {None})

TypeOK ==
    /\ published \in [Topic -> 0 .. MaxUpdates]
    /\ linked \in BOOLEAN
    /\ feed \in Seq(Update)
    /\ pc \in {"poll", "frontend", "backend"}
    /\ revents \subseteq {"frontend", "backend"}
    /\ cache \in [Topic -> Nat]
    /\ subscribed \in [Subscriber -> Topic \cup {None}]
    /\ events \in Seq({SUB, UNSUB} \X Topic)
    /\ spc \in [Subscriber -> {"new", "running", "ended"}]
    /\ sub_topic \in [Subscriber -> Topic \cup {None}]
    /\ inbox \in [Subscriber -> Seq(Update)]
    /\ shown \in [Subscriber -> Nat]

Init ==
    /\ published = [t \in Topic |-> 0]
    /\ linked = FALSE
    /\ feed = << >>
    /\ pc = "poll"
    /\ revents = {}
    /\ cache = [t \in Topic |-> None]
    /\ subscribed = [s \in Subscriber |-> None]
    /\ events = << >>
    /\ spc = [s \in Subscriber |-> "new"]
    /\ sub_topic = [s \in Subscriber |-> None]
    /\ inbox = [s \in Subscriber |-> << >>]
    /\ shown = [s \in Subscriber |-> None]

----------------------------------------------------------------------------
(***************************************************************************)
(* pathopub.  What the cache is not linked for, or has no room for, is     *)
(* dropped.                                                                *)
(***************************************************************************)

Publish(t) ==
    /\ published[t] < MaxUpdates
    /\ LET unsent == {u \in Topic : published[u] = 0}
       IN  unsent # {} => t = Min(unsent)
    /\ published' = [published EXCEPT ![t] = @ + 1]
    /\ feed' = IF linked /\ Len(feed) < HWM
               THEN Append(feed, <<t, published'[t]>>)
               ELSE feed
    /\ UNCHANGED <<linked, cacheVars, subscribed, events, subscriberVars, inbox>>

\* frontend.connect and its subscription to everything take effect.
LinkUp ==
    /\ ~ linked
    /\ linked' = TRUE
    /\ UNCHANGED <<published, feed, cacheVars, subscribed, events, subscriberVars, inbox>>

----------------------------------------------------------------------------
(***************************************************************************)
(* lvcache.                                                                *)
(***************************************************************************)

\* A poll that runs out, after one second, is a turn of the loop that does
\* nothing.
Poll ==
    /\ pc = "poll"
    /\ feed # << >> \/ events # << >>
    /\ revents' = {x \in {"frontend", "backend"} :
                    IF x = "frontend" THEN feed # << >> ELSE events # << >>}
    /\ pc' = "frontend"
    /\ UNCHANGED <<publisherVars, feed, cache, subscribed, events, subscriberVars, inbox>>

\* backend.send: to all that have subscribed to a prefix of the topic.
BackendSend(m) ==
    inbox' = [s \in Subscriber |->
        IF subscribed[s] # None /\ IsPrefix(subscribed[s], m[1])
        THEN Append(inbox[s], m)
        ELSE inbox[s]]

\* cache[topic] = data
InsertIfNew(m) == IF cache[m[1]] = None THEN [cache EXCEPT ![m[1]] = m[2]] ELSE cache
Remember(m) == [cache EXCEPT ![m[1]] = m[2]]

RouteUpdate ==
    /\ pc = "frontend"
    /\ "frontend" \in revents
    /\ cache' = Remember(Head(feed))
    /\ BackendSend(Head(feed))
    /\ feed' = Tail(feed)
    /\ pc' = "backend"
    /\ UNCHANGED <<publisherVars, revents, subscribed, events, subscriberVars>>

NoUpdate ==
    /\ pc = "frontend"
    /\ "frontend" \notin revents
    /\ pc' = "backend"
    /\ UNCHANGED <<publisherVars, feed, revents, cache, subscribed, events,
                   subscriberVars, inbox>>

\* Whether the cache answers an event: a subscription to a topic it has seen.
AnswersEnds(e) == e[1] = UNSUB /\ cache[e[2]] # None
Answers(e) == e[1] = SUB /\ cache[e[2]] # None

HandleEvent ==
    /\ pc = "backend"
    /\ "backend" \in revents
    /\ IF Answers(Head(events))
       THEN BackendSend(<<Head(events)[2], cache[Head(events)[2]]>>)
       ELSE UNCHANGED inbox
    /\ events' = Tail(events)
    /\ pc' = "poll"
    /\ UNCHANGED <<publisherVars, feed, revents, cache, subscribed, subscriberVars>>

NoEvent ==
    /\ pc = "backend"
    /\ "backend" \notin revents
    /\ pc' = "poll"
    /\ UNCHANGED <<publisherVars, feed, revents, cache, subscribed, events,
                   subscriberVars, inbox>>

CacheLoop == Poll \/ RouteUpdate \/ NoUpdate \/ HandleEvent \/ NoEvent

----------------------------------------------------------------------------
(***************************************************************************)
(* The subscriptions of the backend.                                       *)
(***************************************************************************)

Others(s, t) == {o \in Subscriber \ {s} : subscribed[o] = t}

SetSubscription(s, t) == subscribed' = [subscribed EXCEPT ![s] = t]

Report(s, t, event) ==
    events' = IF Others(s, t) = {} THEN Append(events, <<event, t>>) ELSE events

Subscription(s) ==
    /\ spc[s] = "running"
    /\ subscribed[s] = None
    /\ SetSubscription(s, sub_topic[s])
    /\ Report(s, sub_topic[s], SUB)
    /\ UNCHANGED <<publisherVars, feed, cacheVars, subscriberVars, inbox>>

Unsubscription(s) ==
    /\ spc[s] = "ended"
    /\ subscribed[s] # None
    /\ SetSubscription(s, None)
    /\ Report(s, subscribed[s], UNSUB)
    /\ inbox' = [inbox EXCEPT ![s] = << >>]
    /\ UNCHANGED <<publisherVars, feed, cacheVars, subscriberVars>>

----------------------------------------------------------------------------
(***************************************************************************)
(* pathosub.                                                               *)
(***************************************************************************)

Subscribe(s, t) ==
    /\ spc[s] = "new"
    /\ spc' = [spc EXCEPT ![s] = "running"]
    /\ sub_topic' = [sub_topic EXCEPT ![s] = t]
    /\ UNCHANGED <<publisherVars, feed, cacheVars, subscribed, events, inbox, shown>>

\* A subscriber ends when it gets another topic than its own.
Receive(s) ==
    /\ spc[s] = "running"
    /\ inbox[s] # << >>
    /\ inbox' = [inbox EXCEPT ![s] = Tail(@)]
    /\ IF Head(inbox[s])[1] = sub_topic[s]
       THEN shown' = [shown EXCEPT ![s] = Head(inbox[s])[2]] /\ UNCHANGED spc
       ELSE spc' = [spc EXCEPT ![s] = "ended"] /\ UNCHANGED shown
    /\ UNCHANGED <<publisherVars, feed, cacheVars, subscribed, events, sub_topic>>

----------------------------------------------------------------------------

Next ==
    \/ \E t \in Topic : Publish(t)
    \/ LinkUp
    \/ CacheLoop
    \/ \E s \in Subscriber : Subscription(s) \/ Unsubscription(s) \/ Receive(s)
    \/ \E s \in Subscriber, t \in Topic : Subscribe(s, t)

(***************************************************************************)
(* Fairness.  The cache and the subscribers keep running; nothing is asked *)
(* of the publisher, nor of when subscribers come.                         *)
(***************************************************************************)
Fairness ==
    /\ WF_vars(CacheLoop)
    /\ \A s \in Subscriber : WF_vars(Receive(s))

Spec == Init /\ [][Next]_vars

FairSpec == Spec /\ Fairness

----------------------------------------------------------------------------

\* Where in its inbox s has values of its topic.
OwnPlaces(s) == {i \in DOMAIN inbox[s] : inbox[s][i][1] = sub_topic[s]}

\* A subscriber never gets an older value of its topic after a newer one: what
\* the cache sends to a new subscription goes to all that have it, and may
\* repeat a value but not go back to one (lvcache.cpp:55, 72-78).
NeverGoesBack ==
    \A s \in Subscriber : \A i \in OwnPlaces(s) :
        /\ shown[s] <= inbox[s][i][2]
        /\ \A j \in OwnPlaces(s) : i < j => inbox[s][i][2] <= inbox[s][j][2]

\* When the cache has the topic of a subscription it has still to handle,
\* whoever has that subscription prints a value of it, or ends on a topic that
\* its own is a prefix of (lvcache.cpp:61-78, pathosub.cpp:61).
AnsweredFromCache ==
    \A s \in Subscriber, t \in Topic :
        (/\ subscribed[s] = t
         /\ <<SUB, t>> \in Range(events)
         /\ cache[t] # None) ~> (shown[s] # None \/ spc[s] = "ended")

=============================================================================
