------------------------------ MODULE Workers ------------------------------
(***************************************************************************)
(* pp::workers_t (robust-reliable-queuing/workers.cpp): the deque of idle  *)
(* workers that ppqueue dispatches from, and the table of their expiry     *)
(* times.  A value of the class is a record ws with                        *)
(*                                                                         *)
(*   ws.queue    queue_, the identities in the order they will be used     *)
(*   ws.lookup   lookup_, a function from identities to expiry times       *)
(*                                                                         *)
(* An expiry time is kept as the number of clock ticks left until it: one  *)
(* tick is one heartbeat_interval, a refreshed entry has TTL of them,      *)
(* ClockTick takes one from every entry, and an entry at Expired is one    *)
(* for which "now() > lookup_[id]" holds.  The solutions are set up for    *)
(* Debug builds, so the asserts of the class are live: callers check       *)
(* PushAllowed and RefreshAllowed, which are the asserted conditions.      *)
(***************************************************************************)
EXTENDS Integers, Sequences, SequencesExt, Functions

CONSTANTS Worker,  \* the identities a worker process may have
          TTL      \* ttl_, in ticks of the heartbeat interval

ASSUME TTLAssumption == TTL \in Nat \ {0}

Expired == -1

Expiry == Expired .. TTL

\* The states the C++ types allow; the class means to stay in Consistent ones.
WorkersValue ==
    [queue : Seq(Worker), lookup : UNION {[S -> Expiry] : S \in SUBSET Worker}]

\* The deque holds nobody twice, and exactly the identities the table knows.
Consistent(ws) ==
    /\ IsInjective(ws.queue)
    /\ Range(ws.queue) = DOMAIN ws.lookup

----------------------------------------------------------------------------

NoWorkers == [queue |-> << >>, lookup |-> << >>]

Empty(ws) == ws.queue = << >>

Knows(ws, id) == id \in DOMAIN ws.lookup

\* lookup_.erase(id)
Forget(lookup, id) == Restrict(lookup, DOMAIN lookup \ {id})

\* lookup_[id] = now() + ttl_ and lookup_.insert(make_pair(id, now() + ttl_))
Renew(lookup, id) ==
    [v \in DOMAIN lookup \cup {id} |-> IF v = id THEN TTL ELSE lookup[v]]

\* The first position of an identity that find_if finds in the deque.
Position(queue, id) ==
    CHOOSE i \in DOMAIN queue :
        queue[i] = id /\ \A j \in DOMAIN queue : queue[j] = id => i <= j

Erase(ws, id) ==
    [queue  |-> IF id \in Range(ws.queue)
                THEN RemoveAt(ws.queue, Position(ws.queue, id))
                ELSE ws.queue,
     lookup |-> Forget(ws.lookup, id)]

\* assert(lookup_.count(identity) == 0)
PushAllowed(ws, id) == ~ Knows(ws, id)

Push(ws, id) ==
    [queue |-> Append(ws.queue, id), lookup |-> Renew(ws.lookup, id)]

TryPush(ws, id) == IF Knows(ws, id) THEN ws ELSE Push(ws, id)

\* assert(lookup_.count(identity))
RefreshAllowed(ws, id) == Knows(ws, id)

Refresh(ws, id) == [ws EXCEPT !.lookup = Renew(ws.lookup, id)]

FrontId(ws) == Head(ws.queue)

PopKeepsEntry(ws) ==
    IF Empty(ws) THEN ws ELSE [ws EXCEPT !.queue = Tail(ws.queue)]
Pop(ws) ==
    IF Empty(ws)
    THEN ws
    ELSE [queue |-> Tail(ws.queue), lookup |-> Forget(ws.lookup, FrontId(ws))]

ExpiresNow(ws, id) == ws.lookup[id] <= 0
IsExpired(ws, id) == ws.lookup[id] = Expired

\* The condition of purge's loop, with the index the loop counts with.
PurgeStopsShort(ws, i) == i + 1 < Len(ws.queue)
PurgeMore(ws, i) == i < Len(ws.queue)

\* The body of purge's loop.  The loop compares its index with a size that
\* shrinks by one for each entry the body drops.
PurgeBody(ws) ==
    IF IsExpired(ws, FrontId(ws))
    THEN [queue  |-> Tail(ws.queue),
          lookup |-> Forget(ws.lookup, FrontId(ws))]
    ELSE [ws EXCEPT !.queue = Append(Tail(ws.queue), FrontId(ws))]

\* The passage of one heartbeat interval, as it shows in the table.
ClockTick(ws) ==
    [ws EXCEPT !.lookup =
        [id \in DOMAIN ws.lookup |->
            IF ws.lookup[id] = Expired THEN Expired ELSE ws.lookup[id] - 1]]

=============================================================================
