----------------------------- MODULE RoundTrip -----------------------------
(***************************************************************************)
(* The round-trip demonstrator (tripping.cpp): a client that sends one     *)
(* message at a time (run_sync_test) and then all of them before it reads  *)
(* a reply (run_async_test), a broker with a ROUTER socket on each side,   *)
(* and a worker that echoes.  Nobody looks at a message or waits with a    *)
(* time limit, so messages are counted: a lost one is one too few.         *)
(*                                                                         *)
(* A ROUTER drops what it cannot send: to a peer that is not connected or  *)
(* whose pipe is full.  Client and worker set their high-water marks to    *)
(* none, the broker leaves its own.  What is on its way to a peer may be   *)
(* out of the broker's pipe: it is full only if HWM are under way.         *)
(***************************************************************************)
EXTENDS Integers

CONSTANTS SyncCalls,   \* 10'000
          AsyncCalls,  \* 100'000
          HWM          \* the broker's ZMQ_SNDHWM, 1'000 by default

VARIABLES
    test,        \* where client_task is
    sent,        \* messages sent in the test
    received,    \* replies received in the test
    atFrontend,  \* messages at the frontend
    atWorker,    \* messages on their way to the worker
    atBackend,   \* echoes at the backend
    atClient,    \* echoes on their way to the client
    connected,   \* the backend knows "Worker"
    lost

flow == <<atFrontend, atWorker, atBackend, atClient>>
vars == <<test, sent, received, flow, connected, lost>>

TypeOK ==
    /\ test \in {"pause", "sync", "async", "ended"}
    /\ sent \in 0 .. SyncCalls + AsyncCalls
    /\ received \in 0 .. SyncCalls + AsyncCalls
    /\ {atFrontend, atWorker, atBackend, atClient, lost} \subseteq Nat
    /\ connected \in BOOLEAN

Init ==
    /\ test = "pause"
    /\ sent = 0
    /\ received = 0
    /\ atFrontend = 0 /\ atWorker = 0 /\ atBackend = 0 /\ atClient = 0
    /\ connected = FALSE
    /\ lost = 0

----------------------------------------------------------------------------
(***************************************************************************)
(* The client.  Its identity is known to the frontend before its messages. *)
(***************************************************************************)

Begin(t) == test' = t /\ sent' = 0 /\ received' = 0

\* The pause of 200 ms is over.
StartTests ==
    /\ test = "pause"
    /\ Begin("sync")
    /\ UNCHANGED <<flow, connected, lost>>

SendsAhead ==
    \/ test = "sync" /\ sent < SyncCalls
    \/ test = "async" /\ sent < AsyncCalls

MaySend ==
    \/ test = "sync" /\ sent < SyncCalls /\ sent = received
    \/ test = "async" /\ sent < AsyncCalls

Send ==
    /\ MaySend
    /\ sent' = sent + 1
    /\ atFrontend' = atFrontend + 1
    /\ UNCHANGED <<test, received, atWorker, atBackend, atClient, connected, lost>>

MayReceive ==
    \/ test = "sync" /\ sent > received
    \/ test = "async" /\ sent = AsyncCalls /\ received < AsyncCalls

Receive ==
    /\ MayReceive
    /\ atClient > 0
    /\ atClient' = atClient - 1
    /\ received' = received + 1
    /\ UNCHANGED <<test, sent, atFrontend, atWorker, atBackend, connected, lost>>

EndTest ==
    /\ \/ test = "sync" /\ received = SyncCalls /\ Begin("async")
       \/ test = "async" /\ received = AsyncCalls /\ Begin("ended")
    /\ UNCHANGED <<flow, connected, lost>>

----------------------------------------------------------------------------
(***************************************************************************)
(* The broker and the worker.                                              *)
(***************************************************************************)

Full(n) == n >= HWM

\* A frame goes out under another's identity: worker_id or client_id.
ToWorker ==
    /\ atFrontend > 0
    /\ atFrontend' = atFrontend - 1
    /\ \/ connected /\ atWorker' = atWorker + 1 /\ UNCHANGED lost
       \/ (~ connected \/ Full(atWorker)) /\ lost' = lost + 1 /\ UNCHANGED atWorker
    /\ UNCHANGED <<test, sent, received, atBackend, atClient, connected>>

ToClient ==
    /\ atBackend > 0
    /\ atBackend' = atBackend - 1
    /\ \/ atClient' = atClient + 1 /\ UNCHANGED lost
       \/ Full(atClient) /\ lost' = lost + 1 /\ UNCHANGED atClient
    /\ UNCHANGED <<test, sent, received, atFrontend, atWorker, connected>>

Connect ==
    /\ ~ connected
    /\ connected' = TRUE
    /\ UNCHANGED <<test, sent, received, flow, lost>>

Echo ==
    /\ atWorker > 0
    /\ atWorker' = atWorker - 1
    /\ atBackend' = atBackend + 1
    /\ UNCHANGED <<test, sent, received, atFrontend, atClient, connected, lost>>

----------------------------------------------------------------------------

ClientTask == StartTests \/ Send \/ Receive \/ EndTest

Next == ClientTask \/ ToWorker \/ ToClient \/ Connect \/ Echo

(***************************************************************************)
(* Fairness.  The threads run, and the broker looks at both sockets after  *)
(* each poll.  The worker's connection comes up whenever it does.          *)
(***************************************************************************)
Fairness ==
    /\ WF_vars(ClientTask)
    /\ WF_vars(ToWorker)
    /\ WF_vars(ToClient)
    /\ WF_vars(Echo)

Spec == Init /\ [][Next]_vars

FairSpec == Spec /\ Fairness

----------------------------------------------------------------------------

\* When the worker is connected by the end of the pause, both tests end, if the
\* second does not fill up a pipe of the broker: then, and then only, a message
\* may be lost and the client wait for ever (tripping.cpp:98, 127, 143, 150).
TestsEnd ==
    (test = "pause" /\ connected) ~>
        (test = "ended" \/ (test = "async" /\ lost > 0 /\ AsyncCalls > HWM))

=============================================================================
