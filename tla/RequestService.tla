--------------------------- MODULE RequestService ---------------------------
(***************************************************************************)
(* What a queue that does not retry promises its clients: a request waits, *)
(* is handed to one worker at most, and is answered at most once; it may   *)
(* get lost on the way, and what is lost is never answered.                *)
(***************************************************************************)
EXTENDS Naturals

CONSTANT Request

VARIABLES status,   \* status[r]: how far r has come
          replies   \* replies[r]: how many replies to r the client was sent

Stage == {"new", "waiting", "assigned", "answered", "lost"}

TypeOK == status \in [Request -> Stage] /\ replies \in [Request -> {0, 1}]

Init ==
    /\ status = [r \in Request |-> "new"]
    /\ replies = [r \in Request |-> 0]

Move(r, from, to) ==
    /\ status[r] = from
    /\ status' = [status EXCEPT ![r] = to]

Submit(r) == Move(r, "new", "waiting") /\ UNCHANGED replies

Assign(r) == Move(r, "waiting", "assigned") /\ UNCHANGED replies

\* A request can get lost between leaving the queue and reaching a worker, at
\* the worker with its process or its connection, or with the queue itself.
Lose ==
    /\ \E S \in SUBSET {r \in Request : status[r] \in {"waiting", "assigned"}} :
           status' = [r \in Request |-> IF r \in S THEN "lost" ELSE status[r]]
    /\ UNCHANGED replies

Answer(r) ==
    /\ Move(r, "assigned", "answered")
    /\ replies' = [replies EXCEPT ![r] = @ + 1]

Next ==
    \/ Lose
    \/ \E r \in Request : Submit(r) \/ Assign(r) \/ Answer(r)

Spec == Init /\ [][Next]_<<status, replies>>

\* The lost request is given up, and one reply answers a request.
AnsweredOnce == \A r \in Request : (replies[r] = 1) <=> (status[r] = "answered")

=============================================================================
