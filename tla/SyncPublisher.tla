--------------------------- MODULE SyncPublisher ---------------------------
(***************************************************************************)
(* Node coordination: a publisher (syncpub.cpp) that waits for a known     *)
(* number of subscribers (syncsub.cpp) to report before it publishes.      *)
(*                                                                         *)
(* A subscriber subscribes on one connection and reports on another, so    *)
(* that its report may be answered before its subscription is in effect,   *)
(* or never.  The publisher counts reports, not subscribers.               *)
(***************************************************************************)
EXTENDS Integers, Sequences, FiniteSets

CONSTANTS Subscriber,
          SUBSCRIBERS_EXPECTED,
          Updates                \* the number of updates, 1'000'000 in the code

Rhubarb == "Rhubarb"
END == "END"

VARIABLES
    publisher,    \* where the publisher is
    subscribers,  \* the reports it has counted
    published,    \* updates published
    effective,    \* the subscriptions in effect
    reports,      \* the reports on their way
    subscriber,   \* subscriber[s]: where s is
    update_nbr,   \* update_nbr of s
    inbox         \* inbox[s]: what is on its way to s

vars == <<publisher, subscribers, published, effective, reports, subscriber,
          update_nbr, inbox>>

TypeOK ==
    /\ publisher \in {"synchronising", "sending", "ended"}
    /\ subscribers \in 0 .. SUBSCRIBERS_EXPECTED
    /\ published \in 0 .. Updates
    /\ effective \subseteq Subscriber
    /\ reports \subseteq Subscriber
    /\ subscriber \in [Subscriber -> {"new", "reporting", "receiving", "ended"}]
    /\ update_nbr \in [Subscriber -> 0 .. Updates]
    /\ inbox \in [Subscriber -> Seq({Rhubarb, END})]

Init ==
    /\ publisher = "synchronising"
    /\ subscribers = 0
    /\ published = 0
    /\ effective = {}
    /\ reports = {}
    /\ subscriber = [s \in Subscriber |-> "new"]
    /\ update_nbr = [s \in Subscriber |-> 0]
    /\ inbox = [s \in Subscriber |-> << >>]

----------------------------------------------------------------------------
(***************************************************************************)
(* The publisher.                                                          *)
(***************************************************************************)

\* The end of the first loop: subscribers < SUBSCRIBERS_EXPECTED.
OneIsMissing(n) == n + 1 >= SUBSCRIBERS_EXPECTED
AllReported(n) == n = SUBSCRIBERS_EXPECTED

\* The REP socket takes a report and answers it.
TakeReport(s) ==
    /\ publisher = "synchronising"
    /\ ~ AllReported(subscribers)
    /\ s \in reports
    /\ reports' = reports \ {s}
    /\ subscribers' = subscribers + 1
    /\ subscriber' = [subscriber EXCEPT ![s] = "receiving"]
    /\ UNCHANGED <<publisher, published, effective, update_nbr, inbox>>

StartSending ==
    /\ publisher = "synchronising"
    /\ AllReported(subscribers)
    /\ publisher' = "sending"
    /\ UNCHANGED <<subscribers, published, effective, reports, subscriber, update_nbr,
                   inbox>>

\* The publisher's socket holds any number of messages for a subscriber.
Send(m) ==
    inbox' = [s \in Subscriber |-> IF s \in effective THEN Append(inbox[s], m)
                                                      ELSE inbox[s]]

Publish ==
    /\ publisher = "sending"
    /\ published < Updates
    /\ published' = published + 1
    /\ Send(Rhubarb)
    /\ UNCHANGED <<publisher, subscribers, effective, reports, subscriber, update_nbr>>

\* What has been sent is delivered after the end too.
SendEnd ==
    /\ publisher = "sending"
    /\ published = Updates
    /\ publisher' = "ended"
    /\ Send(END)
    /\ UNCHANGED <<subscribers, published, effective, reports, subscriber, update_nbr>>

----------------------------------------------------------------------------
(***************************************************************************)
(* A subscriber.                                                           *)
(***************************************************************************)

Report(s) ==
    /\ subscriber[s] = "new"
    /\ subscriber' = [subscriber EXCEPT ![s] = "reporting"]
    /\ reports' = reports \cup {s}
    /\ UNCHANGED <<publisher, subscribers, published, effective, update_nbr, inbox>>

\* The publisher's socket gets to know of the subscription of s.
TakeEffect(s) ==
    /\ subscriber[s] \notin {"new", "ended"}
    /\ publisher # "ended"
    /\ effective' = effective \cup {s}
    /\ UNCHANGED <<publisher, subscribers, published, reports, subscriber, update_nbr,
                   inbox>>

Receive(s) ==
    /\ subscriber[s] = "receiving"
    /\ inbox[s] # << >>
    /\ inbox' = [inbox EXCEPT ![s] = Tail(@)]
    /\ IF Head(inbox[s]) = END
       THEN subscriber' = [subscriber EXCEPT ![s] = "ended"] /\ UNCHANGED update_nbr
       ELSE update_nbr' = [update_nbr EXCEPT ![s] = @ + 1] /\ UNCHANGED subscriber
    /\ UNCHANGED <<publisher, subscribers, published, effective, reports>>

----------------------------------------------------------------------------

Publisher == (\E s \in Subscriber : TakeReport(s)) \/ StartSending \/ Publish \/ SendEnd

Next == Publisher \/ \E s \in Subscriber : Report(s) \/ TakeEffect(s) \/ Receive(s)

(***************************************************************************)
(* Fairness.  Publisher and subscribers run; nobody has to start a         *)
(* subscriber, no subscription has to take effect.                         *)
(***************************************************************************)
Fairness ==
    /\ WF_vars(Publisher)
    /\ \A s \in Subscriber : WF_vars(Receive(s))

Spec == Init /\ [][Next]_vars

FairSpec == Spec /\ Fairness

----------------------------------------------------------------------------

Started == {s \in Subscriber : subscriber[s] # "new"}

\* A subscriber whose subscription is in effect while it still waits for the
\* answer to its report gets every update and ends, once all that are expected
\* have been started and if nobody else is: one more subscriber may have its
\* report counted instead, and one waits for ever (syncpub.cpp:27, syncsub.cpp:17).
InTimeGetAll ==
    \A s \in Subscriber :
        (/\ subscriber[s] = "reporting"
         /\ s \in effective
         /\ Cardinality(Started) = SUBSCRIBERS_EXPECTED) ~>
            (\/ subscriber[s] = "ended" /\ update_nbr[s] = Updates
             \/ Cardinality(Started) > SUBSCRIBERS_EXPECTED)

=============================================================================
