---------------------------- MODULE QueueLemmas ----------------------------
(***************************************************************************)
(* Sequences used as queues without duplicates, read position by position: *)
(* what Tail and Append do to their members.                               *)
(***************************************************************************)
EXTENDS Integers, Sequences, Functions, SequenceTheorems, TLAPS

\* The positions of a queue, and of the queue without its front.
LEMMA TailPositions ==
    ASSUME NEW S, NEW q \in Seq(S), q # << >>
    PROVE  /\ Tail(q) \in Seq(S)
           /\ Head(q) = q[1] /\ Head(q) \in S
           /\ Len(q) \in Nat /\ Len(q) >= 1
           /\ Len(Tail(q)) = Len(q) - 1
           /\ DOMAIN q = 1 .. Len(q)
           /\ DOMAIN Tail(q) = 1 .. Len(q) - 1
           /\ \A i \in 1 .. Len(q) - 1 : Tail(q)[i] = q[i + 1]
  OBVIOUS

\* The positions of a queue with a new back.
LEMMA AppendPositions ==
    ASSUME NEW S, NEW q \in Seq(S), NEW x \in S
    PROVE  /\ Append(q, x) \in Seq(S)
           /\ Append(q, x) # << >>
           /\ Len(q) \in Nat
           /\ Len(Append(q, x)) = Len(q) + 1
           /\ DOMAIN q = 1 .. Len(q)
           /\ DOMAIN Append(q, x) = 1 .. Len(q) + 1
           /\ \A i \in 1 .. Len(q) : Append(q, x)[i] = q[i]
           /\ Append(q, x)[Len(q) + 1] = x
  OBVIOUS

\* Members of a queue are of its type.
LEMMA MembersTyped ==
    ASSUME NEW S, NEW q \in Seq(S), NEW v \in Range(q)
    PROVE  v \in S
  <1>1. PICK i \in DOMAIN q : q[i] = v
    BY DEF Range
  <1>2. \A j \in DOMAIN q : q[j] \in S
    OBVIOUS
  <1> QED
    BY <1>1, <1>2

\* The front of a queue that is not empty is a member of it.
LEMMA HeadIsMember ==
    ASSUME NEW S, NEW q \in Seq(S), q # << >>
    PROVE  Head(q) \in Range(q)
  <1>1. 1 \in DOMAIN q /\ Head(q) = q[1]
    BY TailPositions
  <1> QED
    BY <1>1 DEF Range

\* A channel with one message at most, when there is one.
LEMMA OnlyMessage ==
    ASSUME NEW S, NEW q \in Seq(S), q # << >>, Len(q) <= 1
    PROVE  Len(q) = 1 /\ Tail(q) = << >> /\ Head(q) \in S
  <1>1. /\ Tail(q) \in Seq(S) /\ Head(q) \in S
        /\ Len(q) \in Nat /\ Len(q) >= 1
        /\ Len(Tail(q)) = Len(q) - 1
    BY TailPositions
  <1>2. Len(q) = 1 /\ Len(Tail(q)) = 0
    BY <1>1
  <1> QED
    BY <1>1, <1>2, EmptySeq

\* The length of an empty channel.
LEMMA EmptyLength == Len(<< >>) = 0
  OBVIOUS

\* A channel with its first message.
LEMMA FirstMessage ==
    ASSUME NEW S, NEW q, q = << >>, NEW x \in S
    PROVE  Append(q, x) \in Seq(S) /\ Len(Append(q, x)) = 1
  <1>1. q \in Seq(S) /\ Len(q) = 0
    OBVIOUS
  <1> QED
    BY <1>1, AppendPositions

\* A new back is a new member, and Tail brings none.
LEMMA AppendRange ==
    ASSUME NEW S, NEW q \in Seq(S), NEW x \in S
    PROVE  Range(Append(q, x)) = Range(q) \cup {x}
  <1>1. ASSUME NEW v \in Range(Append(q, x)) PROVE v \in Range(q) \cup {x}
    BY AppendPositions DEF Range
  <1>2. Range(q) \subseteq Range(Append(q, x))
    BY AppendPositions DEF Range
  <1>3. x \in Range(Append(q, x))
    <2>1. Len(q) + 1 \in DOMAIN Append(q, x) /\ Append(q, x)[Len(q) + 1] = x
      BY AppendPositions
    <2> QED
      BY <2>1 DEF Range
  <1> QED
    BY <1>1, <1>2, <1>3

LEMMA TailRange ==
    ASSUME NEW S, NEW q \in Seq(S), q # << >>
    PROVE  Range(Tail(q)) \subseteq Range(q)
  BY TailPositions DEF Range

\* pop takes the front, and only the front, off a queue without duplicates.
LEMMA PopMembers ==
    ASSUME NEW S, NEW q \in Seq(S), q # << >>, IsInjective(q)
    PROVE  IsInjective(Tail(q)) /\ Range(Tail(q)) = Range(q) \ {Head(q)}
  <1>1. IsInjective(Tail(q))
    BY TailPositions DEF IsInjective
  <1>2. ASSUME NEW v \in Range(Tail(q)) PROVE v \in Range(q) \ {Head(q)}
    BY TailPositions DEF Range, IsInjective
  <1>3. ASSUME NEW v \in Range(q) \ {Head(q)} PROVE v \in Range(Tail(q))
    <2>1. PICK j \in 1 .. Len(q) : q[j] = v
      BY TailPositions DEF Range
    <2>2. j - 1 \in DOMAIN Tail(q) /\ Tail(q)[j - 1] = v
      BY TailPositions, <1>3, <2>1
    <2> QED
      BY <2>2 DEF Range
  <1> QED
    BY <1>1, <1>2, <1>3

\* push adds its argument, and only that, to a queue that does not have it.
LEMMA PushMembers ==
    ASSUME NEW S, NEW q \in Seq(S), NEW x \in S, IsInjective(q), x \notin Range(q)
    PROVE  IsInjective(Append(q, x)) /\ Range(Append(q, x)) = Range(q) \cup {x}
  <1>1. \A i \in 1 .. Len(q) : q[i] # x
    BY AppendPositions DEF Range
  <1>2. IsInjective(Append(q, x))
    BY AppendPositions, <1>1 DEF IsInjective
  <1> QED
    BY <1>2, AppendRange

=============================================================================
