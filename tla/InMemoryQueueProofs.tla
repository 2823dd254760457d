------------------------ MODULE InMemoryQueueProofs ------------------------
(***************************************************************************)
(* TLAPS proofs about InMemoryQueue, for every set of publish() and        *)
(* shutdown() calls, every capacity and both overflow strategies.          *)
(***************************************************************************)
EXTENDS InMemoryQueue, SequenceTheorems, TLAPS

\* A publish() call enters the log once.
LogInjective ==
    \A i, j \in 1..Len(log) : log[i] = log[j] => i = j

\* A shutdown() call that has begun has closed the queue.
ClosingMeansClosed ==
    \A c \in Closers : closing[c] /= "new" => ~acceptingWork

\* The parts that do not speak of publishers' promises.
CoreInv ==
    /\ TypeOK
    /\ WaitingOnlyWhenFull
    /\ Fifo
    /\ NoLostWakeup
    /\ CurrentIsHead

\* The inductive invariant.
QueueInv ==
    /\ CoreInv
    /\ LogInjective
    /\ OutcomeTruthful
    /\ ClosingMeansClosed
    /\ ShutdownQuiesces

-----------------------------------------------------------------------------

\* The initial state, an empty open queue nobody has called, satisfies the
\* invariant.
LEMMA InitEstablishes == Init => QueueInv
<1> SUFFICES ASSUME Init PROVE QueueInv
    OBVIOUS
<1> USE CapacityAssumption DEF Init
<1>1. CoreInv
    BY DEF CoreInv, TypeOK, WaitingOnlyWhenFull, Fifo, NoLostWakeup, CurrentIsHead,
           ConsumerState, PublishOutcome
<1>2. LogInjective /\ OutcomeTruthful /\ ClosingMeansClosed /\ ShutdownQuiesces
    BY DEF LogInjective, OutcomeTruthful, ClosingMeansClosed, ShutdownQuiesces
<1> QED
    BY <1>1, <1>2 DEF QueueInv

\* A step of HandlerResolves admits at most one parked publisher, since one can
\* be parked only when the queue was full before its head left.
LEMMA OneAdmission ==
    ASSUME CoreInv, consumer = "handling",
           NEW n, Admitted(Capacity - Len(Tail(messages)), waitingPublishers) = n
    PROVE  /\ n \in {0, 1}
           /\ n <= Len(waitingPublishers)
           /\ messages /= <<>>
           /\ n = 0 => waitingPublishers = <<>>
           /\ n = 1 => acceptingWork /\ Len(messages) = Capacity
<1>1. messages /= <<>> /\ Len(Tail(messages)) = Len(messages) - 1 /\ Len(messages) > 0
    BY DEF CoreInv, CurrentIsHead, TypeOK
<1>2. CASE waitingPublishers = <<>>
  <2>1. Capacity - Len(Tail(messages)) >= 1 /\ Capacity - Len(Tail(messages)) \in Nat
      BY <1>1, CapacityAssumption DEF CoreInv, TypeOK
  <2>2. Len(waitingPublishers) = 0
      BY <1>2
  <2>3. Admitted(Capacity - Len(Tail(messages)), waitingPublishers) = 0
      BY <2>1, <2>2 DEF Admitted
  <2> QED
      BY <1>1, <1>2, <2>2, <2>3
<1>3. CASE waitingPublishers /= <<>>
  <2>1. acceptingWork /\ Len(messages) = Capacity /\ Len(waitingPublishers) >= 1
      BY <1>3 DEF CoreInv, WaitingOnlyWhenFull, TypeOK
  <2>2. Capacity - Len(Tail(messages)) = 1
      BY <1>1, <2>1, CapacityAssumption
  <2>3. n = 1
    <3>1. Len(waitingPublishers) \in Nat
        BY DEF CoreInv, TypeOK
    <3>2. Admitted(1, waitingPublishers) = n
        BY <2>2
    <3> QED
        BY <2>1, <3>1, <3>2 DEF Admitted
  <2> QED
      BY <1>1, <2>1, <2>3
<1> QED
    BY <1>2, <1>3

-----------------------------------------------------------------------------
(* publish()                                                               *)

\* A refused publish() changes its own outcome only.
LEMMA PublishRefusedPreserves ==
    ASSUME QueueInv, NEW m \in Messages, PublishRefused(m) PROVE QueueInv'
<1> USE DEF PublishRefused, queueVars, QueueInv
<1>1. outcome' \in [Messages -> PublishOutcome]
    BY DEF CoreInv, TypeOK, PublishOutcome
<1>2. CoreInv'
    BY <1>1 DEF CoreInv, TypeOK, WaitingOnlyWhenFull, Fifo, NoLostWakeup, CurrentIsHead
<1>3. OutcomeTruthful'
  <2>1. outcome[m] /= "waiting" /\ outcome[m] /= "accepted"
      OBVIOUS
  <2>2. outcome'[m] /= "waiting" /\ outcome'[m] /= "accepted"
      BY DEF CoreInv, TypeOK
  <2>3. \A x \in Messages \ {m} : outcome'[x] = outcome[x]
      BY DEF CoreInv, TypeOK
  <2> QED
      BY <2>1, <2>2, <2>3 DEF OutcomeTruthful
<1>4. (LogInjective /\ ClosingMeansClosed /\ ShutdownQuiesces)'
    BY DEF LogInjective, ClosingMeansClosed, ShutdownQuiesces
<1> QED
    BY <1>2, <1>3, <1>4

\* A call that has not answered yet is nowhere in the log.
LEMMA NewIsNotLogged ==
    ASSUME QueueInv, NEW m \in Messages, outcome[m] = "new"
    PROVE  \A i \in 1..Len(log) : log[i] /= m
<1> SUFFICES ASSUME NEW i \in 1..Len(log), log[i] = m PROVE FALSE
    OBVIOUS
<1> USE DEF QueueInv, CoreInv, TypeOK
<1>1. CASE i <= Len(acked) + Len(messages)
    BY <1>1 DEF OutcomeTruthful
<1>2. CASE i > Len(acked) + Len(messages)
  <2> DEFINE j == i - (Len(acked) + Len(messages))
  <2>1. j \in 1..Len(waitingPublishers) /\ i = Len(acked) + Len(messages) + j
      BY <1>2 DEF Fifo
  <2>2. waitingPublishers[j] = m
      BY <2>1 DEF Fifo
  <2> QED
      BY <2>1, <2>2 DEF OutcomeTruthful
<1> QED
    BY <1>1, <1>2

\* The lengths of the sequences are natural numbers.
LEMMA LengthsAreNat ==
    ASSUME TypeOK
    PROVE  /\ Len(messages) \in Nat /\ Len(waitingPublishers) \in Nat
           /\ Len(acked) \in Nat /\ Len(log) \in Nat
BY DEF TypeOK

\* A parked publisher goes to the end of the log.
LEMMA PublishWaitsPreserves ==
    ASSUME QueueInv, NEW m \in Messages, PublishWaits(m) PROVE QueueInv'
<1>1. TypeOK /\ TypeOK'
    BY DEF PublishWaits, QueueInv, CoreInv, TypeOK, PublishOutcome
<1>2. UNCHANGED <<messages, acked, consumer, current, acceptingWork, closing>>
    BY DEF PublishWaits
<1>3. /\ Len(waitingPublishers') = Len(waitingPublishers) + 1
      /\ \A i \in 1..Len(waitingPublishers) : waitingPublishers'[i] = waitingPublishers[i]
      /\ waitingPublishers'[Len(waitingPublishers) + 1] = m
    BY <1>1, AppendProperties DEF PublishWaits, TypeOK
<1>4. /\ Len(log') = Len(log) + 1
      /\ \A i \in 1..Len(log) : log'[i] = log[i]
      /\ log'[Len(log) + 1] = m
    BY <1>1, AppendProperties DEF PublishWaits, TypeOK
<1>5. outcome'[m] = "waiting" /\ \A x \in Messages \ {m} : outcome'[x] = outcome[x]
    BY <1>1 DEF PublishWaits, TypeOK
<1>6. outcome[m] = "new" /\ acceptingWork /\ Len(messages) >= Capacity
    BY DEF PublishWaits
<1>7. Fifo /\ Fifo'
  <2>1. Fifo
      BY DEF QueueInv, CoreInv
  <2>2. Len(log') = Len(acked') + Len(messages') + Len(waitingPublishers')
      BY <2>1, <1>1, <1>2, <1>3, <1>4, LengthsAreNat DEF Fifo
  <2>3. \A i \in 1..Len(acked') : acked'[i] = log'[i]
      BY <2>1, <1>1, <1>2, <1>4, LengthsAreNat DEF Fifo
  <2>4. ASSUME NEW i \in 1..Len(messages')
        PROVE  messages'[i] = log'[Len(acked') + i]
    <3>1. i \in 1..Len(messages) /\ Len(acked) + i \in 1..Len(log)
        BY <2>1, <1>1, <1>2, LengthsAreNat DEF Fifo
    <3> QED
        BY <2>1, <1>2, <1>4, <3>1 DEF Fifo
  <2>5. ASSUME NEW i \in 1..Len(waitingPublishers')
        PROVE  waitingPublishers'[i] = log'[Len(acked') + Len(messages') + i]
    <3>1. CASE i = Len(waitingPublishers) + 1
        BY <2>1, <1>1, <1>2, <1>3, <1>4, <3>1, LengthsAreNat DEF Fifo
    <3>2. CASE i \in 1..Len(waitingPublishers)
      <4>1. Len(acked) + Len(messages) + i \in 1..Len(log)
          BY <2>1, <1>1, <3>2, LengthsAreNat DEF Fifo
      <4> QED
          BY <2>1, <1>2, <1>3, <1>4, <3>2, <4>1 DEF Fifo
    <3> QED
        BY <1>1, <1>3, <3>1, <3>2, LengthsAreNat
  <2> QED
      BY <2>1, <2>2, <2>3, <2>4, <2>5 DEF Fifo
<1>8. (WaitingOnlyWhenFull /\ NoLostWakeup /\ CurrentIsHead)'
    BY <1>1, <1>2, <1>6, CapacityAssumption
    DEF QueueInv, CoreInv, TypeOK, WaitingOnlyWhenFull, NoLostWakeup, CurrentIsHead
<1>9. LogInjective'
    BY <1>1, <1>4, <1>6, LengthsAreNat, NewIsNotLogged DEF QueueInv, LogInjective
<1>10. OutcomeTruthful'
  <2>1. \A i \in 1..Len(log) : log[i] /= m
      BY <1>6, NewIsNotLogged
  <2>2. \A x \in Messages :
          (\E i \in 1..Len(waitingPublishers') : waitingPublishers'[i] = x) <=>
          (x = m \/ \E i \in 1..Len(waitingPublishers) : waitingPublishers[i] = x)
      BY <1>1, <1>3, LengthsAreNat
  <2>3. \A x \in Messages :
          (\E i \in 1..(Len(acked') + Len(messages')) : log'[i] = x) <=>
          (\E i \in 1..(Len(acked) + Len(messages)) : log[i] = x)
      BY <1>1, <1>2, <1>4, <1>7, LengthsAreNat DEF Fifo
  <2>4. Len(acked) + Len(messages) <= Len(log)
      BY <1>1, <1>7, LengthsAreNat DEF Fifo
  <2>5. ~ \E i \in 1..(Len(acked) + Len(messages)) : log[i] = m
      BY <1>1, <2>1, <2>4, LengthsAreNat
  <2> QED
      BY <1>5, <2>2, <2>3, <2>5 DEF QueueInv, OutcomeTruthful
<1>11. (ClosingMeansClosed /\ ShutdownQuiesces)'
    BY <1>2 DEF QueueInv, ClosingMeansClosed, ShutdownQuiesces
<1> QED
    BY <1>1, <1>7, <1>8, <1>9, <1>10, <1>11 DEF QueueInv, CoreInv

\* A stored message goes to the end of the log: nobody is parked before it.
LEMMA PublishStoredPreserves ==
    ASSUME QueueInv, NEW m \in Messages, PublishStored(m) PROVE QueueInv'
<1>1. TypeOK /\ TypeOK'
    BY CapacityAssumption
    DEF PublishStored, Woken, QueueInv, CoreInv, TypeOK, PublishOutcome, ConsumerState
<1>2. UNCHANGED <<waitingPublishers, acceptingWork, current, closing, acked>>
    BY DEF PublishStored
<1>3. /\ messages' /= <<>>
      /\ Len(messages') = Len(messages) + 1
      /\ \A i \in 1..Len(messages) : messages'[i] = messages[i]
      /\ messages'[Len(messages) + 1] = m
      /\ messages /= <<>> => Head(messages') = Head(messages)
    BY <1>1, AppendProperties DEF PublishStored, TypeOK
<1>4. /\ Len(log') = Len(log) + 1
      /\ \A i \in 1..Len(log) : log'[i] = log[i]
      /\ log'[Len(log) + 1] = m
    BY <1>1, AppendProperties DEF PublishStored, TypeOK
<1>5. outcome'[m] = "accepted" /\ \A x \in Messages \ {m} : outcome'[x] = outcome[x]
    BY <1>1 DEF PublishStored, TypeOK
<1>6. outcome[m] = "new" /\ acceptingWork /\ Len(messages) < Capacity
    BY DEF PublishStored
<1>7. waitingPublishers = <<>> /\ Len(waitingPublishers) = 0
    BY <1>1, <1>6, CapacityAssumption DEF QueueInv, CoreInv, TypeOK, WaitingOnlyWhenFull
<1>8. Fifo /\ Fifo' /\ Len(log) = Len(acked) + Len(messages)
  <2>1. Fifo /\ Len(log) = Len(acked) + Len(messages)
      BY <1>1, <1>7, LengthsAreNat DEF QueueInv, CoreInv, Fifo
  <2>2. \A i \in 1..Len(acked') : acked'[i] = log'[i]
      BY <2>1, <1>1, <1>2, <1>4, LengthsAreNat DEF Fifo
  <2>3. ASSUME NEW i \in 1..Len(messages')
        PROVE  messages'[i] = log'[Len(acked') + i]
    <3>1. CASE i = Len(messages) + 1
        BY <2>1, <1>1, <1>2, <1>3, <1>4, <3>1, LengthsAreNat
    <3>2. CASE i \in 1..Len(messages)
      <4>1. Len(acked) + i \in 1..Len(log)
          BY <2>1, <1>1, <3>2, LengthsAreNat
      <4> QED
          BY <2>1, <1>2, <1>3, <1>4, <3>2, <4>1 DEF Fifo
    <3> QED
        BY <1>1, <1>3, <3>1, <3>2, LengthsAreNat
  <2> QED
      BY <2>1, <2>2, <2>3, <1>1, <1>2, <1>3, <1>4, <1>7, LengthsAreNat DEF Fifo
<1>9. (WaitingOnlyWhenFull /\ NoLostWakeup /\ CurrentIsHead)'
  <2>1. consumer' = Woken(consumer)
      BY DEF PublishStored
  <2> QED
      BY <2>1, <1>1, <1>2, <1>3, <1>7
      DEF QueueInv, CoreInv, WaitingOnlyWhenFull, NoLostWakeup, CurrentIsHead, Woken
<1>10. LogInjective'
    BY <1>1, <1>4, <1>6, LengthsAreNat, NewIsNotLogged DEF QueueInv, LogInjective
<1>11. OutcomeTruthful'
  <2>1. \A i \in 1..(Len(acked) + Len(messages)) : log[i] /= m
      BY <1>6, <1>8, NewIsNotLogged
  <2>2. \A x \in Messages :
          (\E i \in 1..(Len(acked') + Len(messages')) : log'[i] = x) <=>
          (x = m \/ \E i \in 1..(Len(acked) + Len(messages)) : log[i] = x)
      BY <1>1, <1>2, <1>3, <1>4, <1>8, LengthsAreNat
  <2>3. ~ \E i \in 1..Len(waitingPublishers') : waitingPublishers'[i] = m
      BY <1>2, <1>7
  <2> QED
      BY <1>2, <1>5, <2>1, <2>2, <2>3 DEF QueueInv, OutcomeTruthful
<1>12. (ClosingMeansClosed /\ ShutdownQuiesces)'
    BY <1>2, <1>6 DEF QueueInv, ClosingMeansClosed, ShutdownQuiesces
<1> QED
    BY <1>1, <1>8, <1>9, <1>10, <1>11, <1>12 DEF QueueInv, CoreInv

-----------------------------------------------------------------------------
(* The steps of the consumer that touch neither messages nor publishers.   *)

\* Nothing but the consumer and the shutdown() calls moves.
ConsumerOnly == UNCHANGED <<messages, waitingPublishers, acceptingWork, outcome, acked, log>>

\* Such a step leaves what the invariant says of messages and publishers.
LEMMA ConsumerOnlyPreserves ==
    ASSUME QueueInv, ConsumerOnly
    PROVE  (Fifo /\ WaitingOnlyWhenFull /\ LogInjective /\ OutcomeTruthful)'
BY DEF QueueInv, CoreInv, ConsumerOnly, Fifo, WaitingOnlyWhenFull, LogInjective,
       OutcomeTruthful

\* The head of a queue that is not empty is a message.
LEMMA HeadIsMessage ==
    ASSUME TypeOK, messages /= <<>> PROVE Head(messages) \in Messages
BY HeadTailProperties DEF TypeOK

\* nextMessage() parks only on an empty open queue and reads only the head.
LEMMA NextMessagePreserves ==
    ASSUME QueueInv, ConsumerOnly, NextMessage(messages),
           UNCHANGED closing, consumer \in {"idle", "woken"}, 
           consumer = "idle" => acceptingWork
    PROVE  QueueInv'
<1> USE DEF QueueInv, CoreInv
<1>1. CASE acceptingWork /\ messages = <<>>
    BY <1>1, ConsumerOnlyPreserves
    DEF ConsumerOnly, NextMessage, TypeOK, ConsumerState, NoLostWakeup, CurrentIsHead,
        ClosingMeansClosed, ShutdownQuiesces
<1>2. CASE ~(acceptingWork /\ messages = <<>>)
    BY <1>2, ConsumerOnlyPreserves, HeadIsMessage
    DEF ConsumerOnly, NextMessage, TypeOK, ConsumerState, NoLostWakeup, CurrentIsHead,
        ClosingMeansClosed, ShutdownQuiesces
<1> QED
    BY <1>1, <1>2

\* Starting, ending and clearing a consumer, and the return of shutdown().
LEMMA ConsumerStepPreserves ==
    ASSUME QueueInv,
           \/ StartHandler
           \/ ConsumerReturns
           \/ HandlerRejects
           \/ ConsumerCleared
           \/ \E c \in Closers : ShutdownReturns(c)
    PROVE  QueueInv'
<1> USE DEF QueueInv, CoreInv
<1>1. CASE StartHandler
    BY <1>1, ConsumerOnlyPreserves
    DEF StartHandler, ConsumerOnly, TypeOK, ConsumerState, NoLostWakeup, CurrentIsHead,
        ClosingMeansClosed, ShutdownQuiesces
<1>2. CASE ConsumerReturns
    BY <1>2, ConsumerOnlyPreserves
    DEF ConsumerReturns, ConsumerOnly, TypeOK, ConsumerState, NoLostWakeup, CurrentIsHead,
        ClosingMeansClosed, ShutdownQuiesces
<1>3. CASE HandlerRejects
    BY <1>3, ConsumerOnlyPreserves
    DEF HandlerRejects, ConsumerOnly, TypeOK, ConsumerState, NoLostWakeup, CurrentIsHead,
        ClosingMeansClosed, ShutdownQuiesces
<1>4. CASE ConsumerCleared
    BY <1>4, ConsumerOnlyPreserves
    DEF ConsumerCleared, ConsumerOnly, TypeOK, ConsumerState, NoLostWakeup, CurrentIsHead,
        ClosingMeansClosed, ShutdownQuiesces
<1>5. ASSUME NEW c \in Closers, ShutdownReturns(c) PROVE QueueInv'
    BY <1>5, ConsumerOnlyPreserves
    DEF ShutdownReturns, queueVars, ConsumerOnly, TypeOK, NoLostWakeup, CurrentIsHead,
        ClosingMeansClosed, ShutdownQuiesces
<1> QED
    BY <1>1, <1>2, <1>3, <1>4, <1>5

-----------------------------------------------------------------------------
(* The acknowledgement of the head and the admission of a parked publisher. *)

\* What the acknowledgement does to the sequences, position by position: the
\* head moves to acked and the first n parked publishers move behind the rest.
LEMMA AcknowledgeShifts ==
    ASSUME QueueInv, HandlerResolves
    PROVE  \E n \in {0, 1} :
             /\ n <= Len(waitingPublishers)
             /\ n = 0 => waitingPublishers = <<>>
             /\ n = 1 => acceptingWork /\ Len(messages) = Capacity
             /\ Len(messages) >= 1
             /\ messages' \in Seq(Messages)
             /\ Len(messages') = Len(messages) - 1 + n
             /\ \A i \in 1..(Len(messages) - 1) : messages'[i] = messages[i + 1]
             /\ n = 1 => messages'[Len(messages)] = waitingPublishers[1]
             /\ waitingPublishers' \in Seq(Messages)
             /\ Len(waitingPublishers') = Len(waitingPublishers) - n
             /\ \A i \in 1..Len(waitingPublishers') :
                  waitingPublishers'[i] = waitingPublishers[n + i]
             /\ acked' \in Seq(Messages)
             /\ Len(acked') = Len(acked) + 1
             /\ \A i \in 1..Len(acked) : acked'[i] = acked[i]
             /\ acked'[Len(acked) + 1] = messages[1]
             /\ outcome' = [m \in Messages |->
                  IF \E i \in 1..n : waitingPublishers[i] = m
                  THEN "accepted" ELSE outcome[m]]
<1> DEFINE n == Admitted(Capacity - Len(Tail(messages)), waitingPublishers)
           moved == SubSeq(waitingPublishers, 1, n)
<1>1. CoreInv /\ TypeOK /\ consumer = "handling"
    BY DEF QueueInv, CoreInv, HandlerResolves
<1>2. /\ n \in {0, 1}
      /\ n <= Len(waitingPublishers)
      /\ messages /= <<>>
      /\ n = 0 => waitingPublishers = <<>>
      /\ n = 1 => acceptingWork /\ Len(messages) = Capacity
    BY <1>1, OneAdmission
<1>3. /\ messages' = Tail(messages) \o moved
      /\ waitingPublishers' = SubSeq(waitingPublishers, n + 1, Len(waitingPublishers))
      /\ acked' = Append(acked, current)
      /\ outcome' = [m \in Messages |->
           IF \E i \in 1..n : waitingPublishers[i] = m THEN "accepted" ELSE outcome[m]]
    BY DEF HandlerResolves
<1> HIDE DEF n
<1>4. /\ Tail(messages) \in Seq(Messages)
      /\ Len(Tail(messages)) = Len(messages) - 1
      /\ \A i \in 1..(Len(messages) - 1) : Tail(messages)[i] = messages[i + 1]
      /\ Len(messages) >= 1
    BY <1>1, <1>2, HeadTailProperties, LengthsAreNat DEF TypeOK
<1>5. /\ moved \in Seq(Messages)
      /\ Len(moved) = n
      /\ n = 1 => moved[1] = waitingPublishers[1]
    BY <1>1, <1>2 DEF TypeOK
<1> HIDE DEF moved
<1>6. /\ messages' \in Seq(Messages)
      /\ Len(messages') = Len(messages) - 1 + n
      /\ \A i \in 1..(Len(messages) - 1) : messages'[i] = messages[i + 1]
      /\ n = 1 => messages'[Len(messages)] = waitingPublishers[1]
  <2>1. /\ messages' \in Seq(Messages)
        /\ Len(messages') = Len(Tail(messages)) + n
        /\ \A i \in 1..(Len(Tail(messages)) + n) : messages'[i] =
             IF i <= Len(Tail(messages)) THEN Tail(messages)[i]
             ELSE moved[i - Len(Tail(messages))]
      BY <1>3, <1>4, <1>5, ConcatProperties
  <2>2. Len(messages) \in Nat /\ n \in Nat
      BY <1>1, <1>2, LengthsAreNat
  <2>3. ASSUME NEW i \in 1..(Len(messages) - 1) PROVE messages'[i] = messages[i + 1]
    <3>1. i \in 1..(Len(Tail(messages)) + n) /\ i <= Len(Tail(messages))
        BY <1>4, <2>2
    <3> QED
        BY <1>4, <2>1, <3>1
  <2>4. ASSUME n = 1 PROVE messages'[Len(messages)] = waitingPublishers[1]
    <3>1. /\ Len(messages) \in 1..(Len(Tail(messages)) + n)
          /\ ~(Len(messages) <= Len(Tail(messages)))
          /\ Len(messages) - Len(Tail(messages)) = 1
        BY <1>4, <2>2, <2>4
    <3> QED
        BY <1>5, <2>1, <2>4, <3>1
  <2> QED
      BY <1>4, <2>1, <2>3, <2>4
<1>7. /\ waitingPublishers' \in Seq(Messages)
      /\ Len(waitingPublishers') = Len(waitingPublishers) - n
      /\ \A i \in 1..Len(waitingPublishers') :
           waitingPublishers'[i] = waitingPublishers[n + i]
  <2>1. \A i \in (n + 1)..Len(waitingPublishers) : waitingPublishers[i] \in Messages
      BY <1>1, <1>2, LengthsAreNat, ElementOfSeq DEF TypeOK
  <2> QED
      BY <1>1, <1>2, <1>3, <2>1, SubSeqProperties, LengthsAreNat
<1>8. current = messages[1] /\ current \in Messages
    BY <1>1, <1>2, HeadIsMessage DEF CoreInv, CurrentIsHead, TypeOK
<1>9. /\ acked' \in Seq(Messages)
      /\ Len(acked') = Len(acked) + 1
      /\ \A i \in 1..Len(acked) : acked'[i] = acked[i]
      /\ acked'[Len(acked) + 1] = messages[1]
    BY <1>1, <1>3, <1>8, AppendProperties DEF TypeOK
<1> QED
    BY <1>2, <1>3, <1>4, <1>6, <1>7, <1>9

\* The acknowledgement keeps every message and every parked publisher at its
\* place in the log.
LEMMA HandlerResolvesPreserves ==
    ASSUME QueueInv, HandlerResolves PROVE QueueInv'
<1>1. PICK n \in {0, 1} :
        /\ n <= Len(waitingPublishers)
        /\ n = 0 => waitingPublishers = <<>>
        /\ n = 1 => acceptingWork /\ Len(messages) = Capacity
        /\ Len(messages) >= 1
        /\ messages' \in Seq(Messages)
        /\ Len(messages') = Len(messages) - 1 + n
        /\ \A i \in 1..(Len(messages) - 1) : messages'[i] = messages[i + 1]
        /\ n = 1 => messages'[Len(messages)] = waitingPublishers[1]
        /\ waitingPublishers' \in Seq(Messages)
        /\ Len(waitingPublishers') = Len(waitingPublishers) - n
        /\ \A i \in 1..Len(waitingPublishers') :
             waitingPublishers'[i] = waitingPublishers[n + i]
        /\ acked' \in Seq(Messages)
        /\ Len(acked') = Len(acked) + 1
        /\ \A i \in 1..Len(acked) : acked'[i] = acked[i]
        /\ acked'[Len(acked) + 1] = messages[1]
        /\ outcome' = [m \in Messages |->
             IF \E i \in 1..n : waitingPublishers[i] = m
             THEN "accepted" ELSE outcome[m]]
    BY AcknowledgeShifts
<1>2. TypeOK /\ Fifo /\ WaitingOnlyWhenFull /\ LogInjective /\ OutcomeTruthful
    BY DEF QueueInv, CoreInv
<1>3. UNCHANGED <<acceptingWork, closing, log>> /\ consumer = "handling"
    BY DEF HandlerResolves
<1>4. \/ acceptingWork /\ messages' = <<>> /\ consumer' = "parked" /\ current' = NoMessage
      \/ acceptingWork /\ messages' /= <<>> /\ consumer' = "polled" /\ current' = Head(messages')
      \/ ~acceptingWork /\ consumer' = "finished" /\ current' = NoMessage
    BY DEF HandlerResolves, NextMessage
<1>5. TypeOK'
  <2>1. current' \in Messages \cup {NoMessage}
      BY <1>1, <1>4, HeadTailProperties
  <2>2. outcome' \in [Messages -> PublishOutcome]
      BY <1>1, <1>2 DEF TypeOK, PublishOutcome
  <2>3. Len(messages') <= Capacity
      BY <1>1, <1>2, LengthsAreNat, CapacityAssumption DEF TypeOK
  <2>4. consumer' \in ConsumerState
      BY <1>4 DEF ConsumerState
  <2> QED
      BY <1>1, <1>2, <1>3, <2>1, <2>2, <2>3, <2>4 DEF TypeOK
<1>6. /\ n \in Nat /\ Len(messages) \in Nat /\ Len(waitingPublishers) \in Nat
      /\ Len(acked) \in Nat /\ Len(log) \in Nat
      /\ n <= Len(waitingPublishers)
      /\ Len(messages') = Len(messages) - 1 + n
      /\ Len(waitingPublishers') = Len(waitingPublishers) - n
      /\ Len(acked') = Len(acked) + 1
      /\ Len(log) = Len(acked) + Len(messages) + Len(waitingPublishers)
      /\ Len(log') = Len(log)
  <2>1. Len(log) = Len(acked) + Len(messages) + Len(waitingPublishers)
      BY <1>2 DEF Fifo
  <2> QED
      BY <1>1, <1>2, <1>3, <2>1, LengthsAreNat
<1>7. Fifo'
  <2>1. Len(log') = Len(acked') + Len(messages') + Len(waitingPublishers')
      BY <1>6
  <2>2. ASSUME NEW i \in 1..Len(acked') PROVE acked'[i] = log'[i]
    <3>1. CASE i = Len(acked) + 1
        BY <1>1, <1>2, <1>3, <3>1, LengthsAreNat DEF Fifo
    <3>2. CASE i \in 1..Len(acked)
        BY <1>1, <1>2, <1>3, <3>2 DEF Fifo
    <3> QED
        BY <1>1, <1>2, <3>1, <3>2, LengthsAreNat
  <2>3. ASSUME NEW i \in 1..Len(messages') PROVE messages'[i] = log'[Len(acked') + i]
    <3>1. CASE i \in 1..(Len(messages) - 1)
      <4>1. i + 1 \in 1..Len(messages) /\ Len(acked) + (i + 1) = Len(acked') + i
          BY <1>1, <1>2, <3>1, LengthsAreNat
      <4>2. messages[i + 1] = log[Len(acked) + (i + 1)]
          BY <1>2, <4>1 DEF Fifo
      <4> QED
          BY <1>1, <1>3, <3>1, <4>1, <4>2
    <3>2. CASE n = 1 /\ i = Len(messages)
      <4>1. Len(acked') + i = Len(acked) + Len(messages) + 1
          BY <1>1, <1>2, <3>2, LengthsAreNat
      <4>2. waitingPublishers[1] = log[Len(acked) + Len(messages) + 1]
          BY <1>1, <1>2, <3>2, LengthsAreNat DEF Fifo
      <4> QED
          BY <1>1, <1>3, <3>2, <4>1, <4>2
    <3> QED
        BY <1>1, <1>2, <3>1, <3>2, LengthsAreNat
  <2>4. ASSUME NEW i \in 1..Len(waitingPublishers')
        PROVE  waitingPublishers'[i] = log'[Len(acked') + Len(messages') + i]
    <3>1. /\ n + i \in 1..Len(waitingPublishers)
         /\ Len(acked) + Len(messages) + (n + i) = Len(acked') + Len(messages') + i
        BY <1>6
    <3>2. waitingPublishers[n + i] = log[Len(acked) + Len(messages) + (n + i)]
        BY <1>2, <3>1 DEF Fifo
    <3> QED
        BY <1>1, <1>3, <3>1, <3>2
  <2> QED
      BY <2>1, <2>2, <2>3, <2>4 DEF Fifo
<1>8. (WaitingOnlyWhenFull /\ NoLostWakeup /\ CurrentIsHead)'
  <2>1. WaitingOnlyWhenFull'
      BY <1>1, <1>2, <1>3, LengthsAreNat DEF WaitingOnlyWhenFull
  <2> QED
      BY <2>1, <1>3, <1>4 DEF NoLostWakeup, CurrentIsHead
<1>9. OutcomeTruthful'
  <2> SUFFICES ASSUME NEW x \in Messages
               PROVE  /\ outcome'[x] = "waiting" <=>
                           \E i \in 1..Len(waitingPublishers') : waitingPublishers'[i] = x
                      /\ outcome'[x] = "accepted" <=>
                           \E i \in 1..(Len(acked') + Len(messages')) : log'[i] = x
      BY DEF OutcomeTruthful
  <2>1. CASE n = 0
    <3>1. Len(waitingPublishers') = 0 /\ Len(waitingPublishers) = 0
        BY <1>1, <1>2, <2>1
    <3>2. Len(acked') + Len(messages') = Len(acked) + Len(messages)
        BY <1>1, <1>2, <2>1, LengthsAreNat
    <3>3. outcome'[x] = outcome[x]
        BY <1>1, <2>1
    <3> QED
        BY <1>2, <1>3, <3>1, <3>2, <3>3 DEF OutcomeTruthful
  <2>2. CASE n = 1
    <3> DEFINE k == Len(acked) + Len(messages) + 1
    <3>1. /\ k \in 1..Len(log)
          /\ log[k] = waitingPublishers[1]
         /\ Len(acked') + Len(messages') = k
        BY <1>1, <1>2, <2>2, LengthsAreNat DEF Fifo
    <3>2. CASE x = waitingPublishers[1]
      <4>1. outcome'[x] = "accepted"
          BY <1>1, <2>2, <3>2
      <4>2. \A i \in 1..Len(waitingPublishers') : waitingPublishers'[i] /= x
        <5> SUFFICES ASSUME NEW i \in 1..Len(waitingPublishers'), waitingPublishers'[i] = x
                     PROVE  FALSE
            OBVIOUS
        <5>1. /\ i + 1 \in 1..Len(waitingPublishers)
              /\ waitingPublishers[i + 1] = x
             /\ Len(acked) + Len(messages) + (i + 1) \in 1..Len(log)
             /\ Len(acked) + Len(messages) + (i + 1) /= k
            BY <1>1, <1>2, <2>2, LengthsAreNat DEF Fifo
        <5>2. log[Len(acked) + Len(messages) + (i + 1)] = x
            BY <1>2, <5>1 DEF Fifo
        <5> QED
            BY <1>2, <3>1, <3>2, <5>1, <5>2 DEF LogInjective
      <4> QED
          BY <1>3, <3>1, <3>2, <4>1, <4>2
    <3>3. CASE x /= waitingPublishers[1]
      <4>1. outcome'[x] = outcome[x]
          BY <1>1, <2>2, <3>3
      <4>2. (\E i \in 1..Len(waitingPublishers) : waitingPublishers[i] = x) <=>
            (\E i \in 1..Len(waitingPublishers') : waitingPublishers'[i] = x)
        <5>1. ASSUME NEW i \in 1..Len(waitingPublishers), waitingPublishers[i] = x
              PROVE  \E j \in 1..Len(waitingPublishers') : waitingPublishers'[j] = x
          <6>1. i /= 1
              BY <3>3, <5>1
          <6>2. i - 1 \in 1..Len(waitingPublishers') /\ n + (i - 1) = i
              BY <1>1, <1>2, <2>2, <6>1, LengthsAreNat
          <6>3. waitingPublishers'[i - 1] = waitingPublishers[n + (i - 1)]
              BY <1>1, <6>2
          <6> QED
              BY <5>1, <6>2, <6>3
        <5>2. ASSUME NEW i \in 1..Len(waitingPublishers'), waitingPublishers'[i] = x
              PROVE  \E j \in 1..Len(waitingPublishers) : waitingPublishers[j] = x
          <6>1. n + i \in 1..Len(waitingPublishers)
              BY <1>1, <1>2, LengthsAreNat
          <6> QED
              BY <1>1, <5>2, <6>1
        <5> QED
            BY <5>1, <5>2
      <4>3. (\E i \in 1..(Len(acked) + Len(messages)) : log[i] = x) <=>
            (\E i \in 1..(Len(acked') + Len(messages')) : log'[i] = x)
          BY <1>2, <1>3, <3>1, <3>3, LengthsAreNat
      <4> QED
          BY <1>2, <4>1, <4>2, <4>3 DEF OutcomeTruthful
    <3> QED
        BY <3>2, <3>3
  <2> QED
      BY <2>1, <2>2
<1>10. (LogInjective /\ ClosingMeansClosed /\ ShutdownQuiesces)'
  <2>1. \A c \in Closers : closing[c] /= "done"
      BY <1>3 DEF QueueInv, ShutdownQuiesces
  <2> QED
      BY <1>2, <1>3, <2>1 DEF QueueInv, LogInjective, ClosingMeansClosed, ShutdownQuiesces
<1> QED
    BY <1>5, <1>7, <1>8, <1>9, <1>10 DEF QueueInv, CoreInv

-----------------------------------------------------------------------------
(* shutdown()                                                              *)

\* Shutdown cuts the log after the stored messages: exactly the parked
\* publishers are turned away.
LEMMA ShutdownPreserves ==
    ASSUME QueueInv, NEW c \in Closers, Shutdown(c) PROVE QueueInv'
<1>1. TypeOK /\ Fifo /\ LogInjective /\ OutcomeTruthful /\ NoLostWakeup /\ CurrentIsHead
    BY DEF QueueInv, CoreInv
<1>2. /\ UNCHANGED <<messages, current, acked>>
      /\ acceptingWork' = FALSE
      /\ consumer' = Woken(consumer)
      /\ waitingPublishers' = <<>>
      /\ outcome' = [m \in Messages |->
           IF outcome[m] = "waiting" THEN "QUEUE_SHUTDOWN" ELSE outcome[m]]
    BY DEF Shutdown
<1> DEFINE kept == Len(acked) + Len(messages)
<1>3. kept \in Nat /\ kept <= Len(log)
    BY <1>1, LengthsAreNat DEF Fifo
<1>4. /\ log' \in Seq(Messages)
      /\ Len(log') = kept
      /\ \A i \in 1..kept : log'[i] = log[i]
  <2>1. log' = SubSeq(log, 1, kept)
      BY DEF Shutdown
  <2>2. \A i \in 1..kept : log[i] \in Messages
      BY <1>1, <1>3, LengthsAreNat, ElementOfSeq DEF TypeOK
  <2> HIDE DEF kept
  <2> QED
      BY <1>3, <2>1, <2>2, SubSeqProperties
<1>5. TypeOK'
  <2>1. closing' \in [Closers -> {"new", "awaiting", "done"}]
      BY <1>1 DEF Shutdown, TypeOK
  <2>2. outcome' \in [Messages -> PublishOutcome]
      BY <1>1, <1>2 DEF TypeOK, PublishOutcome
  <2>3. consumer' \in ConsumerState
      BY <1>1, <1>2 DEF TypeOK, ConsumerState, Woken
  <2>4. messages' \in Seq(Messages) /\ Len(messages') <= Capacity /\ acked' \in Seq(Messages)
      BY <1>1, <1>2 DEF TypeOK
  <2>5. current' \in Messages \cup {NoMessage}
      BY <1>1, <1>2 DEF TypeOK
  <2>6. waitingPublishers' \in Seq(Messages)
      BY <1>2
  <2>7. acceptingWork' \in BOOLEAN
      BY <1>2
  <2> QED
      BY <1>4, <2>1, <2>2, <2>3, <2>4, <2>5, <2>6, <2>7 DEF TypeOK
<1>6. Fifo'
  <2>1. Len(waitingPublishers') = 0
      BY <1>2
  <2>2. \A i \in 1..Len(acked') : acked'[i] = log'[i]
      BY <1>1, <1>2, <1>4, LengthsAreNat DEF Fifo
  <2>3. ASSUME NEW i \in 1..Len(messages') PROVE messages'[i] = log'[Len(acked') + i]
    <3>1. Len(acked) + i \in 1..kept
        BY <1>1, <1>2, LengthsAreNat
    <3> QED
        BY <1>1, <1>2, <1>4, <3>1 DEF Fifo
  <2> QED
      BY <1>1, <1>2, <1>3, <1>4, <2>1, <2>2, <2>3 DEF Fifo
<1>7. (WaitingOnlyWhenFull /\ NoLostWakeup /\ CurrentIsHead)'
    BY <1>1, <1>2 DEF WaitingOnlyWhenFull, NoLostWakeup, CurrentIsHead, Woken
<1>8. LogInjective'
    BY <1>1, <1>3, <1>4, LengthsAreNat DEF LogInjective
<1>9. OutcomeTruthful'
  <2>1. Len(waitingPublishers') = 0 /\ Len(acked') + Len(messages') = kept
      BY <1>2
  <2>2. \A x \in Messages : (\E i \in 1..kept : log'[i] = x) <=> (\E i \in 1..kept : log[i] = x)
      BY <1>4
  <2> QED
      BY <1>1, <1>2, <2>1, <2>2 DEF OutcomeTruthful
<1>10. (ClosingMeansClosed /\ ShutdownQuiesces)'
  <2>1. closing' = [closing EXCEPT ![c] = IF consumer = "idle" THEN "done" ELSE "awaiting"]
      BY DEF Shutdown
  <2> QED
      BY <1>1, <1>2, <2>1
      DEF QueueInv, TypeOK, ClosingMeansClosed, ShutdownQuiesces, Woken
<1> QED
    BY <1>5, <1>6, <1>7, <1>8, <1>9, <1>10 DEF QueueInv, CoreInv

-----------------------------------------------------------------------------
(* The invariant and what follows from it.                                 *)

\* Every segment of the code preserves the invariant.
LEMMA NextPreserves == QueueInv /\ [Next]_vars => QueueInv'
<1> SUFFICES ASSUME QueueInv, [Next]_vars PROVE QueueInv'
    OBVIOUS
<1>1. ASSUME NEW m \in Messages, Publish(m) PROVE QueueInv'
    BY <1>1, PublishRefusedPreserves, PublishWaitsPreserves, PublishStoredPreserves
    DEF Publish
<1>2. CASE Consume
    BY <1>2, NextMessagePreserves DEF Consume, ConsumerOnly
<1>3. CASE ResumeFromWake
    BY <1>3, NextMessagePreserves DEF ResumeFromWake, ConsumerOnly
<1>4. CASE HandlerSettles
    BY <1>4, HandlerResolvesPreserves, ConsumerStepPreserves DEF HandlerSettles
<1>5. ASSUME NEW c \in Closers, Shutdown(c) PROVE QueueInv'
    BY <1>5, ShutdownPreserves
<1>6. CASE Microtask
    BY <1>3, <1>6, ConsumerStepPreserves DEF Microtask
<1>7. CASE UNCHANGED vars
    BY <1>7
    DEF vars, QueueInv, CoreInv, TypeOK, WaitingOnlyWhenFull, Fifo, NoLostWakeup,
        CurrentIsHead, LogInjective, OutcomeTruthful, ClosingMeansClosed, ShutdownQuiesces
<1> QED
    BY <1>1, <1>2, <1>4, <1>5, <1>6, <1>7 DEF Next

\* The invariant holds in every reachable state.
THEOREM QueueInvariant == Spec => []QueueInv
BY InitEstablishes, NextPreserves, PTL DEF Spec

\* The queue never holds more than its capacity and its state is well typed,
\* for any capacity and number of callers.
THEOREM TypeCorrect == Spec => []TypeOK
<1>1. QueueInv => TypeOK
    BY DEF QueueInv, CoreInv
<1> QED
    BY <1>1, QueueInvariant, PTL

\* First in, first out, without loss or duplication, across failures,
\* admissions of parked publishers and shutdown.
THEOREM FifoHolds == Spec => [](Fifo /\ WaitingOnlyWhenFull)
<1>1. QueueInv => Fifo /\ WaitingOnlyWhenFull
    BY DEF QueueInv, CoreInv
<1> QED
    BY <1>1, QueueInvariant, PTL

\* No parked consumer has anything to do.
THEOREM WakeupsAreNotLost == Spec => []NoLostWakeup
<1>1. QueueInv => NoLostWakeup
    BY DEF QueueInv, CoreInv
<1> QED
    BY <1>1, QueueInvariant, PTL

\* Every publish() promise tells its caller the truth.
THEOREM OutcomesAreTruthful == Spec => []OutcomeTruthful
<1>1. QueueInv => OutcomeTruthful
    BY DEF QueueInv
<1> QED
    BY <1>1, QueueInvariant, PTL

\* After shutdown() returned nothing of the queue is at work.
THEOREM ShutdownIsQuiet == Spec => []ShutdownQuiesces
<1>1. QueueInv => ShutdownQuiesces
    BY DEF QueueInv
<1> QED
    BY <1>1, QueueInvariant, PTL

-----------------------------------------------------------------------------
(* Refinement of FifoDelivery.                                             *)

\* The initial state maps to the abstract initial state.
LEMMA DeliveryInit == Init => Delivery!Init
BY DEF Init, Delivery!Init

\* Every step maps to an abstract step or to none.
LEMMA DeliveryStep ==
    QueueInv /\ QueueInv' /\ [Next]_vars => [Delivery!Next]_(Delivery!vars)
<1> SUFFICES ASSUME QueueInv, QueueInv', [Next]_vars
             PROVE  [Delivery!Next]_(Delivery!vars)
    OBVIOUS
<1>0. TypeOK /\ CoreInv /\ Fifo
    BY DEF QueueInv, CoreInv
<1>1. ASSUME NEW m \in Messages, Publish(m) PROVE [Delivery!Next]_(Delivery!vars)
  <2>1. CASE PublishRefused(m)
      BY <2>1 DEF PublishRefused, queueVars, Delivery!vars
  <2>2. CASE PublishWaits(m)
    <3>1. overflowStrategy /= "reject"
        BY <2>2 DEF PublishWaits
    <3>2. Delivery!Offer(m)
        BY <2>2, <3>1 DEF PublishWaits, Delivery!Offer
    <3> QED
        BY <3>2 DEF Delivery!Next
  <2>3. CASE PublishStored(m)
    <3>1. waitingPublishers = <<>> /\ Len(messages) < Capacity
        BY <1>0, <2>3, CapacityAssumption DEF PublishStored, CoreInv, TypeOK, WaitingOnlyWhenFull
    <3>2. Len(log) - Len(acked) < Capacity
        BY <1>0, <3>1, LengthsAreNat DEF Fifo
    <3>3. (consumer' = "handling") = (consumer = "handling")
        BY <2>3 DEF PublishStored, Woken
    <3>4. Delivery!Offer(m)
        BY <2>3, <3>2, <3>3 DEF PublishStored, Delivery!Offer
    <3> QED
        BY <3>4 DEF Delivery!Next
  <2> QED
      BY <1>1, <2>1, <2>2, <2>3 DEF Publish
<1>2. CASE Consume \/ ResumeFromWake \/ ConsumerReturns \/ ConsumerCleared
    BY <1>2
    DEF Consume, ResumeFromWake, ConsumerReturns, ConsumerCleared, NextMessage,
        Delivery!vars
<1>3. CASE StartHandler
  <2>1. Len(acked) < Len(log)
    <3>1. Len(messages) >= 1
        BY <1>0, <1>3, LengthsAreNat DEF StartHandler, CoreInv, CurrentIsHead, TypeOK
    <3> QED
        BY <1>0, <3>1, LengthsAreNat DEF Fifo
  <2>2. Delivery!Start
      BY <1>3, <2>1 DEF StartHandler, Delivery!Start
  <2> QED
      BY <2>2 DEF Delivery!Next
<1>4. CASE HandlerResolves
  <2>1. Len(acked') = Len(acked) + 1
      BY <1>4, AcknowledgeShifts
  <2>2. consumer' /= "handling"
      BY <1>4 DEF HandlerResolves, NextMessage
  <2>3. consumer = "handling" /\ UNCHANGED <<log, acceptingWork>>
      BY <1>4 DEF HandlerResolves
  <2>4. Delivery!Acknowledge
      BY <2>1, <2>2, <2>3 DEF Delivery!Acknowledge
  <2> QED
      BY <2>4 DEF Delivery!Next
<1>5. CASE HandlerRejects
  <2>1. Delivery!Fail
      BY <1>5 DEF HandlerRejects, Delivery!Fail
  <2> QED
      BY <2>1 DEF Delivery!Next
<1>6. ASSUME NEW c \in Closers, Shutdown(c) PROVE [Delivery!Next]_(Delivery!vars)
  <2>1. (consumer' = "handling") = (consumer = "handling")
      BY <1>6 DEF Shutdown, Woken
  <2>2. log' = IF Len(log) - Len(acked) > Capacity
               THEN SubSeq(log, 1, Len(acked) + Capacity) ELSE log
    <3>1. log' = SubSeq(log, 1, Len(acked) + Len(messages))
        BY <1>6 DEF Shutdown
    <3>2. CASE waitingPublishers = <<>>
      <4>1. Len(log) = Len(acked) + Len(messages) /\ ~(Len(log) - Len(acked) > Capacity)
          BY <1>0, <3>2, LengthsAreNat, CapacityAssumption DEF Fifo, TypeOK
      <4>2. SubSeq(log, 1, Len(log)) = log
          BY <1>0, SubSeqFull DEF TypeOK
      <4> QED
          BY <3>1, <4>1, <4>2
    <3>3. CASE waitingPublishers /= <<>>
      <4>1. Len(messages) = Capacity /\ Len(waitingPublishers) > 0
          BY <1>0, <3>3, LengthsAreNat DEF CoreInv, WaitingOnlyWhenFull, TypeOK
      <4>2. Len(log) - Len(acked) > Capacity
          BY <1>0, <4>1, LengthsAreNat, CapacityAssumption DEF Fifo
      <4> QED
          BY <3>1, <4>1, <4>2
    <3> QED
        BY <3>2, <3>3
  <2>3. acceptingWork' = FALSE /\ UNCHANGED acked
      BY <1>6 DEF Shutdown
  <2>4. CASE acceptingWork
    <3>1. Delivery!Close
        BY <2>1, <2>2, <2>3, <2>4 DEF Delivery!Close
    <3> QED
        BY <3>1 DEF Delivery!Next
  <2>5. CASE ~acceptingWork
    <3>1. waitingPublishers = <<>>
        BY <1>0, <2>5 DEF CoreInv, WaitingOnlyWhenFull
    <3>2. ~(Len(log) - Len(acked) > Capacity)
        BY <1>0, <3>1, LengthsAreNat, CapacityAssumption DEF Fifo, TypeOK
    <3>3. log' = log
        BY <2>2, <3>2
    <3>4. acceptingWork' = acceptingWork
        BY <1>0, <2>3, <2>5 DEF TypeOK
    <3> QED
        BY <2>1, <2>3, <3>3, <3>4 DEF Delivery!vars
  <2> QED
      BY <2>4, <2>5
<1>7. ASSUME NEW c \in Closers, ShutdownReturns(c) PROVE [Delivery!Next]_(Delivery!vars)
    BY <1>7 DEF ShutdownReturns, queueVars, Delivery!vars
<1>8. CASE UNCHANGED vars
    BY <1>8 DEF vars, Delivery!vars
<1> QED
    BY <1>1, <1>2, <1>3, <1>4, <1>5, <1>6, <1>7, <1>8 DEF Next, HandlerSettles, Microtask

\* The queue implements its abstract specification.
THEOREM QueueImplementsDelivery == Spec => ImplementsDelivery
<1>1. Init => Delivery!Init
    BY DeliveryInit
<1>2. QueueInv /\ QueueInv' /\ [Next]_vars => [Delivery!Next]_(Delivery!vars)
    BY DeliveryStep
<1> QED
    BY <1>1, <1>2, QueueInvariant, PTL DEF Spec, ImplementsDelivery, Delivery!Spec
=============================================================================
