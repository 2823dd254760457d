--------------------------- MODULE InMemoryQueue ---------------------------
(***************************************************************************)
(* The in-memory queue of packages/queue/src/index.js                      *)
(* (createInMemoryQueue): a bounded FIFO with one active consumer,         *)
(* publishers that are refused or parked when the queue is full, and a     *)
(* shutdown that waits for the handler in flight.                          *)
(*                                                                         *)
(* JavaScript runs one synchronous segment at a time, so an action is one  *)
(* segment between two awaits; everything another caller may do at an      *)
(* await is an interleaving of actions.                                    *)
(***************************************************************************)
EXTENDS Naturals, Sequences

CONSTANTS
    Messages,          \* one element per publish() call
    Malformed,         \* the calls whose argument is not an object
    Capacity,          \* the capacity option; unbounded = no smaller than Messages
    overflowStrategy,  \* the option of the same name
    Closers,           \* one element per shutdown() call
    NoMessage          \* the value of `message` while the consumer holds none

ASSUME CapacityAssumption == Capacity \in Nat \ {0}
ASSUME StrategyAssumption == overflowStrategy \in {"reject", "wait"}
ASSUME MalformedAssumption == Malformed \subseteq Messages
ASSUME NoMessageAssumption == NoMessage \notin Messages

VARIABLES
    messages,          \* stored messages; the head stays until it is acknowledged
    waitingPublishers, \* publish() calls parked by the "wait" strategy
    acceptingWork,
    consumer,          \* where the active consume() call is, "idle" if there is none
    current,           \* the local `message` of runConsumer
    outcome,           \* what each publish() call has answered so far
    closing,           \* where each shutdown() call is
    acked,             \* history: the messages handled with success, in order
    log                \* history: the calls taken in, in order, without the ones
                       \* that shutdown turned away

queueVars == <<messages, waitingPublishers, acceptingWork, consumer, current>>
vars == <<messages, waitingPublishers, acceptingWork, consumer, current,
          outcome, closing, acked, log>>

PublishOutcome == {"new", "waiting", "accepted", "QUEUE_SHUTDOWN",
                   "INVALID_QUEUE_MESSAGE", "QUEUE_CAPACITY_EXCEEDED"}

\* activeConsumer is null exactly in "idle"; wakeConsumer is null except in "parked".
ConsumerState == {"idle", "parked", "woken", "polled", "handling", "finished"}

Init ==
    /\ messages = <<>>
    /\ waitingPublishers = <<>>
    /\ acceptingWork = TRUE
    /\ consumer = "idle"
    /\ current = NoMessage
    /\ outcome = [m \in Messages |-> "new"]
    /\ closing = [c \in Closers |-> "new"]
    /\ acked = <<>>
    /\ log = <<>>

-----------------------------------------------------------------------------
(* The helpers of the closure.                                             *)

\* wake(): settles the promise a parked consumer awaits.
Woken(c) == IF c = "parked" THEN "woken" ELSE c

\* With a bug: an acknowledgement frees a slot and admits nobody.
AdmittedNobody(room, waiting) == 0

\* How many publishers the loop of admitWaitingPublishers moves into a queue
\* that has room for `room` messages.
Admitted(room, waiting) ==
    IF ~acceptingWork THEN 0
    ELSE IF room < Len(waiting) THEN room ELSE Len(waiting)

\* nextMessage() up to its first await, called with `stored` in the queue: the
\* consumer parks on an empty queue, else the call returns the head, or
\* undefined when the queue no longer accepts work.
NextMessage(stored) ==
    IF acceptingWork /\ stored = <<>>
    THEN consumer' = "parked" /\ current' = NoMessage
    ELSE /\ consumer' = "polled"
         /\ current' = IF acceptingWork THEN Head(stored) ELSE NoMessage

-----------------------------------------------------------------------------
(* publish(message)                                                        *)

\* The early errors, in the order of the code.
PublishRefused(m) ==
    /\ outcome[m] = "new"
    /\ \/ /\ ~acceptingWork
          /\ outcome' = [outcome EXCEPT ![m] = "QUEUE_SHUTDOWN"]
       \/ /\ acceptingWork
          /\ m \in Malformed
          /\ outcome' = [outcome EXCEPT ![m] = "INVALID_QUEUE_MESSAGE"]
       \/ /\ acceptingWork
          /\ m \notin Malformed
          /\ Len(messages) >= Capacity
          /\ overflowStrategy = "reject"
          /\ outcome' = [outcome EXCEPT ![m] = "QUEUE_CAPACITY_EXCEEDED"]
    /\ UNCHANGED <<queueVars, closing, acked, log>>

\* A full queue parks the publisher under the "wait" strategy.
PublishWaits(m) ==
    /\ outcome[m] = "new"
    /\ acceptingWork
    /\ m \notin Malformed
    /\ Len(messages) >= Capacity
    /\ overflowStrategy = "wait"
    /\ waitingPublishers' = Append(waitingPublishers, m)
    /\ outcome' = [outcome EXCEPT ![m] = "waiting"]
    /\ log' = Append(log, m)
    /\ UNCHANGED <<messages, acceptingWork, consumer, current, closing, acked>>

\* With a bug: `>` for `>=` in the capacity test.
PublishStoredOffByOne(m) ==
    /\ outcome[m] = "new"
    /\ acceptingWork
    /\ m \notin Malformed
    /\ Len(messages) <= Capacity
    /\ messages' = Append(messages, m)
    /\ consumer' = Woken(consumer)
    /\ outcome' = [outcome EXCEPT ![m] = "accepted"]
    /\ log' = Append(log, m)
    /\ UNCHANGED <<waitingPublishers, acceptingWork, current, closing, acked>>

\* With a bug: the message is stored and the consumer not woken.
PublishStoredSilently(m) ==
    /\ outcome[m] = "new"
    /\ acceptingWork
    /\ m \notin Malformed
    /\ Len(messages) < Capacity
    /\ messages' = Append(messages, m)
    /\ outcome' = [outcome EXCEPT ![m] = "accepted"]
    /\ log' = Append(log, m)
    /\ UNCHANGED <<waitingPublishers, acceptingWork, consumer, current, closing, acked>>

PublishStored(m) ==
    /\ outcome[m] = "new"
    /\ acceptingWork
    /\ m \notin Malformed
    /\ Len(messages) < Capacity
    /\ messages' = Append(messages, m)
    /\ consumer' = Woken(consumer)
    /\ outcome' = [outcome EXCEPT ![m] = "accepted"]
    /\ log' = Append(log, m)
    /\ UNCHANGED <<waitingPublishers, acceptingWork, current, closing, acked>>

-----------------------------------------------------------------------------
(* consume(handler) and runConsumer                                        *)

\* consume() runs to the first await of nextMessage(); a second consumer and a
\* closed queue are refused and change nothing.
Consume ==
    /\ acceptingWork
    /\ consumer = "idle"
    /\ NextMessage(messages)
    /\ UNCHANGED <<messages, waitingPublishers, acceptingWork, outcome, closing,
                   acked, log>>

\* nextMessage() resumes after wake() and tests its loop condition again.
ResumeFromWake ==
    /\ consumer = "woken"
    /\ NextMessage(messages)
    /\ UNCHANGED <<messages, waitingPublishers, acceptingWork, outcome, closing,
                   acked, log>>

\* With a bug: runConsumer trusts the test nextMessage() made before the await.
StartHandlerUnchecked ==
    /\ consumer = "polled"
    /\ current /= NoMessage
    /\ consumer' = "handling"
    /\ UNCHANGED <<messages, waitingPublishers, acceptingWork, current, outcome,
                   closing, acked, log>>

\* runConsumer resumes with the result of nextMessage(): acceptingWork may have
\* changed since the message was read.
StartHandler ==
    /\ consumer = "polled"
    /\ acceptingWork
    /\ current /= NoMessage
    /\ consumer' = "handling"
    /\ UNCHANGED <<messages, waitingPublishers, acceptingWork, current, outcome,
                   closing, acked, log>>

ConsumerReturns ==
    /\ consumer = "polled"
    /\ ~acceptingWork \/ current = NoMessage
    /\ consumer' = "finished"
    /\ current' = NoMessage
    /\ UNCHANGED <<messages, waitingPublishers, acceptingWork, outcome, closing,
                   acked, log>>

\* The handler's promise resolves: the head is removed, parked publishers are
\* admitted and the loop of runConsumer starts over, all in one segment.
HandlerResolves ==
    /\ consumer = "handling"
    /\ LET n == Admitted(Capacity - Len(Tail(messages)), waitingPublishers)
           stored == Tail(messages) \o SubSeq(waitingPublishers, 1, n)
       IN  /\ messages' = stored
           /\ waitingPublishers' =
                SubSeq(waitingPublishers, n + 1, Len(waitingPublishers))
           /\ outcome' = [m \in Messages |->
                IF \E i \in 1..n : waitingPublishers[i] = m
                THEN "accepted" ELSE outcome[m]]
           /\ IF acceptingWork
              THEN NextMessage(stored)
              ELSE consumer' = "finished" /\ current' = NoMessage
    /\ acked' = Append(acked, current)
    /\ UNCHANGED <<acceptingWork, closing, log>>

\* With a bug: the head is removed whether or not the handler succeeded.
HandlerRejectsAndDrops ==
    /\ consumer = "handling"
    /\ consumer' = "finished"
    /\ current' = NoMessage
    /\ messages' = Tail(messages)
    /\ UNCHANGED <<waitingPublishers, acceptingWork, outcome, closing, acked, log>>

\* The handler rejects: runConsumer rejects and the message stays at the head.
HandlerRejects ==
    /\ consumer = "handling"
    /\ consumer' = "finished"
    /\ current' = NoMessage
    /\ UNCHANGED <<messages, waitingPublishers, acceptingWork, outcome, closing,
                   acked, log>>

\* The finally callback of consume() makes room for the next consumer.
ConsumerCleared ==
    /\ consumer = "finished"
    /\ consumer' = "idle"
    /\ UNCHANGED <<messages, waitingPublishers, acceptingWork, current, outcome,
                   closing, acked, log>>

-----------------------------------------------------------------------------
(* shutdown()                                                              *)

\* With a bug: the parked publishers are dropped and their promises left pending.
ShutdownForgetsPublishers(c) ==
    /\ closing[c] = "new"
    /\ acceptingWork' = FALSE
    /\ consumer' = Woken(consumer)
    /\ waitingPublishers' = <<>>
    /\ log' = SubSeq(log, 1, Len(acked) + Len(messages))
    /\ closing' = [closing EXCEPT ![c] = IF consumer = "idle" THEN "done" ELSE "awaiting"]
    /\ UNCHANGED <<messages, current, outcome, acked>>

\* With a bug: a parked consumer is not woken.
ShutdownSilently(c) ==
    /\ closing[c] = "new"
    /\ acceptingWork' = FALSE
    /\ waitingPublishers' = <<>>
    /\ outcome' = [m \in Messages |->
         IF outcome[m] = "waiting" THEN "QUEUE_SHUTDOWN" ELSE outcome[m]]
    /\ log' = SubSeq(log, 1, Len(acked) + Len(messages))
    /\ closing' = [closing EXCEPT ![c] = IF consumer = "idle" THEN "done" ELSE "awaiting"]
    /\ UNCHANGED <<messages, consumer, current, acked>>

\* With a bug: the consumer's promise is awaited only if a handler is running.
ShutdownHurries(c) ==
    /\ closing[c] = "new"
    /\ acceptingWork' = FALSE
    /\ consumer' = Woken(consumer)
    /\ waitingPublishers' = <<>>
    /\ outcome' = [m \in Messages |->
         IF outcome[m] = "waiting" THEN "QUEUE_SHUTDOWN" ELSE outcome[m]]
    /\ log' = SubSeq(log, 1, Len(acked) + Len(messages))
    /\ closing' = [closing EXCEPT ![c] = IF consumer = "handling" THEN "awaiting" ELSE "done"]
    /\ UNCHANGED <<messages, current, acked>>

\* Up to the await of activeConsumer: new work is refused, the consumer is
\* woken and every parked publisher is rejected.
Shutdown(c) ==
    /\ closing[c] = "new"
    /\ acceptingWork' = FALSE
    /\ consumer' = Woken(consumer)
    /\ waitingPublishers' = <<>>
    /\ outcome' = [m \in Messages |->
         IF outcome[m] = "waiting" THEN "QUEUE_SHUTDOWN" ELSE outcome[m]]
    /\ log' = SubSeq(log, 1, Len(acked) + Len(messages))
    /\ closing' = [closing EXCEPT ![c] = IF consumer = "idle" THEN "done" ELSE "awaiting"]
    /\ UNCHANGED <<messages, current, acked>>

\* The consumer's promise, settled only after its finally callback ran.
ShutdownReturns(c) ==
    /\ closing[c] = "awaiting"
    /\ consumer = "idle"
    /\ closing' = [closing EXCEPT ![c] = "done"]
    /\ UNCHANGED <<queueVars, outcome, acked, log>>

-----------------------------------------------------------------------------

Publish(m) == PublishRefused(m) \/ PublishWaits(m) \/ PublishStored(m)

HandlerSettles == HandlerResolves \/ HandlerRejects

\* What the event loop runs by itself once it is due.
Microtask ==
    \/ ResumeFromWake
    \/ StartHandler
    \/ ConsumerReturns
    \/ ConsumerCleared
    \/ \E c \in Closers : ShutdownReturns(c)

Next ==
    \/ \E m \in Messages : Publish(m)
    \/ Consume
    \/ HandlerSettles
    \/ \E c \in Closers : Shutdown(c)
    \/ Microtask

\* The event loop never leaves a due continuation unrun, and handlers settle:
\* a handler that awaits this queue's own shutdown() is outside the contract.
Fairness ==
    /\ WF_vars(ResumeFromWake \/ StartHandler \/ ConsumerReturns \/ ConsumerCleared)
    /\ \A c \in Closers : WF_vars(ShutdownReturns(c))
    /\ WF_vars(HandlerSettles)

Spec == Init /\ [][Next]_vars

FairSpec == Spec /\ Fairness

-----------------------------------------------------------------------------

TypeOK ==
    /\ messages \in Seq(Messages)
    /\ waitingPublishers \in Seq(Messages)
    /\ acceptingWork \in BOOLEAN
    /\ consumer \in ConsumerState
    /\ current \in Messages \cup {NoMessage}
    /\ outcome \in [Messages -> PublishOutcome]
    /\ closing \in [Closers -> {"new", "awaiting", "done"}]
    /\ acked \in Seq(Messages)
    /\ log \in Seq(Messages)
    /\ Len(messages) <= Capacity

\* A publisher is parked only while the queue is full and open: a publish()
\* that finds room can therefore never overtake one that waited before it, and
\* no parked publisher is forgotten when a message leaves or the queue closes
\* (publish, admitWaitingPublishers, shutdown).
WaitingOnlyWhenFull ==
    waitingPublishers /= <<>> => acceptingWork /\ Len(messages) = Capacity

\* The acknowledged, stored and parked messages are, in this order, exactly the
\* publish() calls taken in: nothing is lost, duplicated or reordered by the
\* head that stays during handling, a redelivery after a failure, the admission
\* of parked publishers or the rejections of shutdown.
Fifo ==
    /\ Len(log) = Len(acked) + Len(messages) + Len(waitingPublishers)
    /\ \A i \in 1..Len(acked) : acked[i] = log[i]
    /\ \A i \in 1..Len(messages) : messages[i] = log[Len(acked) + i]
    /\ \A i \in 1..Len(waitingPublishers) :
         waitingPublishers[i] = log[Len(acked) + Len(messages) + i]

\* A consumer sleeps only while the queue is open and empty: no publish(),
\* admission or shutdown() leaves it parked with something to do (no lost
\* wake-up between the loop test of nextMessage and its await).
NoLostWakeup == consumer = "parked" => acceptingWork /\ messages = <<>>

\* The message a consumer read before an await is still the head of the queue
\* when the handler runs and when the head is removed, so the message that
\* shift() drops is the one the handler finished (runConsumer).
CurrentIsHead ==
    /\ consumer = "handling" => current /= NoMessage
    /\ current /= NoMessage =>
         /\ consumer \in {"polled", "handling"}
         /\ messages /= <<>>
         /\ current = Head(messages)

\* Every publish() promise tells the truth: it is pending exactly for a parked
\* publisher and fulfilled exactly for a message that is stored or was handled;
\* a publisher told QUEUE_SHUTDOWN or QUEUE_CAPACITY_EXCEEDED may retry elsewhere
\* since its message is delivered by nobody.
OutcomeTruthful ==
    \A m \in Messages :
        /\ outcome[m] = "waiting" <=>
             \E i \in 1..Len(waitingPublishers) : waitingPublishers[i] = m
        /\ outcome[m] = "accepted" <=>
             \E i \in 1..(Len(acked) + Len(messages)) : log[i] = m

\* When a shutdown() call has returned no consumer is left and none can start:
\* the caller may release what handlers use (server.js closes the pool next).
ShutdownQuiesces ==
    \A c \in Closers : closing[c] = "done" => ~acceptingWork /\ consumer = "idle"

\* Every shutdown() call returns, whatever the consumer was doing when it came.
ShutdownReturnsEventually ==
    \A c \in Closers : closing[c] /= "new" ~> closing[c] = "done"

\* As long as the consumer that is running does not stop, every parked publisher
\* is admitted and every stored message handled: only a handler's failure or a
\* shutdown can leave work behind (nextMessage, admitWaitingPublishers).
ConsumerServesAll ==
    \A m \in Messages :
        (outcome[m] \in {"waiting", "accepted"} /\ consumer /= "idle") ~>
            \/ consumer = "idle"
            \/ \E i \in 1..Len(acked) : acked[i] = m

-----------------------------------------------------------------------------
Delivery == INSTANCE FifoDelivery WITH
    handled <- Len(acked), busy <- (consumer = "handling"), open <- acceptingWork

\* The queue implements the abstract FIFO: seen through its log, every segment
\* of the code is one abstract step or none, so publishers, consumers and
\* shutdown interleave without being noticed.
ImplementsDelivery == Delivery!Spec

=============================================================================
