------------------------ MODULE MessagingSemantics ------------------------
(***************************************************************************)
(* createMessagingSemanticsSimulations of packages/queue: one message sent *)
(* through a queue of its own, at most once, at least once, or with        *)
(* idempotent effects, and possibly lost (the message, or the first        *)
(* acknowledgement).  The queue is taken by its abstract specification.    *)
(***************************************************************************)
EXTENDS Naturals, Sequences

VARIABLES
    semantics,   \* which simulation runs
    lossy,       \* messageLost, acknowledgementLost
    stage,       \* the await the simulation is at
    qLog, qHandled, qBusy, qOpen,      \* the queue
    deliveryAttempts, handlerInvocations, effectApplications, duplicatesSkipped,
    processed    \* processedMessageIds has the message

queue == <<qLog, qHandled, qBusy, qOpen>>
tally == <<deliveryAttempts, handlerInvocations, effectApplications, duplicatesSkipped, processed>>
messagingVars == <<semantics, lossy, stage, queue, tally>>

\* createQueue() without options: the capacity is far from reached by one message.
Queue == INSTANCE FifoDelivery WITH
    log <- qLog, handled <- qHandled, busy <- qBusy, open <- qOpen,
    Messages <- {"message-1"}, Capacity <- 1000, overflowStrategy <- "reject"

Init ==
    /\ semantics \in {"at most once", "at least once", "idempotent effects"}
    /\ lossy \in BOOLEAN
    /\ stage = "publish"
    /\ Queue!Init
    /\ deliveryAttempts = IF semantics = "at most once" THEN 1 ELSE 0
    /\ handlerInvocations = 0
    /\ effectApplications = 0
    /\ duplicatesSkipped = 0
    /\ processed = FALSE

-----------------------------------------------------------------------------

\* The message is lost on its way: the simulation returns through its finally.
MessageLost ==
    /\ stage = "publish"
    /\ semantics = "at most once" /\ lossy
    /\ stage' = "finally"
    /\ UNCHANGED <<semantics, lossy, queue, tally>>

\* publish(), and consume() is called: with a handler whose failure is awaited if
\* the acknowledgement will be lost, else with the one that ends the simulation.
Publish ==
    /\ stage = "publish"
    /\ ~(semantics = "at most once" /\ lossy)
    /\ Queue!Offer("message-1")
    /\ stage' = IF lossy THEN "first consumer" ELSE "consumer"
    /\ UNCHANGED <<semantics, lossy, tally>>

\* With a bug: the simulation does not look at processedMessageIds.
NeverSkips == FALSE

\* `idempotent` and the message is in processedMessageIds.
Skips == semantics = "idempotent effects" /\ processed

\* The consumer calls the handler, which runs to its end without an await.
Handle ==
    /\ stage \in {"first consumer", "consumer"}
    /\ Queue!Start
    /\ handlerInvocations' = handlerInvocations + 1
    /\ deliveryAttempts' = deliveryAttempts + (IF semantics = "at most once" THEN 0 ELSE 1)
    /\ IF Skips
       THEN duplicatesSkipped' = duplicatesSkipped + 1 /\ UNCHANGED <<effectApplications, processed>>
       ELSE /\ effectApplications' = effectApplications + 1
            /\ processed' = TRUE
            /\ UNCHANGED duplicatesSkipped
    /\ UNCHANGED <<semantics, lossy, stage>>

\* The acknowledgement is lost: the handler rejects, the queue keeps the message,
\* and the simulation consumes again.
AcknowledgementLost ==
    /\ stage = "first consumer"
    /\ Queue!Fail
    /\ stage' = "consumer"
    /\ UNCHANGED <<semantics, lossy, tally>>

\* The handler's last statement resolves what the simulation awaits, before the
\* consumer has removed the message.
Acknowledged ==
    /\ stage = "consumer"
    /\ qBusy
    /\ stage' = "finally"
    /\ UNCHANGED <<semantics, lossy, queue, tally>>

\* The consumer resumes, before or after shutdown() was called.
MessageRemoved ==
    /\ stage \in {"finally", "closing"}
    /\ Queue!Acknowledge
    /\ UNCHANGED <<semantics, lossy, stage, tally>>

\* finally: queue.shutdown()
Shutdown ==
    /\ stage = "finally"
    /\ Queue!Close
    /\ stage' = "closing"
    /\ UNCHANGED <<semantics, lossy, tally>>

\* shutdown() and the consumer are awaited.
Return ==
    /\ stage = "closing"
    /\ ~qBusy
    /\ stage' = "returned"
    /\ UNCHANGED <<semantics, lossy, queue, tally>>

Next ==
    \/ MessageLost \/ Publish \/ Handle \/ AcknowledgementLost
    \/ Acknowledged \/ MessageRemoved \/ Shutdown \/ Return

-----------------------------------------------------------------------------

\* The counts of docs/architecture/messaging-semantics.md, as deliveries, handler
\* invocations, effects and skipped duplicates.
Documented ==
    CASE ~lossy -> <<1, 1, 1, 0>>
      [] lossy /\ semantics = "at most once" -> <<1, 0, 0, 0>>
      [] lossy /\ semantics = "at least once" -> <<2, 2, 2, 0>>
      [] lossy /\ semantics = "idempotent effects" -> <<2, 2, 1, 1>>

\* Every simulation returns, with the documented counts and a queue that is closed,
\* without a handler at work and without the message unless that was lost.
ReturnsAsDocumented ==
    /\ stage = "returned"
    /\ <<deliveryAttempts, handlerInvocations, effectApplications, duplicatesSkipped>> = Documented
    /\ ~qOpen /\ ~qBusy /\ qHandled = Len(qLog)

============================================================================
