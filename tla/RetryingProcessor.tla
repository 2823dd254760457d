------------------------- MODULE RetryingProcessor -------------------------
(***************************************************************************)
(* createRetryingQueueProcessor and executeWithRetry of packages/retries,  *)
(* between a source queue and a dead letter queue.  Both queues are the    *)
(* in-memory queue, taken by its abstract specification FifoDelivery: the  *)
(* handler of the source is process(), the dead letter queue is published  *)
(* to by executeWithRetry and drained by a consumer of its own.  Its       *)
(* overflowStrategy is either, so it is taken as a queue that parks and    *)
(* the refusal is tested before publish().                                 *)
(*                                                                         *)
(* A publish() promise of a queue is read off its log: the entry at index  *)
(* i is stored once i <= handled + Capacity, parked before, and refused if *)
(* the closing queue cut it off.                                           *)
(***************************************************************************)
EXTENDS Naturals, Sequences

CONSTANTS
    Messages,          \* what is published to the source queue, each once
    Unprocessable,     \* the messages executeWithRetry throws on before an attempt:
                       \* all with an invalid option, else what cannot be cloned
    MaxAttempts,       \* the option maxAttempts
    SourceCapacity,
    Capacity,          \* of the dead letter queue
    None               \* there is no message, or no classification

ASSUME MaxAttemptsAssumption == MaxAttempts \in Nat \ {0}
ASSUME SourceCapacityAssumption == SourceCapacity \in Nat \ {0}
ASSUME DeadLetterCapacityAssumption == Capacity \in Nat \ {0}
ASSUME NoneAssumption == None \notin Messages \cup {"TRANSIENT", "PERMANENT"}

VARIABLES
    sLog, sHandled, sBusy, sOpen,   \* the source queue
    dLog, dHandled, dBusy, dOpen,   \* the dead letter queue
    overflowStrategy,               \* its option, fixed when it is created
    content,    \* what the object of each message holds: as published, or changed
    step,       \* the await of executeWithRetry
    attempt,
    snapshot,   \* originalMessage: the content that was cloned
    class,      \* classification of the last error
    succeeded   \* history: the messages an operation returned for

source == <<sLog, sHandled, sBusy, sOpen>>
deadLetters == <<dLog, dHandled, dBusy, dOpen, overflowStrategy>>
vars == <<sLog, sHandled, sBusy, sOpen, dLog, dHandled, dBusy, dOpen, overflowStrategy,
          content, step, attempt, snapshot, class, succeeded>>

Content == {"original", "changed"}
Classification == {"TRANSIENT", "PERMANENT"}

\* The part of a dead letter record that depends on what happened.
Record == [message : Messages, originalMessage : Content, attempts : 1..MaxAttempts,
           classification : Classification]

Source == INSTANCE FifoDelivery WITH
    log <- sLog, handled <- sHandled, busy <- sBusy, open <- sOpen,
    Capacity <- SourceCapacity, overflowStrategy <- "reject"

DeadLetterQueue == INSTANCE FifoDelivery WITH
    log <- dLog, handled <- dHandled, busy <- dBusy, open <- dOpen, Messages <- Record,
    overflowStrategy <- "wait"

Init ==
    /\ Source!Init
    /\ DeadLetterQueue!Init
    /\ overflowStrategy \in {"reject", "wait"}
    /\ content = [m \in Messages |-> "original"]
    /\ step = "idle"
    /\ attempt = 0
    /\ snapshot = "original"
    /\ class = None
    /\ succeeded = {}

-----------------------------------------------------------------------------

\* The message process() was called with: the first that is not acknowledged.
message == sLog[sHandled + 1]

\* process() resolves or rejects; its locals are gone.
Return ==
    /\ step' = "idle"
    /\ attempt' = 0
    /\ snapshot' = "original"
    /\ class' = None

\* The source queue removes the message, or keeps it at its head.
Acknowledged == Source!Acknowledge /\ Return
Unacknowledged == Source!Fail /\ Return

-----------------------------------------------------------------------------
(* process(message) and executeWithRetry                                   *)

\* The consumer of the source calls process(); executeWithRetry clones the
\* message and calls the operation for the first time.
Deliver ==
    /\ Source!Start
    /\ message \notin Unprocessable
    /\ step' = "operation"
    /\ attempt' = 1
    /\ snapshot' = content[message]
    /\ UNCHANGED <<deadLetters, content, class, succeeded>>

\* The validation of the options or structuredClone() throws: process() rejects
\* before the first attempt.
DeliverUnprocessable ==
    /\ Source!Start
    /\ message \in Unprocessable
    /\ step' = "throwing"
    /\ UNCHANGED <<deadLetters, content, attempt, snapshot, class, succeeded>>

SetupFails ==
    /\ step = "throwing"
    /\ Unacknowledged
    /\ UNCHANGED <<deadLetters, content, succeeded>>

\* The operation holds the queue's own object and may change it.
Touch(c) ==
    /\ c = "original" => content[message] = "original"
    /\ content' = [content EXCEPT ![message] = c]

OperationSucceeds(c) ==
    /\ step = "operation"
    /\ Touch(c)
    /\ succeeded' = succeeded \cup {message}
    /\ Acknowledged
    /\ UNCHANGED deadLetters

\* shouldRetry: the failure waits for its delay.
OperationFailsAndWaits(c) ==
    /\ step = "operation"
    /\ attempt < MaxAttempts
    /\ Touch(c)
    /\ class' = "TRANSIENT"
    /\ step' = "delay"
    /\ UNCHANGED <<source, deadLetters, attempt, snapshot, succeeded>>

\* With a bug: the counter of the loop is not advanced.
DelayEndsWithoutCounting ==
    /\ step = "delay"
    /\ step' = "operation"
    /\ UNCHANGED <<source, deadLetters, content, attempt, snapshot, class, succeeded>>

DelayEnds ==
    /\ step = "delay"
    /\ step' = "operation"
    /\ attempt' = attempt + 1
    /\ UNCHANGED <<source, deadLetters, content, snapshot, class, succeeded>>

\* retryDelay() throws, or the timer rejects.
DelayFails ==
    /\ step = "delay"
    /\ Unacknowledged
    /\ UNCHANGED <<deadLetters, content, succeeded>>

DeadLetter(k) == [message |-> message, originalMessage |-> snapshot,
                  attempts |-> attempt, classification |-> k]

\* publish() to the dead letter queue rejects at once.
Refusing == ~dOpen \/ (overflowStrategy = "reject" /\ Len(dLog) - dHandled >= Capacity)

\* A failure of class k is not retried and the dead letter queue takes the
\* record in: it is stored, or parked if the queue is full.
OperationFailsForGood(c, k) ==
    /\ step = "operation"
    /\ k = "PERMANENT" \/ attempt = MaxAttempts
    /\ Touch(c)
    /\ ~Refusing
    /\ DeadLetterQueue!Offer(DeadLetter(k))
    /\ class' = k
    /\ step' = "publishing"
    /\ UNCHANGED <<source, overflowStrategy, attempt, snapshot, succeeded>>

\* The dead letter queue refuses the record (Refusing), or now() or serializeError()
\* throws while it is put together: RETRY_INFRASTRUCTURE_ERROR either way.
DeadLetterPublicationFails(c, k) ==
    /\ step = "operation"
    /\ k = "PERMANENT" \/ attempt = MaxAttempts
    /\ Touch(c)
    /\ Unacknowledged
    /\ UNCHANGED <<deadLetters, succeeded>>

\* Where the record is in the log while its publish() is awaited.
PublishedAt ==
    CHOOSE i \in 1..Len(dLog) : dLog[i].message = message

InLog == \E i \in 1..Len(dLog) : dLog[i].message = message

\* With a bug: publish() is not awaited.
AcknowledgeAtOnce ==
    /\ step = "publishing"
    /\ Acknowledged
    /\ UNCHANGED <<deadLetters, content, succeeded>>

\* With a bug: process() rethrows MessageDeadLetteredError too.
RethrowDeadLettered ==
    /\ step = "publishing"
    /\ InLog
    /\ PublishedAt <= dHandled + Capacity
    /\ Unacknowledged
    /\ UNCHANGED <<deadLetters, content, succeeded>>

\* publish() resolves: MessageDeadLetteredError is thrown and swallowed.
DeadLetterStored ==
    /\ step = "publishing"
    /\ InLog
    /\ PublishedAt <= dHandled + Capacity
    /\ Acknowledged
    /\ UNCHANGED <<deadLetters, content, succeeded>>

\* The closing dead letter queue rejected the parked publish().
DeadLetterTurnedAway ==
    /\ step = "publishing"
    /\ ~InLog
    /\ Unacknowledged
    /\ UNCHANGED <<deadLetters, content, succeeded>>

-----------------------------------------------------------------------------
(* The users of the two queues.                                            *)

SourcePublish(m) ==
    /\ \A i \in 1..Len(sLog) : sLog[i] /= m
    /\ Source!Offer(m)
    /\ UNCHANGED <<deadLetters, content, step, attempt, snapshot, class, succeeded>>

SourceShutdown ==
    /\ Source!Close
    /\ UNCHANGED <<deadLetters, content, step, attempt, snapshot, class, succeeded>>

\* The consumer and the shutdown of the dead letter queue.
DeadLetterUsers ==
    /\ \/ DeadLetterQueue!Start
       \/ DeadLetterQueue!Acknowledge
       \/ DeadLetterQueue!Fail
       \/ DeadLetterQueue!Close
    /\ UNCHANGED <<source, overflowStrategy, content, step, attempt, snapshot, class, succeeded>>

-----------------------------------------------------------------------------

\* Everything process() does after it was called.
Process ==
    \/ SetupFails
    \/ \E c \in Content : OperationSucceeds(c)
    \/ \E c \in Content : OperationFailsAndWaits(c)
    \/ DelayEnds
    \/ DelayFails
    \/ \E c \in Content, k \in Classification :
         OperationFailsForGood(c, k) \/ DeadLetterPublicationFails(c, k)
    \/ DeadLetterStored
    \/ DeadLetterTurnedAway

Next ==
    \/ Deliver
    \/ DeliverUnprocessable
    \/ Process
    \/ \E m \in Messages : SourcePublish(m)
    \/ SourceShutdown
    \/ DeadLetterUsers

Spec == Init /\ [][Next]_vars

\* Operations and timers settle and the event loop runs what is due.
FairSpec == Spec /\ WF_vars(Process)

-----------------------------------------------------------------------------

Stored(i) == i <= Len(dLog) /\ i <= dHandled + Capacity

TypeOK ==
    /\ sLog \in Seq(Messages) /\ sHandled \in 0..Len(sLog)
    /\ dLog \in Seq(Record) /\ dHandled \in 0..Len(dLog)
    /\ sBusy \in BOOLEAN /\ sOpen \in BOOLEAN /\ dBusy \in BOOLEAN /\ dOpen \in BOOLEAN
    /\ content \in [Messages -> Content]
    /\ step \in {"idle", "operation", "delay", "publishing", "throwing"}
    /\ attempt \in 0..MaxAttempts
    /\ snapshot \in Content
    /\ class \in Classification \cup {None}
    /\ succeeded \subseteq Messages
    /\ overflowStrategy \in {"reject", "wait"}

\* An acknowledged source message was processed with success or its dead letter
\* is stored, through full and closing dead letter queues, parked publications,
\* failed timers and redeliveries: "the source message must remain
\* unacknowledged" when the retry infrastructure fails (process, the catch
\* blocks of executeWithRetry).
NothingLost ==
    \A i \in 1..sHandled :
        \/ sLog[i] \in succeeded
        \/ \E j \in 1..Len(dLog) : Stored(j) /\ dLog[j].message = sLog[i]

\* The position of a message in the source queue.
Position(m) == CHOOSE i \in 1..Len(sLog) : sLog[i] = m

\* The dead letters are in the order of the source and no message has two of
\* them, although a message that was not acknowledged is delivered again.
DeadLettersInOrder ==
    \A i, j \in 1..Len(dLog) :
        i < j => Position(dLog[i].message) < Position(dLog[j].message)

\* A message has an outcome or a dead letter but never both: no message is
\* parked for inspection whose operation has returned, or returns later, and no
\* delivery makes more than maxAttempts attempts to get there.
OneOutcome ==
    /\ attempt <= MaxAttempts
    /\ \A i \in 1..Len(dLog) : dLog[i].message \notin succeeded

\* The record is parked behind a full and open dead letter queue.
Blocked == step = "publishing" /\ dOpen /\ InLog /\ PublishedAt > dHandled + Capacity

\* The processor always comes to an end with the message it holds.  Only a dead
\* letter queue that stays full and open for ever can keep it, and with it the
\* source's consumer: as soon as room is made, or that queue is shut down, the
\* parked publish() settles and process() with it.
ProcessingEnds == sBusy ~> (~sBusy \/ []Blocked)


============================================================================
