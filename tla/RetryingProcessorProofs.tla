---------------------- MODULE RetryingProcessorProofs ----------------------
(***************************************************************************)
(* TLAPS proofs about RetryingProcessor, for every set of messages, every  *)
(* choice of those that cannot be processed, every number of attempts and  *)
(* both capacities.                                                        *)
(***************************************************************************)
EXTENDS RetryingProcessor, SequenceTheorems, TLAPS

\* The source refuses what it has no room for, so its closing turns nobody away;
\* it holds a message once, and process() is at work on one that is there.
SourceInv ==
    /\ Len(sLog) <= sHandled + SourceCapacity
    /\ \A i, j \in 1..Len(sLog) : sLog[i] = sLog[j] => i = j
    /\ sBusy <=> step /= "idle"
    /\ sBusy => sHandled < Len(sLog)

\* Where the loop of executeWithRetry is.
LoopInv ==
    /\ step \in {"operation", "delay", "publishing"} => attempt >= 1
    /\ step = "delay" => attempt < MaxAttempts
    /\ dBusy => dHandled < Len(dLog)

\* A dead letter is that of an acknowledged message, or of the one in hand while
\* its publish() is awaited.
PlacedInv ==
    \A i \in 1..Len(dLog) : \E p \in 1..Len(sLog) :
        /\ sLog[p] = dLog[i].message
        /\ p <= sHandled \/ (p = sHandled + 1 /\ step = "publishing")

\* DeadLettersInOrder, for every place a message could be at.
OrderInv ==
    \A i, j \in 1..Len(dLog) : i < j =>
        \A p, q \in 1..Len(sLog) :
            sLog[p] = dLog[i].message /\ sLog[q] = dLog[j].message => p < q

\* An operation that returned was acknowledged in the same step.
SucceededInv ==
    \A m \in succeeded : \E p \in 1..sHandled : sLog[p] = m

\* The inductive invariant.
ProcessorInv ==
    /\ TypeOK
    /\ SourceInv
    /\ LoopInv
    /\ PlacedInv
    /\ OrderInv
    /\ SucceededInv
    /\ OneOutcome
    /\ NothingLost

-----------------------------------------------------------------------------
(* Every action keeps the invariant.                                       *)

\* The locals of process() when it has resolved or rejected.
LEMMA ReturnTypes ==
    ASSUME TypeOK, Return
    PROVE  /\ step' \in {"idle", "operation", "delay", "publishing", "throwing"}
           /\ attempt' \in 0..MaxAttempts
           /\ snapshot' \in Content
           /\ class' \in Classification \cup {None}
<1>1. step' = "idle" /\ attempt' \in 0..MaxAttempts
    BY MaxAttemptsAssumption DEF TypeOK, Return
<1>2. snapshot' \in Content /\ class' \in Classification \cup {None}
    BY DEF TypeOK, Return, Content
<1> QED
    BY <1>1, <1>2

\* The source queue when its handler is done.
LEMMA SourceTypes ==
    ASSUME TypeOK, SourceInv, Source!Acknowledge \/ Source!Fail
    PROVE  /\ sLog' \in Seq(Messages) /\ sHandled' \in 0..Len(sLog')
           /\ sBusy' \in BOOLEAN /\ sOpen' \in BOOLEAN
<1>1. CASE Source!Acknowledge
  <2>1. sHandled < Len(sLog)
      BY <1>1 DEF SourceInv, Source!Acknowledge
  <2>2. sHandled' \in 0..Len(sLog)
      BY <1>1, <2>1 DEF TypeOK, Source!Acknowledge
  <2>3. sBusy' \in BOOLEAN /\ sOpen' \in BOOLEAN /\ sLog' = sLog
      BY <1>1 DEF TypeOK, Source!Acknowledge
  <2> QED
      BY <2>2, <2>3 DEF TypeOK
<1>2. CASE Source!Fail
    BY <1>2 DEF TypeOK, Source!Fail
<1> QED
    BY <1>1, <1>2

\* The object the operation holds.
LEMMA TouchTypes ==
    ASSUME TypeOK, NEW c \in Content, Touch(c)
    PROVE  content' \in [Messages -> Content]
BY DEF TypeOK, Touch

\* A queue that closes keeps what it had room for.
LEMMA DeadLetterClosing ==
    ASSUME TypeOK, DeadLetterQueue!Close
    PROVE  /\ dLog' \in Seq(Record) /\ dHandled' = dHandled /\ dHandled <= Len(dLog')
           /\ Len(dLog') <= Len(dLog) /\ Len(dLog') >= dHandled /\ Len(dLog') \in Nat
           /\ dHandled < Len(dLog) => dHandled < Len(dLog')
           /\ \A i \in 1..Len(dLog') : dLog'[i] = dLog[i]
           /\ \A i \in 1..Len(dLog) : Stored(i) => i \in 1..Len(dLog') /\ Stored(i)'
<1>1. CASE Len(dLog) - dHandled > Capacity
  <2>1. dLog' = SubSeq(dLog, 1, dHandled + Capacity)
      BY <1>1 DEF DeadLetterQueue!Close
  <2>2. dHandled + Capacity \in 1..Len(dLog)
      BY <1>1, DeadLetterCapacityAssumption DEF TypeOK
  <2>3. /\ dLog' \in Seq(Record) /\ Len(dLog') = dHandled + Capacity
        /\ \A i \in 1..(dHandled + Capacity) : dLog'[i] = dLog[i]
      BY <2>1, <2>2, DeadLetterCapacityAssumption, SubSeqProperties DEF TypeOK
  <2> QED
      BY <2>2, <2>3, DeadLetterCapacityAssumption DEF TypeOK, Stored,
       DeadLetterQueue!Close
<1>2. CASE ~(Len(dLog) - dHandled > Capacity)
    BY <1>2, DeadLetterCapacityAssumption DEF TypeOK, Stored, DeadLetterQueue!Close
<1> QED
    BY <1>1, <1>2

\* The source refuses what it has no room for: its closing cuts nothing off.
LEMMA SourceClosing ==
    ASSUME TypeOK, SourceInv, Source!Close
    PROVE  sLog' = sLog
BY SourceCapacityAssumption DEF TypeOK, SourceInv, Source!Close

\* While its operation runs the message in hand has neither outcome: every dead
\* letter is that of an acknowledged message, which is another one.
LEMMA FirstOutcome ==
    ASSUME ProcessorInv, step = "operation"
    PROVE  /\ \A i \in 1..Len(dLog) : \E p \in 1..sHandled : sLog[p] = dLog[i].message
           /\ \A p \in 1..sHandled : sLog[p] /= sLog[sHandled + 1]
<1>1. \A i \in 1..Len(dLog) : \E p \in 1..sHandled : sLog[p] = dLog[i].message
  <2> SUFFICES ASSUME NEW i \in 1..Len(dLog)
               PROVE  \E p \in 1..sHandled : sLog[p] = dLog[i].message
      OBVIOUS
  <2>1. PICK p \in 1..Len(sLog) : sLog[p] = dLog[i].message /\ p <= sHandled
      BY DEF ProcessorInv, PlacedInv
  <2>2. p \in 1..sHandled
      BY <2>1 DEF ProcessorInv, TypeOK
  <2> QED
      BY <2>1, <2>2
<1>2. sHandled \in Nat /\ Len(sLog) \in Nat /\ sHandled + 1 <= Len(sLog)
    BY DEF ProcessorInv, TypeOK, SourceInv
<1>3. \A p \in 1..sHandled : sLog[p] /= sLog[sHandled + 1]
    BY <1>2 DEF ProcessorInv, SourceInv
<1> QED
    BY <1>1, <1>3

\* process() is called with the first message that is not acknowledged.
LEMMA DeliverKeeps ==
    ASSUME ProcessorInv, Deliver
    PROVE  ProcessorInv'
<1> USE DEF ProcessorInv, Deliver, message, deadLetters, Source!Start
<1>1. TypeOK'
    BY MaxAttemptsAssumption, SourceCapacityAssumption, DeadLetterCapacityAssumption,
       NoneAssumption DEF TypeOK, SourceInv, LoopInv, Content, Classification
<1>2. SourceInv'
    BY SourceCapacityAssumption DEF TypeOK, SourceInv
<1>3. LoopInv'
    BY MaxAttemptsAssumption, DeadLetterCapacityAssumption DEF TypeOK, LoopInv
<1>4. PlacedInv'
    BY DEF TypeOK, PlacedInv, SourceInv
<1>5. OrderInv'
    BY DEF OrderInv
<1>6. SucceededInv'
    BY DEF TypeOK, SucceededInv, SourceInv
<1>7. OneOutcome'
    BY MaxAttemptsAssumption DEF TypeOK, OneOutcome, LoopInv
<1>8. NothingLost'
    BY DeadLetterCapacityAssumption DEF TypeOK, NothingLost, Stored, SourceInv
<1> QED
    BY <1>1, <1>2, <1>3, <1>4, <1>5, <1>6, <1>7, <1>8

\* The same for a message that cannot be processed.
LEMMA DeliverUnprocessableKeeps ==
    ASSUME ProcessorInv, DeliverUnprocessable
    PROVE  ProcessorInv'
<1> USE DEF ProcessorInv, DeliverUnprocessable, message, deadLetters, Source!Start
<1>1. TypeOK'
    BY MaxAttemptsAssumption, SourceCapacityAssumption, DeadLetterCapacityAssumption,
       NoneAssumption DEF TypeOK, SourceInv, LoopInv, Content, Classification
<1>2. SourceInv'
    BY SourceCapacityAssumption DEF TypeOK, SourceInv
<1>3. LoopInv'
    BY MaxAttemptsAssumption, DeadLetterCapacityAssumption DEF TypeOK, LoopInv
<1>4. PlacedInv'
    BY DEF TypeOK, PlacedInv, SourceInv
<1>5. OrderInv'
    BY DEF OrderInv
<1>6. SucceededInv'
    BY DEF TypeOK, SucceededInv, SourceInv
<1>7. OneOutcome'
    BY MaxAttemptsAssumption DEF TypeOK, OneOutcome, LoopInv
<1>8. NothingLost'
    BY DeadLetterCapacityAssumption DEF TypeOK, NothingLost, Stored, SourceInv
<1> QED
    BY <1>1, <1>2, <1>3, <1>4, <1>5, <1>6, <1>7, <1>8

\* process() rejects, wherever it was: the message stays at the head of the source, and
\* no dead letter of it is left behind.
LEMMA RejectionKeeps ==
    ASSUME ProcessorInv, Unacknowledged, UNCHANGED <<deadLetters, succeeded>>,
           content' \in [Messages -> Content], step = "publishing" => ~InLog
    PROVE  ProcessorInv'
<1> USE DEF ProcessorInv, Unacknowledged, deadLetters, InLog, message, Return,
       Source!Fail
<1>1. TypeOK'
    BY ReturnTypes, SourceTypes DEF TypeOK
<1>2. SourceInv'
    BY SourceCapacityAssumption DEF TypeOK, SourceInv
<1>3. LoopInv'
    BY MaxAttemptsAssumption, DeadLetterCapacityAssumption DEF TypeOK, LoopInv
<1>4. PlacedInv'
    BY DEF TypeOK, PlacedInv, SourceInv
<1>5. OrderInv'
    BY DEF OrderInv
<1>6. SucceededInv'
    BY DEF TypeOK, SucceededInv, SourceInv
<1>7. OneOutcome'
    BY MaxAttemptsAssumption DEF TypeOK, OneOutcome, LoopInv
<1>8. NothingLost'
    BY DeadLetterCapacityAssumption DEF TypeOK, NothingLost, Stored, SourceInv
<1> QED
    BY <1>1, <1>2, <1>3, <1>4, <1>5, <1>6, <1>7, <1>8

\* The four ways to reject.
LEMMA RejectionsKeep ==
    ASSUME ProcessorInv,
           \/ SetupFails \/ DelayFails \/ DeadLetterTurnedAway
           \/ \E c \in Content, k \in Classification : DeadLetterPublicationFails(c, k)
    PROVE  ProcessorInv'
<1>1. CASE SetupFails \/ DelayFails \/ DeadLetterTurnedAway
  <2>1. content' \in [Messages -> Content] /\ (step = "publishing" => ~InLog)
      BY <1>1 DEF SetupFails, DelayFails, DeadLetterTurnedAway, ProcessorInv, TypeOK
  <2> QED
      BY <1>1, <2>1, RejectionKeeps DEF SetupFails, DelayFails, DeadLetterTurnedAway
<1>2. ASSUME NEW c \in Content, NEW k \in Classification, DeadLetterPublicationFails(c, k)
      PROVE  ProcessorInv'
  <2>1. content' \in [Messages -> Content]
      BY <1>2, TouchTypes DEF DeadLetterPublicationFails, ProcessorInv
  <2> QED
      BY <1>2, <2>1, RejectionKeeps DEF DeadLetterPublicationFails
<1> QED
    BY <1>1, <1>2

\* The message is acknowledged as its operation returns.
LEMMA OperationSucceedsKeeps ==
    ASSUME ProcessorInv, NEW c \in Content, OperationSucceeds(c)
    PROVE  ProcessorInv'
<1> USE DEF ProcessorInv, OperationSucceeds, Acknowledged, Touch, message,
       deadLetters, Return, Source!Acknowledge
<1>1. TypeOK'
  <2>1. message \in Messages
    BY DEF TypeOK, SourceInv
  <2>2. succeeded' \subseteq Messages
    BY <2>1 DEF TypeOK
  <2> QED
    BY <2>2, ReturnTypes, SourceTypes, TouchTypes DEF TypeOK
<1>2. SourceInv'
    BY SourceCapacityAssumption DEF TypeOK, SourceInv
<1>3. LoopInv'
    BY MaxAttemptsAssumption, DeadLetterCapacityAssumption DEF TypeOK, LoopInv
<1>4. PlacedInv'
    BY DEF TypeOK, PlacedInv, SourceInv
<1>5. OrderInv'
    BY DEF OrderInv
<1>6. SucceededInv'
    BY DEF TypeOK, SucceededInv, SourceInv
<1>7. OneOutcome'
  <2>1. \A i \in 1..Len(dLog) : \E p \in 1..sHandled : sLog[p] = dLog[i].message
    BY FirstOutcome
  <2>2. \A p \in 1..sHandled : sLog[p] /= sLog[sHandled + 1]
    BY FirstOutcome
  <2>3. \A i \in 1..Len(dLog) : dLog[i].message /= message
    BY <2>1, <2>2
  <2> QED
    BY <2>3, MaxAttemptsAssumption DEF TypeOK, OneOutcome
<1>8. NothingLost'
    BY DeadLetterCapacityAssumption DEF TypeOK, NothingLost, Stored, SourceInv
<1> QED
    BY <1>1, <1>2, <1>3, <1>4, <1>5, <1>6, <1>7, <1>8

\* A failure that is retried.
LEMMA OperationFailsAndWaitsKeeps ==
    ASSUME ProcessorInv, NEW c \in Content, OperationFailsAndWaits(c)
    PROVE  ProcessorInv'
<1> USE DEF ProcessorInv, OperationFailsAndWaits, Touch, source, deadLetters, message
<1>1. TypeOK'
    BY MaxAttemptsAssumption, SourceCapacityAssumption, DeadLetterCapacityAssumption,
       NoneAssumption DEF TypeOK, SourceInv, LoopInv, Content, Classification
<1>2. SourceInv'
    BY SourceCapacityAssumption DEF TypeOK, SourceInv
<1>3. LoopInv'
    BY MaxAttemptsAssumption, DeadLetterCapacityAssumption DEF TypeOK, LoopInv
<1>4. PlacedInv'
    BY DEF TypeOK, PlacedInv, SourceInv
<1>5. OrderInv'
    BY DEF OrderInv
<1>6. SucceededInv'
    BY DEF TypeOK, SucceededInv, SourceInv
<1>7. OneOutcome'
    BY MaxAttemptsAssumption DEF TypeOK, OneOutcome, LoopInv
<1>8. NothingLost'
    BY DeadLetterCapacityAssumption DEF TypeOK, NothingLost, Stored, SourceInv
<1> QED
    BY <1>1, <1>2, <1>3, <1>4, <1>5, <1>6, <1>7, <1>8

\* The next attempt.
LEMMA DelayEndsKeeps ==
    ASSUME ProcessorInv, DelayEnds
    PROVE  ProcessorInv'
<1> USE DEF ProcessorInv, DelayEnds, source, deadLetters
<1>1. TypeOK'
    BY MaxAttemptsAssumption, SourceCapacityAssumption, DeadLetterCapacityAssumption,
       NoneAssumption DEF TypeOK, SourceInv, LoopInv, Content, Classification
<1>2. SourceInv'
    BY SourceCapacityAssumption DEF TypeOK, SourceInv
<1>3. LoopInv'
    BY MaxAttemptsAssumption, DeadLetterCapacityAssumption DEF TypeOK, LoopInv
<1>4. PlacedInv'
    BY DEF TypeOK, PlacedInv, SourceInv
<1>5. OrderInv'
    BY DEF OrderInv
<1>6. SucceededInv'
    BY DEF TypeOK, SucceededInv, SourceInv
<1>7. OneOutcome'
    BY MaxAttemptsAssumption DEF TypeOK, OneOutcome, LoopInv
<1>8. NothingLost'
    BY DeadLetterCapacityAssumption DEF TypeOK, NothingLost, Stored, SourceInv
<1> QED
    BY <1>1, <1>2, <1>3, <1>4, <1>5, <1>6, <1>7, <1>8

\* The record goes to the end of the dead letter log.
LEMMA OperationFailsForGoodKeeps ==
    ASSUME ProcessorInv, NEW c \in Content, NEW k \in Classification,
           OperationFailsForGood(c, k)
    PROVE  ProcessorInv'
<1> USE DEF ProcessorInv, OperationFailsForGood, Touch, DeadLetter, Refusing, source,
       message, DeadLetterQueue!Offer
<1>1. TypeOK'
    BY MaxAttemptsAssumption, SourceCapacityAssumption, DeadLetterCapacityAssumption,
       NoneAssumption DEF TypeOK, SourceInv, LoopInv, Record, Content, Classification
<1>2. SourceInv'
    BY SourceCapacityAssumption DEF TypeOK, SourceInv
<1>3. LoopInv'
    BY MaxAttemptsAssumption, DeadLetterCapacityAssumption DEF TypeOK, LoopInv
<1>4. PlacedInv'
    BY DEF TypeOK, PlacedInv, SourceInv
<1>5. OrderInv'
  <2>1. \A i \in 1..Len(dLog) : \E p \in 1..sHandled : sLog[p] = dLog[i].message
    BY FirstOutcome
  <2>2. \A p \in 1..sHandled : sLog[p] /= sLog[sHandled + 1]
    BY FirstOutcome
  <2>3. /\ dLog' \in Seq(Record) /\ Len(dLog') = Len(dLog) + 1
        /\ \A i \in 1..Len(dLog) : dLog'[i] = dLog[i]
        /\ dLog'[Len(dLog) + 1].message = sLog[sHandled + 1]
    BY <1>1 DEF TypeOK
  <2>4. \A i \in 1..Len(dLog) : \A p, q \in 1..Len(sLog) :
          sLog[p] = dLog[i].message /\ sLog[q] = sLog[sHandled + 1] => p < q
    BY <2>1 DEF TypeOK, SourceInv
  <2> QED
  <3> SUFFICES ASSUME NEW i \in 1..Len(dLog'), NEW j \in 1..Len(dLog'), i < j,
                      NEW p \in 1..Len(sLog), NEW q \in 1..Len(sLog),
                      sLog[p] = dLog'[i].message, sLog[q] = dLog'[j].message
               PROVE  p < q
      BY DEF OrderInv
  <3>1. i \in 1..Len(dLog) /\ dLog'[i] = dLog[i]
      BY <2>3 DEF TypeOK
  <3>2. CASE j \in 1..Len(dLog)
      BY <2>3, <3>1, <3>2 DEF OrderInv
  <3>3. CASE j = Len(dLog) + 1
      BY <2>3, <2>4, <3>1, <3>3
  <3>4. j \in 1..Len(dLog) \/ j = Len(dLog) + 1
    <4>1. Len(dLog) \in Nat /\ j \in 1..(Len(dLog) + 1)
        BY <2>3 DEF TypeOK
    <4> HIDE DEF ProcessorInv
    <4> QED
        BY ONLY <4>1
  <3> QED
      BY <3>2, <3>3, <3>4
<1>6. SucceededInv'
    BY DEF TypeOK, SucceededInv, SourceInv
<1>7. OneOutcome'
  <2>1. \A i \in 1..Len(dLog) : \E p \in 1..sHandled : sLog[p] = dLog[i].message
    BY FirstOutcome
  <2>2. \A p \in 1..sHandled : sLog[p] /= sLog[sHandled + 1]
    BY FirstOutcome
  <2>3. message \notin succeeded
    BY <2>2 DEF SucceededInv
  <2> QED
    BY <2>3, MaxAttemptsAssumption DEF TypeOK, OneOutcome
<1>8. NothingLost'
    BY DeadLetterCapacityAssumption DEF TypeOK, NothingLost, Stored, SourceInv
<1> QED
    BY <1>1, <1>2, <1>3, <1>4, <1>5, <1>6, <1>7, <1>8

\* The record is stored and the message acknowledged.
LEMMA DeadLetterStoredKeeps ==
    ASSUME ProcessorInv, DeadLetterStored
    PROVE  ProcessorInv'
<1> USE DEF ProcessorInv, DeadLetterStored, Acknowledged, deadLetters, InLog, message,
       Return, Source!Acknowledge
<1>1. TypeOK'
    BY ReturnTypes, SourceTypes, TouchTypes DEF TypeOK
<1>2. SourceInv'
    BY SourceCapacityAssumption DEF TypeOK, SourceInv
<1>3. LoopInv'
    BY MaxAttemptsAssumption, DeadLetterCapacityAssumption DEF TypeOK, LoopInv
<1>4. PlacedInv'
    BY DEF TypeOK, PlacedInv, SourceInv
<1>5. OrderInv'
    BY DEF OrderInv
<1>6. SucceededInv'
    BY DEF TypeOK, SucceededInv, SourceInv
<1>7. OneOutcome'
    BY MaxAttemptsAssumption DEF TypeOK, OneOutcome, LoopInv
<1>8. NothingLost'
  <2>1. PublishedAt \in 1..Len(dLog) /\ dLog[PublishedAt].message = message
    BY DEF PublishedAt
  <2>2. Stored(PublishedAt)
    BY <2>1 DEF Stored, TypeOK
  <2>3. \A i \in 1..sHandled' : i \in 1..sHandled \/ i = sHandled + 1
    BY DEF TypeOK
  <2> QED
    BY <2>1, <2>2, <2>3 DEF NothingLost, Stored
<1> QED
    BY <1>1, <1>2, <1>3, <1>4, <1>5, <1>6, <1>7, <1>8

\* A message enters the source.
LEMMA SourcePublishKeeps ==
    ASSUME ProcessorInv, NEW m \in Messages, SourcePublish(m)
    PROVE  ProcessorInv'
<1> USE DEF ProcessorInv, SourcePublish, deadLetters, Source!Offer
<1>1. TypeOK'
    BY MaxAttemptsAssumption, SourceCapacityAssumption, DeadLetterCapacityAssumption,
       NoneAssumption DEF TypeOK, SourceInv, LoopInv, Content, Classification
<1>2. SourceInv'
    BY SourceCapacityAssumption DEF TypeOK, SourceInv
<1>3. LoopInv'
    BY MaxAttemptsAssumption, DeadLetterCapacityAssumption DEF TypeOK, LoopInv
<1>4. PlacedInv'
    BY DEF TypeOK, PlacedInv, SourceInv
<1>5. OrderInv'
  <2>1. \A i \in 1..Len(dLog) : dLog[i].message /= m
    BY DEF TypeOK, PlacedInv
  <2>2. /\ Len(sLog') = Len(sLog) + 1 /\ \A p \in 1..Len(sLog) : sLog'[p] = sLog[p]
        /\ sLog'[Len(sLog) + 1] = m
    BY DEF TypeOK
  <2> SUFFICES ASSUME NEW i \in 1..Len(dLog), NEW j \in 1..Len(dLog), i < j,
                      NEW p \in 1..Len(sLog'), NEW q \in 1..Len(sLog'),
                      sLog'[p] = dLog[i].message, sLog'[q] = dLog[j].message
               PROVE  p < q
    BY DEF OrderInv
  <2>3. p \in 1..Len(sLog) /\ q \in 1..Len(sLog)
    BY <2>1, <2>2 DEF TypeOK
  <2>4. sLog[p] = dLog[i].message /\ sLog[q] = dLog[j].message
    BY <2>2, <2>3
  <2> QED
    BY <2>3, <2>4 DEF OrderInv
<1>6. SucceededInv'
    BY DEF TypeOK, SucceededInv, SourceInv
<1>7. OneOutcome'
    BY MaxAttemptsAssumption DEF TypeOK, OneOutcome, LoopInv
<1>8. NothingLost'
    BY DeadLetterCapacityAssumption DEF TypeOK, NothingLost, Stored, SourceInv
<1> QED
    BY <1>1, <1>2, <1>3, <1>4, <1>5, <1>6, <1>7, <1>8

\* The source closes with all it took in.
LEMMA SourceShutdownKeeps ==
    ASSUME ProcessorInv, SourceShutdown
    PROVE  ProcessorInv'
<1> USE DEF ProcessorInv, SourceShutdown, deadLetters, Source!Close
<1>1. TypeOK'
    BY SourceClosing DEF TypeOK
<1>2. SourceInv'
  <2>1. sLog' = sLog
    BY SourceClosing
  <2> QED
    BY <2>1 DEF SourceInv
<1>3. LoopInv'
    BY MaxAttemptsAssumption, DeadLetterCapacityAssumption DEF TypeOK, LoopInv
<1>4. PlacedInv'
    BY SourceClosing DEF PlacedInv
<1>5. OrderInv'
  <2>1. sLog' = sLog /\ dLog' = dLog
    BY SourceClosing
  <2> QED
    BY <2>1, Zenon DEF OrderInv
<1>6. SucceededInv'
    BY SourceClosing DEF SucceededInv
<1>7. OneOutcome'
    BY MaxAttemptsAssumption DEF TypeOK, OneOutcome, LoopInv
<1>8. NothingLost'
    BY SourceClosing DEF NothingLost, Stored
<1> QED
    BY <1>1, <1>2, <1>3, <1>4, <1>5, <1>6, <1>7, <1>8

\* The consumer of the dead letter queue.
LEMMA DeadLetterConsumerKeeps ==
    ASSUME ProcessorInv, DeadLetterUsers, ~DeadLetterQueue!Close
    PROVE  ProcessorInv'
<1> USE DEF ProcessorInv, DeadLetterUsers, source, DeadLetterQueue!Start,
       DeadLetterQueue!Acknowledge, DeadLetterQueue!Fail, DeadLetterQueue!Close
<1>1. TypeOK'
  <2>1. dBusy => dHandled + 1 \in 0..Len(dLog)
      BY DEF TypeOK, LoopInv
  <2>2. dLog' = dLog /\ dHandled' \in 0..Len(dLog)
      BY <2>1 DEF TypeOK
  <2>3. dBusy' \in BOOLEAN /\ dOpen' \in BOOLEAN
      BY Zenon DEF TypeOK
  <2> QED
      BY <2>2, <2>3 DEF TypeOK
<1>2. SourceInv'
    BY SourceCapacityAssumption DEF TypeOK, SourceInv
<1>3. LoopInv'
    BY MaxAttemptsAssumption, DeadLetterCapacityAssumption DEF TypeOK, LoopInv
<1>4. PlacedInv'
    BY DEF TypeOK, PlacedInv, SourceInv
<1>5. OrderInv'
    BY DEF OrderInv
<1>6. SucceededInv'
    BY DEF TypeOK, SucceededInv, SourceInv
<1>7. OneOutcome'
    BY MaxAttemptsAssumption DEF TypeOK, OneOutcome, LoopInv
<1>8. NothingLost'
    BY DeadLetterCapacityAssumption DEF TypeOK, NothingLost, Stored, SourceInv
<1> QED
    BY <1>1, <1>2, <1>3, <1>4, <1>5, <1>6, <1>7, <1>8

\* The dead letter queue closes: what was stored stays, a parked record is cut off.
LEMMA DeadLetterShutdownKeeps ==
    ASSUME ProcessorInv, DeadLetterUsers, DeadLetterQueue!Close
    PROVE  ProcessorInv'
<1> USE DEF ProcessorInv, DeadLetterUsers, source
<1>1. TypeOK'
  <2>1. dLog' \in Seq(Record) /\ dHandled' \in 0..Len(dLog')
      BY DeadLetterClosing DEF TypeOK
  <2>2. dBusy' \in BOOLEAN /\ dOpen' \in BOOLEAN
      BY Zenon DEF TypeOK, DeadLetterQueue!Close
  <2> QED
      BY <2>1, <2>2 DEF TypeOK
<1>2. SourceInv'
    BY DEF SourceInv
<1>3. LoopInv'
    BY DeadLetterClosing DEF TypeOK, LoopInv, DeadLetterQueue!Close
<1>4. PlacedInv'
    BY DeadLetterClosing DEF TypeOK, PlacedInv
<1>5. OrderInv'
    BY DeadLetterClosing DEF TypeOK, OrderInv
<1>6. SucceededInv'
    BY DEF SucceededInv
<1>7. OneOutcome'
    BY DeadLetterClosing DEF TypeOK, OneOutcome
<1>8. NothingLost'
  <2> SUFFICES ASSUME NEW i \in 1..sHandled, sLog[i] \notin succeeded
               PROVE  \E j \in 1..Len(dLog') : Stored(j)' /\ dLog'[j].message = sLog[i]
      BY DEF NothingLost
  <2>1. PICK j \in 1..Len(dLog) : Stored(j) /\ dLog[j].message = sLog[i]
      BY DEF NothingLost
  <2>2. j \in 1..Len(dLog') /\ Stored(j)' /\ dLog'[j] = dLog[j]
      BY <2>1, DeadLetterClosing
  <2> QED
      BY <2>1, <2>2
<1> QED
    BY <1>1, <1>2, <1>3, <1>4, <1>5, <1>6, <1>7, <1>8

\* A step that changes nothing.
LEMMA StutterKeeps ==
    ASSUME ProcessorInv, UNCHANGED vars
    PROVE  ProcessorInv'
<1> USE DEF ProcessorInv, vars
<1>1. (TypeOK /\ SourceInv /\ LoopInv)'
    BY DEF TypeOK, SourceInv, LoopInv
<1>2. (PlacedInv /\ SucceededInv)'
    BY DEF PlacedInv, SucceededInv
<1>3. OrderInv'
    BY DEF OrderInv
<1>4. (OneOutcome /\ NothingLost)'
    BY DEF OneOutcome, NothingLost, Stored
<1> QED
    BY <1>1, <1>2, <1>3, <1>4

\* Two empty queues and nothing in hand.
LEMMA InitEstablishes == Init => ProcessorInv
<1> SUFFICES ASSUME Init PROVE ProcessorInv
    OBVIOUS
<1> USE DEF Init, Source!Init, DeadLetterQueue!Init
<1>1. TypeOK
  <2>1. /\ sLog \in Seq(Messages) /\ sHandled \in 0..Len(sLog)
        /\ dLog \in Seq(Record) /\ dHandled \in 0..Len(dLog)
    OBVIOUS
  <2>2. /\ sBusy \in BOOLEAN /\ sOpen \in BOOLEAN
        /\ dBusy \in BOOLEAN /\ dOpen \in BOOLEAN
    OBVIOUS
  <2>3. content \in [Messages -> Content] /\ snapshot \in Content
    BY DEF Content
  <2>4. attempt \in 0..MaxAttempts
    BY MaxAttemptsAssumption
  <2> QED
    BY <2>1, <2>2, <2>3, <2>4 DEF TypeOK
<1>2. SourceInv /\ LoopInv
    BY SourceCapacityAssumption DEF SourceInv, LoopInv
<1>3. PlacedInv /\ OrderInv /\ SucceededInv
    BY DEF PlacedInv, OrderInv, SucceededInv
<1>4. OneOutcome /\ NothingLost
    BY MaxAttemptsAssumption DEF OneOutcome, NothingLost
<1> QED
    BY <1>1, <1>2, <1>3, <1>4 DEF ProcessorInv

\* The invariant is inductive: however process(), the publishers of the source,
\* the consumer of the dead letters and the two shutdowns interleave, every step
\* keeps it.
THEOREM ProcessorInvariant == Spec => []ProcessorInv
<1>1. Init => ProcessorInv
    BY InitEstablishes
<1>2. ProcessorInv /\ [Next]_vars => ProcessorInv'
  <2> SUFFICES ASSUME ProcessorInv, [Next]_vars PROVE ProcessorInv'
    OBVIOUS
  <2>1. CASE Deliver \/ DeliverUnprocessable
    BY <2>1, DeliverKeeps, DeliverUnprocessableKeeps
  <2>2. CASE Process
    <3>1. ASSUME NEW c \in Content, OperationSucceeds(c) PROVE ProcessorInv'
        BY <3>1, OperationSucceedsKeeps
    <3>2. ASSUME NEW c \in Content, OperationFailsAndWaits(c) PROVE ProcessorInv'
        BY <3>2, OperationFailsAndWaitsKeeps
    <3>3. ASSUME NEW c \in Content, NEW k \in Classification, OperationFailsForGood(c, k)
          PROVE  ProcessorInv'
        BY <3>3, OperationFailsForGoodKeeps
    <3> QED
        BY <2>2, <3>1, <3>2, <3>3, RejectionsKeep, DelayEndsKeeps, DeadLetterStoredKeeps
           DEF Process
  <2>3. ASSUME NEW m \in Messages, SourcePublish(m) PROVE ProcessorInv'
    BY <2>3, SourcePublishKeeps
  <2>4. CASE SourceShutdown
    BY <2>4, SourceShutdownKeeps
  <2>5. CASE DeadLetterUsers
    BY <2>5, DeadLetterConsumerKeeps, DeadLetterShutdownKeeps
  <2>6. CASE UNCHANGED vars
    BY <2>6, StutterKeeps
  <2> QED
    BY <2>1, <2>2, <2>3, <2>4, <2>5, <2>6 DEF Next
<1> QED
    BY <1>1, <1>2, PTL DEF Spec

-----------------------------------------------------------------------------

\* The state of the processor and of its two queues stays within its types; every
\* dead letter is a complete record with one to maxAttempts attempts.
THEOREM ProcessorTypes == Spec => []TypeOK
<1>1. ProcessorInv => TypeOK
    BY DEF ProcessorInv
<1> QED
    BY <1>1, ProcessorInvariant, PTL

\* What the source queue no longer holds was processed or is a stored dead letter,
\* whatever the dead letter queue refused, parked or turned away.
THEOREM NothingIsLost == Spec => []NothingLost
<1>1. ProcessorInv => NothingLost
    BY DEF ProcessorInv
<1> QED
    BY <1>1, ProcessorInvariant, PTL

\* Success and dead letter exclude each other, and the attempts stay in their
\* bound.
THEOREM OutcomesExclude == Spec => []OneOutcome
<1>1. ProcessorInv => OneOutcome
    BY DEF ProcessorInv
<1> QED
    BY <1>1, ProcessorInvariant, PTL

\* Dead letters are in source order, one per message, across redeliveries.
THEOREM DeadLettersKeepOrder == Spec => []DeadLettersInOrder
<1>1. ProcessorInv => DeadLettersInOrder
  <2> SUFFICES ASSUME ProcessorInv,
                      NEW i \in 1..Len(dLog), NEW j \in 1..Len(dLog), i < j
               PROVE  Position(dLog[i].message) < Position(dLog[j].message)
    BY DEF DeadLettersInOrder
  <2>1. \A k \in 1..Len(dLog) :
          /\ Position(dLog[k].message) \in 1..Len(sLog)
          /\ sLog[Position(dLog[k].message)] = dLog[k].message
    BY DEF ProcessorInv, PlacedInv, Position
  <2> QED
    BY <2>1 DEF ProcessorInv, OrderInv
<1> QED
    BY <1>1, ProcessorInvariant, PTL

=============================================================================
