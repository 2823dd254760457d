------------------------- MODULE WorkerPoolProofs -------------------------
(***************************************************************************)
(* TLAPS proofs about WorkerPool, for every finite set of submit() calls   *)
(* and every positive concurrency.                                         *)
(***************************************************************************)
EXTENDS WorkerPool, FiniteSetTheorems, SequenceTheorems, TLAPS

\* What is on the stack: a handler starts only inside dispatch(), and so does a
\* finally block that called it.
StackInv ==
    /\ starting /= None => dispatching /\ phase[starting] = "running"
    /\ settling /= None => dispatching /\ phase[settling] \in {"returned", "threw"}

\* A job is submitted once.
SubmittedOnce ==
    /\ \A j \in Jobs : promise[j] = "none" => phase[j] = "none"
    /\ \A i \in 1..Len(submitted) : phase[submitted[i]] /= "none"
    /\ \A i, j \in 1..Len(submitted) : submitted[i] = submitted[j] => i = j

\* The shutdown promise exists exactly when the pool is closed.
ClosingInv ==
    /\ shutdown = "none" <=> acceptingJobs
    /\ shutdown = "resolved" => pendingJobs = <<>> /\ activeWorkers = 0

\* The loop of dispatch() ends only when no job waits or every worker is taken.
NoIdleWorker ==
    ~dispatching => pendingJobs = <<>> \/ activeWorkers = maximumWorkers

\* The inductive invariant.
PoolInv ==
    /\ TypeOK
    /\ StackInv
    /\ CountersAgree
    /\ SubmittedOnce
    /\ StartedInOrder
    /\ NoIdleWorker
    /\ ClosingInv

-----------------------------------------------------------------------------
(* Counting the running jobs.                                              *)

\* The running jobs are finitely many.
LEMMA RunningIsFinite == IsFiniteSet(Running)
<1>1. Running \in SUBSET Jobs
    BY DEF Running
<1> QED
    BY <1>1, JobsAssumption, FS_Subset

\* A job that leaves its handler is counted off.
LEMMA OneStops ==
    ASSUME NEW j \in Jobs, phase[j] = "running", TypeOK,
           NEW v, v /= "running", phase' = [phase EXCEPT ![j] = v]
    PROVE  /\ Cardinality(Running') = Cardinality(Running) - 1
           /\ Cardinality(Running) >= 1
<1>1. Running' = Running \ {j} /\ j \in Running
    BY DEF Running, TypeOK
<1>2. IsFiniteSet(Running)
    BY RunningIsFinite
<1>3. Cardinality(Running \ {j}) = Cardinality(Running) - 1
    BY <1>1, <1>2, FS_RemoveElement
<1>4. Cardinality(Running) \in Nat /\ Cardinality(Running \ {j}) \in Nat
    BY <1>2, FS_RemoveElement, FS_CardinalityType
<1> QED
    BY <1>1, <1>3, <1>4

\* A job whose handler is called is counted in.
LEMMA OneStarts ==
    ASSUME NEW j \in Jobs, phase[j] /= "running", TypeOK,
           phase' = [phase EXCEPT ![j] = "running"]
    PROVE  Cardinality(Running') = Cardinality(Running) + 1
<1>1. Running' = Running \cup {j} /\ j \notin Running
    BY DEF Running, TypeOK
<1>2. IsFiniteSet(Running)
    BY RunningIsFinite
<1> QED
    BY <1>1, <1>2, FS_AddElement

\* No handler runs when no worker is active.
LEMMA NobodyRuns == CountersAgree /\ activeWorkers = 0 => Running = {}
<1>1. IsFiniteSet(Running)
    BY RunningIsFinite
<1> QED
    BY <1>1, FS_EmptySet DEF CountersAgree

\* A phase that changes between two values other than "running" counts nothing.
LEMMA NoneStops ==
    ASSUME NEW j \in Jobs, phase[j] /= "running", TypeOK,
           NEW v, v /= "running", phase' = [phase EXCEPT ![j] = v]
    PROVE  Running' = Running
BY DEF Running, TypeOK

-----------------------------------------------------------------------------
(* The invariant holds initially and every action keeps it.                *)

\* A pool nobody has called satisfies the invariant.
LEMMA InitEstablishes == Init => PoolInv
<1> SUFFICES ASSUME Init PROVE PoolInv
    OBVIOUS
<1>1. activeWorkers \in 0..maximumWorkers /\ successfulJobs \in Nat /\ failedJobs \in Nat
    BY WorkersAssumption DEF Init
<1>2. pendingJobs \in Seq(Jobs) /\ submitted \in Seq(Jobs)
    BY EmptySeq DEF Init
<1>3. acceptingJobs \in BOOLEAN /\ dispatching \in BOOLEAN
    BY DEF Init
<1>4. /\ promise \in [Jobs -> {"none", "pending", "resolved", "rejected",
                               "WORKER_POOL_SHUTDOWN"}]
      /\ phase \in [Jobs -> {"none", "queued", "running", "returned", "threw", "finished"}]
      /\ shutdown \in {"none", "pending", "resolved"}
      /\ starting \in Jobs \cup {None} /\ settling \in Jobs \cup {None}
    BY DEF Init
<1>5. TypeOK
    BY <1>1, <1>2, <1>3, <1>4 DEF TypeOK
<1>6. Running = {}
    BY DEF Init, Running
<1>7. CountersAgree
    BY <1>6, FS_EmptySet DEF Init, CountersAgree
<1>8. StackInv /\ SubmittedOnce /\ NoIdleWorker /\ ClosingInv
    BY DEF Init, StackInv, SubmittedOnce, NoIdleWorker, ClosingInv
<1>9. StartedInOrder
    BY DEF Init, StartedInOrder
<1> QED
    BY <1>5, <1>7, <1>8, <1>9 DEF PoolInv

\* submit() on a closed pool changes one promise.
LEMMA SubmitRefusedKeeps ==
    ASSUME PoolInv, NEW j \in Jobs, SubmitRefused(j)
    PROVE  PoolInv'
<1> USE DEF SubmitRefused, counters
<1>1. TypeOK'
    BY DEF PoolInv, TypeOK
<1>2. StackInv' /\ NoIdleWorker' /\ ClosingInv'
    BY DEF PoolInv, StackInv, NoIdleWorker, ClosingInv
<1>3. CountersAgree'
    BY DEF PoolInv, CountersAgree, Running
<1>4. SubmittedOnce'
    BY DEF PoolInv, TypeOK, SubmittedOnce
<1>5. StartedInOrder'
    BY DEF PoolInv, StartedInOrder
<1> QED
    BY <1>1, <1>2, <1>3, <1>4, <1>5 DEF PoolInv

\* submit() appends one job to the queue and to the history.
LEMMA SubmitKeeps ==
    ASSUME PoolInv, NEW j \in Jobs, Submit(j)
    PROVE  PoolInv'
<1>1. /\ promise[j] = "none" /\ acceptingJobs /\ MayCall
      /\ promise' = [promise EXCEPT ![j] = "pending"]
      /\ phase' = [phase EXCEPT ![j] = "queued"]
      /\ pendingJobs' = Append(pendingJobs, j)
      /\ submitted' = Append(submitted, j)
      /\ dispatching' = TRUE
      /\ UNCHANGED <<acceptingJobs, activeWorkers, successfulJobs, failedJobs, shutdown,
                     starting, settling>>
    BY DEF Submit, counters
<1>2. phase[j] = "none" /\ phase \in [Jobs -> {"none", "queued", "running", "returned", "threw", "finished"}]
    BY <1>1 DEF PoolInv, SubmittedOnce, TypeOK
<1>3. pendingJobs \in Seq(Jobs) /\ submitted \in Seq(Jobs)
    BY DEF PoolInv, TypeOK
<1>4. /\ pendingJobs' \in Seq(Jobs) /\ Len(pendingJobs') = Len(pendingJobs) + 1
      /\ \A i \in 1..Len(pendingJobs) : pendingJobs'[i] = pendingJobs[i]
      /\ pendingJobs'[Len(pendingJobs) + 1] = j
      /\ Len(pendingJobs) \in Nat
    BY <1>1, <1>3, AppendProperties, LenProperties
<1>5. /\ submitted' \in Seq(Jobs) /\ Len(submitted') = Len(submitted) + 1
      /\ \A i \in 1..Len(submitted) : submitted'[i] = submitted[i]
      /\ submitted'[Len(submitted) + 1] = j
      /\ Len(submitted) \in Nat
      /\ \A i \in 1..Len(submitted) : submitted[i] \in Jobs
    BY <1>1, <1>3, AppendProperties, LenProperties, ElementOfSeq
<1>6. TypeOK'
    BY <1>1, <1>4, <1>5 DEF PoolInv, TypeOK
<1>7. StackInv'
    BY <1>1, <1>2 DEF PoolInv, StackInv, TypeOK
<1>8. Running' = Running
    BY <1>1, <1>2, NoneStops DEF PoolInv
<1>9. CountersAgree'
    <2>1. activeWorkers' = Cardinality(Running')
        BY <1>1, <1>8 DEF PoolInv, CountersAgree
    <2>2. activeWorkers \in Nat /\ successfulJobs \in Nat /\ failedJobs \in Nat
        BY WorkersAssumption DEF PoolInv, TypeOK
    <2>3. Len(pendingJobs) + activeWorkers + successfulJobs + failedJobs = Len(submitted)
        BY DEF PoolInv, CountersAgree
    <2>4. /\ activeWorkers' = activeWorkers /\ successfulJobs' = successfulJobs
          /\ failedJobs' = failedJobs
        BY <1>1
    <2>5. Len(pendingJobs') + activeWorkers' + successfulJobs' + failedJobs' = Len(submitted')
        BY <2>2, <2>3, <2>4, <1>4, <1>5
    <2> QED
        BY <2>1, <2>5 DEF CountersAgree
<1>10. \A i \in 1..Len(submitted) : submitted[i] /= j
    BY <1>2 DEF PoolInv, SubmittedOnce
<1>11. SubmittedOnce'
    <2>1. \A k \in Jobs : promise'[k] = "none" => phase'[k] = "none"
        BY <1>1, <1>2 DEF PoolInv, SubmittedOnce, TypeOK
    <2>2. \A i \in 1..Len(submitted') : phase'[submitted'[i]] /= "none"
        BY <1>1, <1>2, <1>5, <1>10 DEF PoolInv, SubmittedOnce
    <2>3. \A i, k \in 1..Len(submitted') : submitted'[i] = submitted'[k] => i = k
        BY <1>5, <1>10 DEF PoolInv, SubmittedOnce
    <2> QED
        BY <2>1, <2>2, <2>3 DEF SubmittedOnce
<1>12. StartedInOrder'
    <2>1. Len(submitted') - Len(pendingJobs') = Len(submitted) - Len(pendingJobs)
        BY <1>4, <1>5
    <2>2. Len(pendingJobs) <= Len(submitted)
        BY <1>4, <1>5 DEF PoolInv, CountersAgree, TypeOK
    <2>3. \A i \in 1..Len(pendingJobs') :
            pendingJobs'[i] = submitted'[Len(submitted') - Len(pendingJobs') + i]
        <3> SUFFICES ASSUME NEW i \in 1..Len(pendingJobs')
                     PROVE  pendingJobs'[i] = submitted'[Len(submitted) - Len(pendingJobs) + i]
            BY <2>1
        <3>1. CASE i = Len(pendingJobs) + 1
            BY <3>1, <1>4, <1>5
        <3>2. CASE i \in 1..Len(pendingJobs)
            <4>1. Len(submitted) - Len(pendingJobs) + i \in 1..Len(submitted)
                BY <3>2, <2>2, <1>4, <1>5
            <4>2. pendingJobs[i] = submitted[Len(submitted) - Len(pendingJobs) + i]
                BY <3>2 DEF PoolInv, StartedInOrder
            <4> QED
                BY <3>2, <4>1, <4>2, <1>4, <1>5
        <3> QED
            BY <3>1, <3>2, <1>4
    <2>4. \A i \in 1..Len(submitted') :
            phase'[submitted'[i]] = "queued" <=> i > Len(submitted') - Len(pendingJobs')
        <3> SUFFICES ASSUME NEW i \in 1..Len(submitted')
                     PROVE  phase'[submitted'[i]] = "queued"
                              <=> i > Len(submitted) - Len(pendingJobs)
            BY <2>1
        <3>1. CASE i = Len(submitted) + 1
            BY <3>1, <1>1, <1>2, <1>4, <1>5, <2>2
        <3>2. CASE i \in 1..Len(submitted)
            <4>1. phase[submitted[i]] = "queued" <=> i > Len(submitted) - Len(pendingJobs)
                BY <3>2 DEF PoolInv, StartedInOrder
            <4>2. phase'[submitted'[i]] = phase[submitted[i]]
                BY <3>2, <1>1, <1>2, <1>5, <1>10
            <4> QED
                BY <4>1, <4>2
        <3> QED
            BY <3>1, <3>2, <1>5
    <2> QED
        BY <2>3, <2>4 DEF StartedInOrder
<1>13. NoIdleWorker' /\ ClosingInv'
    BY <1>1 DEF PoolInv, NoIdleWorker, ClosingInv, TypeOK
<1> QED
    BY <1>6, <1>7, <1>9, <1>11, <1>12, <1>13 DEF PoolInv

\* A job that was started stays ahead of the jobs that wait.
LEMMA OrderKept ==
    ASSUME PoolInv, UNCHANGED <<pendingJobs, submitted>>,
           NEW j \in Jobs, phase[j] \notin {"none", "queued"},
           NEW v, v \notin {"none", "queued"}, phase' = [phase EXCEPT ![j] = v],
           \A k \in Jobs : promise'[k] = "none" => promise[k] = "none"
    PROVE  SubmittedOnce' /\ StartedInOrder'
<1>1. phase \in [Jobs -> {"none", "queued", "running", "returned", "threw", "finished"}]
    BY DEF PoolInv, TypeOK
<1>2. \A k \in Jobs : /\ phase'[k] = "queued" <=> phase[k] = "queued"
                      /\ phase'[k] = "none" <=> phase[k] = "none"
    BY <1>1
<1>3. \A i \in 1..Len(submitted) : submitted[i] \in Jobs
    BY ElementOfSeq DEF PoolInv, TypeOK
<1>4. SubmittedOnce'
    BY <1>2, <1>3 DEF PoolInv, SubmittedOnce
<1>5. StartedInOrder'
    BY <1>2, <1>3 DEF PoolInv, StartedInOrder
<1> QED
    BY <1>4, <1>5

\* The loop of dispatch() calls the handler of the oldest job.
LEMMA DispatchNextKeeps ==
    ASSUME PoolInv, DispatchNext
    PROVE  PoolInv'
<1> DEFINE j == Head(pendingJobs)
<1>1. /\ dispatching /\ starting = None /\ activeWorkers < maximumWorkers
      /\ pendingJobs /= <<>>
      /\ pendingJobs' = Tail(pendingJobs)
      /\ activeWorkers' = activeWorkers + 1
      /\ starting' = j
      /\ phase' = [phase EXCEPT ![j] = "running"]
      /\ UNCHANGED <<acceptingJobs, dispatching, successfulJobs, failedJobs, shutdown,
                     promise, settling, submitted>>
    BY DEF DispatchNext, counters
<1>2. pendingJobs \in Seq(Jobs) /\ submitted \in Seq(Jobs)
    BY DEF PoolInv, TypeOK
<1>3. /\ j \in Jobs
      /\ pendingJobs' \in Seq(Jobs)
      /\ Len(pendingJobs') = Len(pendingJobs) - 1
      /\ \A i \in 1..Len(pendingJobs') : pendingJobs'[i] = pendingJobs[i + 1]
      /\ j = pendingJobs[1]
      /\ Len(pendingJobs) \in Nat /\ Len(pendingJobs) >= 1
      /\ Len(submitted) \in Nat
      /\ \A i \in 1..Len(submitted) : submitted[i] \in Jobs
    BY <1>1, <1>2, HeadTailProperties, LenProperties, ElementOfSeq
<1>4. activeWorkers \in Nat /\ successfulJobs \in Nat /\ failedJobs \in Nat
    BY WorkersAssumption DEF PoolInv, TypeOK
<1>5. Len(pendingJobs) + activeWorkers + successfulJobs + failedJobs = Len(submitted)
    BY DEF PoolInv, CountersAgree
<1> DEFINE n == Len(submitted) - Len(pendingJobs)
<1>6. n \in Nat /\ n + 1 \in 1..Len(submitted)
    BY <1>3, <1>4, <1>5
<1>7. submitted[n + 1] = j
    BY <1>3 DEF PoolInv, StartedInOrder
<1>8. phase[j] = "queued"
    <2>1. phase[submitted[n + 1]] = "queued" <=> n + 1 > n
        BY <1>6 DEF PoolInv, StartedInOrder
    <2> QED
        BY <2>1, <1>6, <1>7
<1>9. phase \in [Jobs -> {"none", "queued", "running", "returned", "threw", "finished"}]
    BY DEF PoolInv, TypeOK
<1> HIDE DEF j
<1>10. TypeOK'
    <2>1. activeWorkers' \in 0..maximumWorkers
        BY <1>1, <1>4, WorkersAssumption
    <2>2. phase' \in [Jobs -> {"none", "queued", "running", "returned", "threw", "finished"}]
        BY <1>1, <1>9
    <2> QED
        BY <2>1, <2>2, <1>1, <1>3 DEF PoolInv, TypeOK
<1>11. StackInv'
    BY <1>1, <1>3, <1>8, <1>9 DEF PoolInv, StackInv, TypeOK
<1>12. CountersAgree'
    <2>1. Cardinality(Running') = Cardinality(Running) + 1
        BY <1>1, <1>3, <1>8, OneStarts DEF PoolInv
    <2>2. activeWorkers' = Cardinality(Running')
        BY <2>1, <1>1 DEF PoolInv, CountersAgree
    <2>3. Len(pendingJobs') + activeWorkers' + successfulJobs' + failedJobs' = Len(submitted')
        BY <1>1, <1>3, <1>4, <1>5
    <2> QED
        BY <2>2, <2>3 DEF CountersAgree
<1>13. SubmittedOnce'
    BY <1>1, <1>3, <1>8, <1>9 DEF PoolInv, SubmittedOnce
<1>14. StartedInOrder'
    <2>1. Len(submitted') - Len(pendingJobs') = n + 1
        BY <1>1, <1>3
    <2>2. \A i \in 1..Len(pendingJobs') : pendingJobs'[i] = submitted'[n + 1 + i]
        <3> SUFFICES ASSUME NEW i \in 1..Len(pendingJobs')
                     PROVE  pendingJobs'[i] = submitted[n + 1 + i]
            BY <1>1
        <3>1. i + 1 \in 1..Len(pendingJobs) /\ n + (i + 1) = n + 1 + i
            BY <1>3, <1>6
        <3>2. pendingJobs[i + 1] = submitted[n + (i + 1)]
            BY <3>1 DEF PoolInv, StartedInOrder
        <3> QED
            BY <3>1, <3>2, <1>3
    <2>3. \A i \in 1..Len(submitted') : phase'[submitted'[i]] = "queued" <=> i > n + 1
        <3> SUFFICES ASSUME NEW i \in 1..Len(submitted)
                     PROVE  phase'[submitted[i]] = "queued" <=> i > n + 1
            BY <1>1
        <3>1. phase[submitted[i]] = "queued" <=> i > n
            BY DEF PoolInv, StartedInOrder
        <3>2. CASE i = n + 1
            BY <3>2, <1>1, <1>3, <1>6, <1>7, <1>9
        <3>3. CASE i /= n + 1
            <4>1. submitted[i] /= j
                BY <3>3, <1>6, <1>7 DEF PoolInv, SubmittedOnce
            <4>2. phase'[submitted[i]] = phase[submitted[i]]
                BY <4>1, <1>1, <1>3, <1>9
            <4> QED
                BY <3>1, <3>3, <4>2, <1>6
        <3> QED
            BY <3>2, <3>3
    <2> QED
        BY <2>1, <2>2, <2>3 DEF StartedInOrder
<1>15. NoIdleWorker'
    BY <1>1 DEF NoIdleWorker
<1>16. ClosingInv'
    BY <1>1 DEF PoolInv, ClosingInv
<1> QED
    BY <1>10, <1>11, <1>12, <1>13, <1>14, <1>15, <1>16 DEF PoolInv

\* A handler that suspends leaves everything but the stack.
LEMMA HandlerSuspendsKeeps ==
    ASSUME PoolInv, HandlerSuspends
    PROVE  PoolInv'
<1> USE DEF HandlerSuspends, counters
<1>1. TypeOK'
    BY DEF PoolInv, TypeOK
<1>2. StackInv' /\ NoIdleWorker' /\ ClosingInv'
    BY DEF PoolInv, StackInv, NoIdleWorker, ClosingInv
<1>3. CountersAgree'
    BY DEF PoolInv, CountersAgree, Running
<1>4. SubmittedOnce' /\ StartedInOrder'
    BY DEF PoolInv, SubmittedOnce, StartedInOrder
<1> QED
    BY <1>1, <1>2, <1>3, <1>4 DEF PoolInv

\* A handler that throws inside the loop gives its worker back.
LEMMA HandlerThrowsKeeps ==
    ASSUME PoolInv, HandlerThrows
    PROVE  PoolInv'
<1> DEFINE j == starting
<1>1. /\ j /= None
      /\ starting' = None
      /\ phase' = [phase EXCEPT ![j] = "finished"]
      /\ promise' = [promise EXCEPT ![j] = "rejected"]
      /\ failedJobs' = failedJobs + 1
      /\ activeWorkers' = activeWorkers - 1
      /\ UNCHANGED <<pendingJobs, acceptingJobs, dispatching, successfulJobs, settling,
                     submitted>>
    BY DEF HandlerThrows
<1>2. shutdown' = IF ~acceptingJobs /\ activeWorkers - 1 = 0 /\ pendingJobs = <<>>
                       /\ shutdown = "pending"
                  THEN "resolved" ELSE shutdown
    BY DEF HandlerThrows, CompleteShutdownWhenIdle
<1>3. j \in Jobs /\ dispatching /\ phase[j] = "running"
    BY <1>1 DEF PoolInv, StackInv, TypeOK
<1>4. /\ phase \in [Jobs -> {"none", "queued", "running", "returned", "threw", "finished"}]
      /\ promise \in [Jobs -> {"none", "pending", "resolved", "rejected",
                               "WORKER_POOL_SHUTDOWN"}]
    BY DEF PoolInv, TypeOK
<1>5. activeWorkers \in Nat /\ activeWorkers <= maximumWorkers
      /\ successfulJobs \in Nat /\ failedJobs \in Nat
    BY WorkersAssumption DEF PoolInv, TypeOK
<1>6. Cardinality(Running') = Cardinality(Running) - 1 /\ Cardinality(Running) >= 1
    BY <1>1, <1>3, OneStops DEF PoolInv
<1>7. activeWorkers = Cardinality(Running)
      /\ Len(pendingJobs) + activeWorkers + successfulJobs + failedJobs = Len(submitted)
    BY DEF PoolInv, CountersAgree
<1> HIDE DEF j
<1>8. TypeOK'
    <2>1. activeWorkers' \in 0..maximumWorkers /\ failedJobs' \in Nat
        BY <1>1, <1>5, <1>6, <1>7, WorkersAssumption
    <2>2. /\ phase' \in [Jobs -> {"none", "queued", "running", "returned", "threw", "finished"}]
          /\ promise' \in [Jobs -> {"none", "pending", "resolved", "rejected",
                                    "WORKER_POOL_SHUTDOWN"}]
        BY <1>1, <1>4
    <2>3. shutdown' \in {"none", "pending", "resolved"}
        BY <1>2 DEF PoolInv, TypeOK
    <2> QED
        BY <2>1, <2>2, <2>3, <1>1 DEF PoolInv, TypeOK
<1>9. StackInv'
    BY <1>1, <1>3, <1>4 DEF PoolInv, StackInv, TypeOK
<1>10. CountersAgree'
    <2>1. Len(pendingJobs) \in Nat
        BY LenProperties DEF PoolInv, TypeOK
    <2>2. Len(pendingJobs') + activeWorkers' + successfulJobs' + failedJobs' = Len(submitted')
        BY <1>1, <1>5, <1>7, <2>1
    <2>3. activeWorkers' = Cardinality(Running')
        BY <1>1, <1>6, <1>7
    <2> QED
        BY <2>2, <2>3 DEF CountersAgree
<1>11. \A k \in Jobs : promise'[k] = "none" => promise[k] = "none"
    BY <1>1, <1>3, <1>4
<1>12. SubmittedOnce' /\ StartedInOrder'
    BY <1>1, <1>3, <1>11, OrderKept
<1>13. NoIdleWorker'
    BY <1>1, <1>3 DEF NoIdleWorker
<1>14. ClosingInv'
    BY <1>1, <1>2, <1>5, <1>6, <1>7 DEF PoolInv, ClosingInv
<1> QED
    BY <1>8, <1>9, <1>10, <1>12, <1>13, <1>14 DEF PoolInv

\* A handler's promise settles: its worker is given back and dispatch() entered.
LEMMA JobSettlesKeeps ==
    ASSUME PoolInv, NEW j \in Jobs, NEW ok \in BOOLEAN, JobSettles(j, ok)
    PROVE  PoolInv'
<1> DEFINE v == IF ok THEN "returned" ELSE "threw"
<1>1. /\ ~dispatching
      /\ phase[j] = "running"
      /\ phase' = [phase EXCEPT ![j] = v]
      /\ activeWorkers' = activeWorkers - 1
      /\ dispatching' = TRUE
      /\ settling' = j
      /\ UNCHANGED <<pendingJobs, acceptingJobs, shutdown, promise, starting, submitted>>
    BY DEF JobSettles
<1>2. v \in {"returned", "threw"}
    OBVIOUS
<1>3. \/ successfulJobs' = successfulJobs + 1 /\ failedJobs' = failedJobs
      \/ successfulJobs' = successfulJobs /\ failedJobs' = failedJobs + 1
    BY DEF JobSettles
<1> HIDE DEF v
<1>4. phase \in [Jobs -> {"none", "queued", "running", "returned", "threw", "finished"}]
    BY DEF PoolInv, TypeOK
<1>5. activeWorkers \in Nat /\ activeWorkers <= maximumWorkers
      /\ successfulJobs \in Nat /\ failedJobs \in Nat
    BY WorkersAssumption DEF PoolInv, TypeOK
<1>6. Cardinality(Running') = Cardinality(Running) - 1 /\ Cardinality(Running) >= 1
    BY <1>1, <1>2, OneStops DEF PoolInv
<1>7. activeWorkers = Cardinality(Running)
      /\ Len(pendingJobs) + activeWorkers + successfulJobs + failedJobs = Len(submitted)
    BY DEF PoolInv, CountersAgree
<1>8. TypeOK'
    <2>1. activeWorkers' \in 0..maximumWorkers
        BY <1>1, <1>5, <1>6, <1>7, WorkersAssumption
    <2>2. successfulJobs' \in Nat /\ failedJobs' \in Nat
        BY <1>3, <1>5
    <2>3. phase' \in [Jobs -> {"none", "queued", "running", "returned", "threw", "finished"}]
        BY <1>1, <1>2, <1>4
    <2> QED
        BY <2>1, <2>2, <2>3, <1>1 DEF PoolInv, TypeOK
<1>9. StackInv'
    BY <1>1, <1>2, <1>4 DEF PoolInv, StackInv, TypeOK
<1>10. CountersAgree'
    <2>1. Len(pendingJobs) \in Nat
        BY LenProperties DEF PoolInv, TypeOK
    <2>2. Len(pendingJobs') + activeWorkers' + successfulJobs' + failedJobs' = Len(submitted')
        BY <1>1, <1>3, <1>5, <1>7, <2>1
    <2>3. activeWorkers' = Cardinality(Running')
        BY <1>1, <1>6, <1>7
    <2> QED
        BY <2>2, <2>3 DEF CountersAgree
<1>11. SubmittedOnce' /\ StartedInOrder'
    BY <1>1, <1>2, OrderKept
<1>12. NoIdleWorker'
    BY <1>1 DEF NoIdleWorker
<1>13. ClosingInv'
    BY <1>1, <1>5, <1>6, <1>7 DEF PoolInv, ClosingInv
<1> QED
    BY <1>8, <1>9, <1>10, <1>11, <1>12, <1>13 DEF PoolInv

\* The loop has ended because the queue is empty or every worker is taken.
LEMMA LoopEndsConserving ==
    ASSUME PoolInv, LoopEnds, UNCHANGED <<pendingJobs, activeWorkers>>
    PROVE  NoIdleWorker'
<1>1. pendingJobs = <<>> \/ activeWorkers >= maximumWorkers
    BY DEF LoopEnds
<1>2. activeWorkers \in 0..maximumWorkers
    BY DEF PoolInv, TypeOK
<1>3. activeWorkers >= maximumWorkers => activeWorkers = maximumWorkers
    BY <1>2, WorkersAssumption
<1> QED
    BY <1>1, <1>3 DEF NoIdleWorker

\* dispatch() returns to submit().
LEMMA ReturnToSubmitKeeps ==
    ASSUME PoolInv, ReturnToSubmit
    PROVE  PoolInv'
<1>1. /\ LoopEnds /\ settling = None /\ starting = None /\ dispatching' = FALSE
      /\ UNCHANGED <<pendingJobs, acceptingJobs, activeWorkers, successfulJobs, failedJobs,
                     shutdown, promise, phase, starting, settling, submitted>>
    BY DEF ReturnToSubmit, LoopEnds, counters
<1>2. TypeOK'
    BY <1>1 DEF PoolInv, TypeOK
<1>3. StackInv' /\ ClosingInv'
    BY <1>1 DEF PoolInv, StackInv, ClosingInv
<1>4. NoIdleWorker'
    BY <1>1, LoopEndsConserving
<1>5. CountersAgree'
    BY <1>1 DEF PoolInv, CountersAgree, Running
<1>6. SubmittedOnce' /\ StartedInOrder'
    BY <1>1 DEF PoolInv, SubmittedOnce, StartedInOrder
<1> QED
    BY <1>2, <1>3, <1>4, <1>5, <1>6 DEF PoolInv

\* dispatch() returns to the finally block, which settles the job's promise.
LEMMA ReturnToJobKeeps ==
    ASSUME PoolInv, ReturnToJob
    PROVE  PoolInv'
<1> DEFINE j == settling
           v == IF phase[j] = "returned" THEN "resolved" ELSE "rejected"
<1>1. /\ LoopEnds /\ j /= None /\ starting = None /\ dispatching' = FALSE
      /\ promise' = [promise EXCEPT ![j] = v]
      /\ phase' = [phase EXCEPT ![j] = "finished"]
      /\ settling' = None
      /\ UNCHANGED <<pendingJobs, acceptingJobs, activeWorkers, successfulJobs, failedJobs,
                     starting, submitted>>
    BY DEF ReturnToJob, LoopEnds, counters
<1>2. shutdown' = IF ~acceptingJobs /\ activeWorkers = 0 /\ pendingJobs = <<>>
                       /\ shutdown = "pending"
                  THEN "resolved" ELSE shutdown
    BY DEF ReturnToJob, CompleteShutdownWhenIdle
<1>3. j \in Jobs /\ phase[j] \in {"returned", "threw"}
    BY <1>1 DEF PoolInv, StackInv, TypeOK
<1>4. v \in {"resolved", "rejected"}
    OBVIOUS
<1> HIDE DEF j, v
<1>5. /\ phase \in [Jobs -> {"none", "queued", "running", "returned", "threw", "finished"}]
      /\ promise \in [Jobs -> {"none", "pending", "resolved", "rejected",
                               "WORKER_POOL_SHUTDOWN"}]
    BY DEF PoolInv, TypeOK
<1>6. TypeOK'
    <2>1. /\ phase' \in [Jobs -> {"none", "queued", "running", "returned", "threw", "finished"}]
          /\ promise' \in [Jobs -> {"none", "pending", "resolved", "rejected",
                                    "WORKER_POOL_SHUTDOWN"}]
        BY <1>1, <1>4, <1>5
    <2>2. shutdown' \in {"none", "pending", "resolved"}
        BY <1>2 DEF PoolInv, TypeOK
    <2> QED
        BY <2>1, <2>2, <1>1 DEF PoolInv, TypeOK
<1>7. StackInv'
    BY <1>1 DEF StackInv
<1>8. Running' = Running
    BY <1>1, <1>3, NoneStops DEF PoolInv
<1>9. CountersAgree'
    BY <1>1, <1>8 DEF PoolInv, CountersAgree
<1>10. \A k \in Jobs : promise'[k] = "none" => promise[k] = "none"
    BY <1>1, <1>4, <1>5
<1>11. SubmittedOnce' /\ StartedInOrder'
    BY <1>1, <1>3, <1>10, OrderKept
<1>12. NoIdleWorker'
    BY <1>1, LoopEndsConserving
<1>13. ClosingInv'
    BY <1>1, <1>2 DEF PoolInv, ClosingInv
<1> QED
    BY <1>6, <1>7, <1>9, <1>11, <1>12, <1>13 DEF PoolInv

\* shutdown() closes the pool and resolves at once if it is idle.
LEMMA ShutdownKeeps ==
    ASSUME PoolInv, Shutdown
    PROVE  PoolInv'
<1>1. /\ acceptingJobs' = FALSE
      /\ UNCHANGED <<pendingJobs, activeWorkers, dispatching, successfulJobs, failedJobs,
                     promise, phase, starting, settling, submitted>>
    BY DEF Shutdown, counters
<1>2. shutdown' = IF shutdown /= "resolved" /\ activeWorkers = 0 /\ pendingJobs = <<>>
                  THEN "resolved"
                  ELSE IF shutdown = "none" THEN "pending" ELSE shutdown
    BY DEF Shutdown
<1>3. shutdown \in {"none", "pending", "resolved"}
    BY DEF PoolInv, TypeOK
<1>4. shutdown' \in {"pending", "resolved"}
    BY <1>2, <1>3
<1>5. TypeOK'
    BY <1>1, <1>4 DEF PoolInv, TypeOK
<1>6. StackInv' /\ NoIdleWorker'
    BY <1>1 DEF PoolInv, StackInv, NoIdleWorker
<1>7. ClosingInv'
    <2>1. shutdown' = "resolved" => pendingJobs = <<>> /\ activeWorkers = 0
        BY <1>2, <1>3 DEF PoolInv, ClosingInv
    <2> QED
        BY <2>1, <1>1, <1>4 DEF ClosingInv
<1>8. CountersAgree'
    BY <1>1 DEF PoolInv, CountersAgree, Running
<1>9. SubmittedOnce' /\ StartedInOrder'
    BY <1>1 DEF PoolInv, SubmittedOnce, StartedInOrder
<1> QED
    BY <1>5, <1>6, <1>7, <1>8, <1>9 DEF PoolInv

\* A step that changes no variable keeps the invariant.
LEMMA StutterKeeps ==
    ASSUME PoolInv, UNCHANGED vars
    PROVE  PoolInv'
BY DEF PoolInv, TypeOK, StackInv, CountersAgree, Running, SubmittedOnce, StartedInOrder,
       NoIdleWorker, ClosingInv, vars

\* The invariant is inductive: whatever submit() and shutdown() calls, settling
\* promises and synchronous handlers interleave, every step keeps it.
THEOREM PoolInvariant == Spec => []PoolInv
<1>1. Init => PoolInv
    BY InitEstablishes
<1>2. PoolInv /\ [Next]_vars => PoolInv'
    <2> SUFFICES ASSUME PoolInv, [Next]_vars PROVE PoolInv'
        OBVIOUS
    <2>1. ASSUME NEW j \in Jobs, Submit(j) PROVE PoolInv'
        BY <2>1, SubmitKeeps
    <2>2. ASSUME NEW j \in Jobs, SubmitRefused(j) PROVE PoolInv'
        BY <2>2, SubmitRefusedKeeps
    <2>3. CASE DispatchNext
        BY <2>3, DispatchNextKeeps
    <2>4. CASE HandlerSuspends
        BY <2>4, HandlerSuspendsKeeps
    <2>5. CASE HandlerThrows
        BY <2>5, HandlerThrowsKeeps
    <2>6. CASE ReturnToSubmit
        BY <2>6, ReturnToSubmitKeeps
    <2>7. CASE ReturnToJob
        BY <2>7, ReturnToJobKeeps
    <2>8. ASSUME NEW j \in Jobs, NEW ok \in BOOLEAN, JobSettles(j, ok) PROVE PoolInv'
        BY <2>8, JobSettlesKeeps
    <2>9. CASE Shutdown
        BY <2>9, ShutdownKeeps
    <2>10. CASE UNCHANGED vars
        BY <2>10, StutterKeeps
    <2> QED
        BY <2>1, <2>2, <2>3, <2>4, <2>5, <2>6, <2>7, <2>8, <2>9, <2>10 DEF Next, Synchronous
<1> QED
    BY <1>1, <1>2, PTL DEF Spec

-----------------------------------------------------------------------------

\* At most maximumWorkers handlers are active, and getMetrics() counts them and
\* every accepted job exactly.
THEOREM CountersAreRight == Spec => [](TypeOK /\ CountersAgree)
<1>1. PoolInv => TypeOK /\ CountersAgree
    BY DEF PoolInv
<1> QED
    BY <1>1, PoolInvariant, PTL

\* Jobs start in the order of submit(), never more than maximumWorkers run, and no
\* worker idles while a job waits.
THEOREM DispatchIsFairToJobs == Spec => [](StartedInOrder /\ WorkConserving)
<1>1. PoolInv => StartedInOrder /\ WorkConserving
    BY DEF PoolInv, TypeOK, CountersAgree, NoIdleWorker, WorkConserving
<1> QED
    BY <1>1, PoolInvariant, PTL

\* The promise of shutdown() resolves only for a closed pool in which no job waits
\* and no handler runs.
THEOREM ShutdownHasDrained == Spec => []ShutdownDrains
<1>1. PoolInv => ShutdownDrains
    <2> SUFFICES ASSUME PoolInv, shutdown = "resolved"
                 PROVE  ~acceptingJobs /\ pendingJobs = <<>> /\ Running = {}
        BY DEF ShutdownDrains
    <2>1. ~acceptingJobs /\ pendingJobs = <<>> /\ activeWorkers = 0
        BY DEF PoolInv, ClosingInv
    <2>2. Running = {}
        BY <2>1, NobodyRuns DEF PoolInv
    <2> QED
        BY <2>1, <2>2
<1> QED
    BY <1>1, PoolInvariant, PTL

===========================================================================
