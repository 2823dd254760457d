---------------------------- MODULE WorkerPool ----------------------------
(***************************************************************************)
(* createWorkerPool of apps/worker/src/worker-pool.js: jobs wait in FIFO   *)
(* order and at most maximumWorkers handlers are active.                   *)
(*                                                                         *)
(* A handler is called from inside the loop of dispatch().  Until it       *)
(* reaches its first await it may call submit() and shutdown(), or throw,  *)
(* with dispatch() still on the stack, so the iterations of the loop are   *)
(* actions of their own; while dispatching is TRUE nothing else can run.   *)
(***************************************************************************)
EXTENDS Naturals, Sequences, FiniteSets

CONSTANTS
    Jobs,            \* one element per submit() call
    maximumWorkers,  \* what resolveWorkerConcurrency() returned
    None             \* no job

ASSUME JobsAssumption == IsFiniteSet(Jobs) /\ None \notin Jobs
ASSUME WorkersAssumption == maximumWorkers \in Nat \ {0}

VARIABLES
    pendingJobs, acceptingJobs, activeWorkers, dispatching,
    successfulJobs, failedJobs,
    shutdown,   \* shutdownPromise: not made, pending, resolved
    promise,    \* what each submit() call returned: pending until it settles
    phase,      \* where each job's processJob() is
    starting,   \* the job whose handler runs its first, synchronous part
    settling,   \* the job whose finally block called dispatch()
    submitted   \* history: the accepted jobs in the order of their submission

counters == <<successfulJobs, failedJobs>>
vars == <<pendingJobs, acceptingJobs, activeWorkers, dispatching, successfulJobs,
          failedJobs, shutdown, promise, phase, starting, settling, submitted>>

Init ==
    /\ pendingJobs = <<>>
    /\ acceptingJobs = TRUE
    /\ activeWorkers = 0
    /\ dispatching = FALSE
    /\ successfulJobs = 0
    /\ failedJobs = 0
    /\ shutdown = "none"
    /\ promise = [j \in Jobs |-> "none"]
    /\ phase = [j \in Jobs |-> "none"]
    /\ starting = None
    /\ settling = None
    /\ submitted = <<>>

-----------------------------------------------------------------------------

\* With a bug: the jobs that wait are not considered.
CompleteWhenNobodyIsActive(accepting, active, pending) ==
    shutdown' = IF ~accepting /\ active = 0 /\ shutdown = "pending"
                THEN "resolved" ELSE shutdown

\* completeShutdownWhenIdle(), with the values the variables have by then.
CompleteShutdownWhenIdle(accepting, active, pending) ==
    shutdown' = IF ~accepting /\ active = 0 /\ pending = <<>> /\ shutdown = "pending"
                THEN "resolved" ELSE shutdown

\* A call comes from the event loop, or from the handler that is starting.
MayCall == dispatching => starting /= None

-----------------------------------------------------------------------------
(* submit(job)                                                             *)

SubmitRefused(j) ==
    /\ MayCall
    /\ promise[j] = "none"
    /\ ~acceptingJobs
    /\ promise' = [promise EXCEPT ![j] = "WORKER_POOL_SHUTDOWN"]
    /\ UNCHANGED <<pendingJobs, acceptingJobs, activeWorkers, dispatching, counters,
                   shutdown, phase, starting, settling, submitted>>

\* dispatch() is entered, or returns at once because it is on the stack.
Submit(j) ==
    /\ MayCall
    /\ promise[j] = "none"
    /\ acceptingJobs
    /\ promise' = [promise EXCEPT ![j] = "pending"]
    /\ phase' = [phase EXCEPT ![j] = "queued"]
    /\ pendingJobs' = Append(pendingJobs, j)
    /\ dispatching' = TRUE
    /\ submitted' = Append(submitted, j)
    /\ UNCHANGED <<acceptingJobs, activeWorkers, counters, shutdown, starting, settling>>

-----------------------------------------------------------------------------
(* dispatch() and processJob(entry)                                        *)

\* With a bug: `<=` in the condition of the loop.
DispatchOneTooMany ==
    /\ dispatching
    /\ starting = None
    /\ activeWorkers <= maximumWorkers
    /\ pendingJobs /= <<>>
    /\ pendingJobs' = Tail(pendingJobs)
    /\ activeWorkers' = activeWorkers + 1
    /\ starting' = Head(pendingJobs)
    /\ phase' = [phase EXCEPT ![Head(pendingJobs)] = "running"]
    /\ UNCHANGED <<acceptingJobs, dispatching, counters, shutdown, promise, settling,
                   submitted>>

\* With a bug: pop() for shift().
DispatchYoungest ==
    LET n == Len(pendingJobs)
    IN  /\ dispatching
        /\ starting = None
        /\ activeWorkers < maximumWorkers
        /\ pendingJobs /= <<>>
        /\ pendingJobs' = SubSeq(pendingJobs, 1, n - 1)
        /\ activeWorkers' = activeWorkers + 1
        /\ starting' = pendingJobs[n]
        /\ phase' = [phase EXCEPT ![pendingJobs[n]] = "running"]
        /\ UNCHANGED <<acceptingJobs, dispatching, counters, shutdown, promise, settling,
                       submitted>>

\* One iteration of the loop up to the call of the handler.
DispatchNext ==
    /\ dispatching
    /\ starting = None
    /\ activeWorkers < maximumWorkers
    /\ pendingJobs /= <<>>
    /\ pendingJobs' = Tail(pendingJobs)
    /\ activeWorkers' = activeWorkers + 1
    /\ starting' = Head(pendingJobs)
    /\ phase' = [phase EXCEPT ![Head(pendingJobs)] = "running"]
    /\ UNCHANGED <<acceptingJobs, dispatching, counters, shutdown, promise, settling,
                   submitted>>

\* The handler has returned its promise; the loop goes on.
HandlerSuspends ==
    /\ starting /= None
    /\ starting' = None
    /\ UNCHANGED <<pendingJobs, acceptingJobs, activeWorkers, dispatching, counters,
                   shutdown, promise, phase, settling, submitted>>

\* With a bug: the worker is only given back after an await.
HandlerThrowsAndLeaks ==
    /\ starting /= None
    /\ starting' = None
    /\ phase' = [phase EXCEPT ![starting] = "finished"]
    /\ promise' = [promise EXCEPT ![starting] = "rejected"]
    /\ failedJobs' = failedJobs + 1
    /\ CompleteShutdownWhenIdle(acceptingJobs, activeWorkers, pendingJobs)
    /\ UNCHANGED <<pendingJobs, acceptingJobs, activeWorkers, dispatching,
                   successfulJobs, settling, submitted>>

\* The handler throws before its first await: the whole of processJob() runs
\* inside the loop, and its own dispatch() returns at once.
HandlerThrows ==
    /\ starting /= None
    /\ starting' = None
    /\ phase' = [phase EXCEPT ![starting] = "finished"]
    /\ promise' = [promise EXCEPT ![starting] = "rejected"]
    /\ failedJobs' = failedJobs + 1
    /\ activeWorkers' = activeWorkers - 1
    /\ CompleteShutdownWhenIdle(acceptingJobs, activeWorkers - 1, pendingJobs)
    /\ UNCHANGED <<pendingJobs, acceptingJobs, dispatching, successfulJobs, settling,
                   submitted>>

\* With a bug: the finally block does not dispatch.
JobSettlesQuietly(j, ok) ==
    /\ ~dispatching
    /\ phase[j] = "running"
    /\ phase' = [phase EXCEPT ![j] = "finished"]
    /\ successfulJobs' = IF ok THEN successfulJobs + 1 ELSE successfulJobs
    /\ failedJobs' = IF ok THEN failedJobs ELSE failedJobs + 1
    /\ activeWorkers' = activeWorkers - 1
    /\ CompleteShutdownWhenIdle(acceptingJobs, activeWorkers - 1, pendingJobs)
    /\ promise' = [promise EXCEPT ![j] = IF ok THEN "resolved" ELSE "rejected"]
    /\ UNCHANGED <<pendingJobs, acceptingJobs, dispatching, starting, settling, submitted>>

\* The handler's promise settles: processJob() resumes up to the dispatch() of
\* its finally block.
JobSettles(j, ok) ==
    /\ ~dispatching
    /\ phase[j] = "running"
    /\ phase' = [phase EXCEPT ![j] = IF ok THEN "returned" ELSE "threw"]
    /\ successfulJobs' = IF ok THEN successfulJobs + 1 ELSE successfulJobs
    /\ failedJobs' = IF ok THEN failedJobs ELSE failedJobs + 1
    /\ activeWorkers' = activeWorkers - 1
    /\ dispatching' = TRUE
    /\ settling' = j
    /\ UNCHANGED <<pendingJobs, acceptingJobs, shutdown, promise, starting, submitted>>

LoopEnds ==
    /\ dispatching
    /\ starting = None
    /\ activeWorkers >= maximumWorkers \/ pendingJobs = <<>>
    /\ dispatching' = FALSE

\* The loop ends and dispatch() returns to submit().
ReturnToSubmit ==
    /\ LoopEnds
    /\ settling = None
    /\ UNCHANGED <<pendingJobs, acceptingJobs, activeWorkers, counters, shutdown,
                   promise, phase, starting, settling, submitted>>

\* With a bug: the finally block does not look at a pending shutdown.
ReturnWithoutShutdown ==
    /\ LoopEnds
    /\ settling /= None
    /\ promise' = [promise EXCEPT ![settling] =
                     IF phase[settling] = "returned" THEN "resolved" ELSE "rejected"]
    /\ phase' = [phase EXCEPT ![settling] = "finished"]
    /\ settling' = None
    /\ UNCHANGED <<pendingJobs, acceptingJobs, activeWorkers, counters, shutdown,
                   starting, submitted>>

\* The loop ends and dispatch() returns to the finally block of processJob().
ReturnToJob ==
    /\ LoopEnds
    /\ settling /= None
    /\ CompleteShutdownWhenIdle(acceptingJobs, activeWorkers, pendingJobs)
    /\ promise' = [promise EXCEPT ![settling] =
                     IF phase[settling] = "returned" THEN "resolved" ELSE "rejected"]
    /\ phase' = [phase EXCEPT ![settling] = "finished"]
    /\ settling' = None
    /\ UNCHANGED <<pendingJobs, acceptingJobs, activeWorkers, counters, starting, submitted>>

-----------------------------------------------------------------------------
(* shutdown()                                                              *)

Shutdown ==
    /\ MayCall
    /\ acceptingJobs' = FALSE
    /\ shutdown' = IF shutdown /= "resolved" /\ activeWorkers = 0 /\ pendingJobs = <<>>
                   THEN "resolved"
                   ELSE IF shutdown = "none" THEN "pending" ELSE shutdown
    /\ UNCHANGED <<pendingJobs, activeWorkers, dispatching, counters, promise, phase,
                   starting, settling, submitted>>

-----------------------------------------------------------------------------

\* The loop of dispatch() and the handlers it calls, to the end of the stack.
Synchronous == DispatchNext \/ HandlerSuspends \/ HandlerThrows \/ ReturnToSubmit \/ ReturnToJob

Next ==
    \/ \E j \in Jobs : Submit(j) \/ SubmitRefused(j)
    \/ Synchronous
    \/ \E j \in Jobs, ok \in BOOLEAN : JobSettles(j, ok)
    \/ Shutdown

Spec == Init /\ [][Next]_vars

\* A synchronous segment runs to its end, and the promises of handlers settle.
Fairness ==
    /\ WF_vars(Synchronous)
    /\ \A j \in Jobs : WF_vars(\E ok \in BOOLEAN : JobSettles(j, ok))

FairSpec == Spec /\ Fairness

-----------------------------------------------------------------------------

Running == {j \in Jobs : phase[j] = "running"}

TypeOK ==
    /\ pendingJobs \in Seq(Jobs)
    /\ acceptingJobs \in BOOLEAN
    /\ activeWorkers \in 0..maximumWorkers
    /\ dispatching \in BOOLEAN
    /\ successfulJobs \in Nat
    /\ failedJobs \in Nat
    /\ shutdown \in {"none", "pending", "resolved"}
    /\ promise \in [Jobs -> {"none", "pending", "resolved", "rejected",
                             "WORKER_POOL_SHUTDOWN"}]
    /\ phase \in [Jobs -> {"none", "queued", "running", "returned", "threw", "finished"}]
    /\ starting \in Jobs \cup {None}
    /\ settling \in Jobs \cup {None}
    /\ submitted \in Seq(Jobs)

\* The counters getMetrics() reports agree with the jobs: one active worker per
\* running handler, and every accepted job waits, is active or is completed.  A
\* handler that throws inside the dispatch loop gives its worker back like any
\* other.
CountersAgree ==
    /\ activeWorkers = Cardinality(Running)
    /\ Len(pendingJobs) + activeWorkers + successfulJobs + failedJobs = Len(submitted)

\* Never more than maximumWorkers handlers run, also in the middle of a dispatch()
\* that handlers re-enter, and no worker idles while jobs wait: when the stack is
\* empty the queue is empty or every worker is taken, although dispatch() refuses
\* to be entered twice.
WorkConserving ==
    /\ Cardinality(Running) <= maximumWorkers
    /\ ~dispatching => pendingJobs = <<>> \/ Cardinality(Running) = maximumWorkers

\* Jobs are started in the order of their submission, also those that a handler
\* submits while dispatch() is looping: the jobs that still wait are the last
\* ones accepted, and every job before them has been started.
StartedInOrder ==
    LET begun == Len(submitted) - Len(pendingJobs)
    IN  /\ \A i \in 1..Len(pendingJobs) : pendingJobs[i] = submitted[begun + i]
        /\ \A i \in 1..Len(submitted) : phase[submitted[i]] = "queued" <=> i > begun

\* The shutdown promise resolves only when every accepted job has run to its end,
\* and no job starts after it: the caller may release what handlers use.
ShutdownDrains ==
    shutdown = "resolved" =>
        /\ ~acceptingJobs
        /\ pendingJobs = <<>>
        /\ Running = {}

\* Every accepted job is answered, before or after a shutdown began.
EveryJobSettles ==
    \A j \in Jobs : promise[j] = "pending" ~> promise[j] \in {"resolved", "rejected"}

\* A shutdown always ends.
ShutdownResolves == ~acceptingJobs ~> shutdown = "resolved"

===========================================================================
