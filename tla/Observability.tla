--------------------------- MODULE Observability ---------------------------
(***************************************************************************)
(* The metrics registry and the operations of packages/observability.  A   *)
(* module that uses them says when it starts and finishes an operation.    *)
(* Contexts, durations and log records are left out; what a clock that     *)
(* throws or returns no number does to the registry is not.                *)
(***************************************************************************)
EXTENDS Naturals

CONSTANTS Operations   \* who holds what startOperation returned

VARIABLES
    counters,
    durations,   \* durationCount: how often processing_duration was observed
    operation,   \* "none", "open", "finished"
    due          \* history: the operations that were started, less those whose
                 \* finish threw before it counted

counterNames == {"orders_created_total", "orders_completed_total", "orders_failed_total",
                 "retry_count", "deduplication_count", "concurrency_conflicts"}

Init ==
    /\ counters = [c \in counterNames |-> 0]
    /\ durations = 0
    /\ operation = [o \in Operations |-> "none"]
    /\ due = 0

Increment(names) ==
    counters' = [c \in counterNames |-> counters[c] + (IF c \in names THEN 1 ELSE 0)]

startOperation(o) ==
    /\ operation' = [operation EXCEPT ![o] = "open"]
    /\ due' = due + 1
    /\ UNCHANGED <<counters, durations>>

\* The monotonic clock throws: there is no operation to finish.
StartFails(o) ==
    /\ operation' = [operation EXCEPT ![o] = "none"]
    /\ UNCHANGED <<counters, durations, due>>

\* complete() and fail() with their list of counters: the first call counts.
finish(o, names) ==
    IF operation[o] = "open"
    THEN /\ Increment(names)
         /\ durations' = durations + 1
         /\ operation' = [operation EXCEPT ![o] = "finished"]
         /\ UNCHANGED due
    ELSE UNCHANGED <<counters, durations, operation, due>>

\* finish throws: at the monotonic clock, in observe() because the clock returned
\* no finite number, or at the wall clock.  What was counted before stays counted
\* and the operation stays open.
FinishFails(o, names) ==
    /\ operation[o] = "open"
    /\ \/ UNCHANGED <<counters, durations>> /\ due' = due - 1
       \/ Increment(names) /\ UNCHANGED <<durations, due>>
       \/ Increment(names) /\ durations' = durations + 1 /\ UNCHANGED due
    /\ UNCHANGED operation

\* The process ends: registry and operations live in memory.
Reset ==
    /\ counters' = [c \in counterNames |-> 0]
    /\ durations' = 0
    /\ operation' = [o \in Operations |-> "none"]
    /\ due' = 0

============================================================================
