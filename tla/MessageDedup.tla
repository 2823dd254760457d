--------------------------- MODULE MessageDedup ---------------------------
(***************************************************************************)
(* The three ways in which apps/worker keeps a message that is delivered   *)
(* more than once from taking effect more than once, each behind           *)
(* createObservedMessageHandler:                                           *)
(*   postgres  createIdempotentMessageProcessor: the marker row and the    *)
(*             handler's writes are one transaction;                       *)
(*   redis     createRedisProcessedMessageStore: SET NX EX, then the work  *)
(*             of the caller;                                              *)
(*   memory    createOrderCreatedAnalyticsConsumer: a set in the process   *)
(*             around the write to a sink.                                 *)
(* The transport, which src/ does not have yet, delivers a message to any  *)
(* worker at any time, also while another works on it, until a delivery    *)
(* was answered PROCESSED or DUPLICATE (docs/architecture/deduplication.md)*)
(***************************************************************************)
EXTENDS Naturals, FiniteSets, Totals

CONSTANTS
    Messages, Workers,
    Malformed,        \* the messages that are no ORDER_CREATED events
    MaxFaults,        \* bound on failures, expiries and crashes of a behaviour
    None

ASSUME MessagesAssumption == IsFiniteSet(Messages)
ASSUME NoneAssumption == None \notin Messages \cup Workers
ASSUME WorkersAssumption ==
    /\ IsFiniteSet(Workers)
    /\ {"lost", "committing"} \cap (Workers \cup {None}) = {}
ASSUME BoundAssumption == MaxFaults \in Nat

VARIABLES
    store,      \* which of the three it is
    claims,     \* rows of processed_messages, keys in Redis, claimedMessageIds
    holder,     \* whose open transaction has inserted the marker row of a message:
                \* a worker, or a session that lost its client ("lost", or
                \* "committing" when COMMIT may have reached the server)
    effects,    \* how often the effect of a message was made visible
    excuses,    \* history: the events after which a repetition is documented
    hidden,     \* history: how often a handler hid a failed statement
    acked,      \* what the transport has stopped to deliver
    message, pc, result,   \* of each worker
    faults,
    counters, durations, operation, due

delivery == <<message, pc, result, acked>>
telemetry == <<counters, durations, operation, due>>
vars == <<store, claims, holder, effects, excuses, hidden, delivery, faults, telemetry>>

Telemetry == INSTANCE Observability WITH Operations <- Workers

Init ==
    /\ store \in {"postgres", "redis", "memory"}
    /\ claims = {}
    /\ holder = [m \in Messages |-> None]
    /\ effects = [m \in Messages |-> 0]
    /\ excuses = [m \in Messages |-> 0]
    /\ hidden = [m \in Messages |-> 0]
    /\ acked = {}
    /\ message = [w \in Workers |-> None]
    /\ pc = [w \in Workers |-> "idle"]
    /\ result = [w \in Workers |-> None]
    /\ faults = 0
    /\ Telemetry!Init

-----------------------------------------------------------------------------
(* The observed handler around every delivery.                             *)

Fault == faults < MaxFaults /\ faults' = faults + 1

Goto(w, label) == pc' = [pc EXCEPT ![w] = label] /\ UNCHANGED <<message, result, acked>>

\* A worker is handed a message.  Telemetry that cannot start is done without.
Receive(w, m) ==
    /\ pc[w] = "idle"
    /\ m \notin acked
    /\ message' = [message EXCEPT ![w] = m]
    /\ pc' = [pc EXCEPT ![w] = "claim"]
    /\ Telemetry!startOperation(w) \/ Telemetry!StartFails(w)
    /\ UNCHANGED <<store, claims, holder, effects, excuses, hidden, acked, result, faults>>

\* With a bug: a failed delivery is reported as completed.
CountsFailureAsCompleted(status) ==
    {IF status = "DUPLICATE" THEN "deduplication_count" ELSE "orders_completed_total"}

Counter(status) ==
    {CASE status = "DUPLICATE" -> "deduplication_count"
       [] status = "PROCESSED" -> "orders_completed_total"
       [] status = "FAILED" -> "orders_failed_total"}

\* The handler resolves or rejects (FAILED), is observed, and the outcome goes to
\* the transport whether or not it could be observed.  The analytics consumer
\* says RECORDED for PROCESSED.
Answer(w, status) ==
    /\ acked' = IF status = "FAILED" THEN acked ELSE acked \cup {message[w]}
    /\ message' = [message EXCEPT ![w] = None]
    /\ pc' = [pc EXCEPT ![w] = "idle"]
    /\ result' = [result EXCEPT ![w] = None]
    /\ Telemetry!finish(w, Counter(status)) \/ Telemetry!FinishFails(w, Counter(status))

Count(f, m) == [f EXCEPT ![m] = @ + 1]

-----------------------------------------------------------------------------
(* createIdempotentMessageProcessor                                        *)

\* The operation of withTransaction is over; COMMIT is sent.
ToCommit(w, status) ==
    /\ pc' = [pc EXCEPT ![w] = "commit"]
    /\ result' = [result EXCEPT ![w] = status]
    /\ UNCHANGED <<message, acked>>

\* With a bug: a marker that is not committed counts as a duplicate already.
TryCreateWithoutWaiting(w) ==
    /\ store = "postgres"
    /\ pc[w] = "claim"
    /\ IF message[w] \in claims \/ holder[message[w]] /= None
       THEN ToCommit(w, "DUPLICATE") /\ UNCHANGED holder
       ELSE Goto(w, "handle") /\ holder' = [holder EXCEPT ![message[w]] = w]
    /\ UNCHANGED <<store, claims, effects, excuses, hidden, faults, telemetry>>

\* INSERT ... ON CONFLICT DO NOTHING waits for a transaction that has inserted
\* the same identifier and returns no row if that one commits.
TryCreate(w) ==
    /\ store = "postgres"
    /\ pc[w] = "claim"
    /\ holder[message[w]] = None
    /\ IF message[w] \in claims
       THEN ToCommit(w, "DUPLICATE") /\ UNCHANGED holder
       ELSE Goto(w, "handle") /\ holder' = [holder EXCEPT ![message[w]] = w]
    /\ UNCHANGED <<store, claims, effects, excuses, hidden, faults, telemetry>>

HandlerResolves(w) ==
    /\ store = "postgres"
    /\ pc[w] = "handle"
    /\ ToCommit(w, "PROCESSED")
    /\ UNCHANGED <<store, claims, holder, effects, excuses, hidden, faults, telemetry>>

\* A statement of the handler fails, which ends the transaction at the server,
\* and the handler resolves all the same.
HandlerSwallows(w) ==
    /\ store = "postgres"
    /\ pc[w] = "handle"
    /\ Fault
    /\ ToCommit(w, "PROCESSED")
    /\ holder' = [holder EXCEPT ![message[w]] = None]
    /\ hidden' = Count(hidden, message[w])
    /\ UNCHANGED <<store, claims, effects, excuses, telemetry>>

HandlerRejects(w) ==
    /\ store = "postgres"
    /\ pc[w] = "handle"
    /\ Fault
    /\ Goto(w, "rollback")
    /\ UNCHANGED <<store, claims, holder, effects, excuses, hidden, telemetry>>

\* With a bug: the client goes back to the pool in its open transaction.
RollbackForgotten(w) ==
    /\ pc[w] = "rollback"
    /\ Answer(w, "FAILED")
    /\ UNCHANGED <<store, claims, holder, effects, excuses, hidden, faults>>

Rollback(w) ==
    /\ pc[w] = "rollback"
    /\ holder' = [holder EXCEPT ![message[w]] = None]
    /\ Answer(w, "FAILED")
    /\ UNCHANGED <<store, claims, effects, excuses, hidden, faults>>

\* With a bug: the effect becomes visible without the marker.
MakeVisibleWithoutMarker(m) ==
    /\ effects' = Count(effects, m)
    /\ holder' = [holder EXCEPT ![m] = None]
    /\ UNCHANGED claims

\* Marker and effect become visible.
MakeVisible(m) ==
    /\ claims' = claims \cup {m}
    /\ effects' = Count(effects, m)
    /\ holder' = [holder EXCEPT ![m] = None]

\* The result is returned whatever COMMIT did: in a failed transaction it rolls
\* back and reports no error.
Commit(w) ==
    /\ pc[w] = "commit"
    /\ IF holder[message[w]] = w THEN MakeVisible(message[w])
                                 ELSE UNCHANGED <<claims, effects, holder>>
    /\ Answer(w, result[w])
    /\ UNCHANGED <<store, excuses, hidden, faults>>

\* What is left of the transactions of the workers in ws when their clients are
\* gone.
Orphaned(ws) ==
    holder' = [m \in Messages |->
                 IF holder[m] \notin ws THEN holder[m]
                 ELSE IF pc[holder[m]] = "commit" THEN "committing" ELSE "lost"]

ConnectionLost(w) ==
    /\ store = "postgres"
    /\ pc[w] /= "idle"
    /\ Fault
    /\ Orphaned({w})
    /\ Answer(w, "FAILED")
    /\ UNCHANGED <<store, claims, effects, excuses, hidden>>

ServerAborts(m) ==
    /\ holder[m] \in {"lost", "committing"}
    /\ holder' = [holder EXCEPT ![m] = None]
    /\ UNCHANGED <<store, claims, effects, excuses, hidden, delivery, faults, telemetry>>

ServerCommits(m) ==
    /\ holder[m] = "committing"
    /\ MakeVisible(m)
    /\ UNCHANGED <<store, excuses, hidden, delivery, faults, telemetry>>

-----------------------------------------------------------------------------
(* createRedisProcessedMessageStore and createOrderCreatedAnalyticsConsumer*)

\* tryClaim, or the test and the add of claimedMessageIds.
Claim(w) ==
    /\ store /= "postgres"
    /\ pc[w] = "claim"
    /\ store = "memory" => message[w] \notin Malformed
    /\ IF message[w] \in claims
       THEN Answer(w, "DUPLICATE") /\ UNCHANGED claims
       ELSE /\ claims' = claims \cup {message[w]}
            /\ Goto(w, "handle")
            /\ UNCHANGED telemetry
    /\ UNCHANGED <<store, holder, effects, excuses, hidden, faults>>

\* isValidEvent is false.  Such an event is refused at every delivery; MaxFaults
\* bounds how often it is.
InvalidEvent(w) ==
    /\ store = "memory"
    /\ pc[w] = "claim"
    /\ message[w] \in Malformed
    /\ Fault
    /\ Answer(w, "FAILED")
    /\ UNCHANGED <<store, claims, holder, effects, excuses, hidden>>

\* SET fails and may have been carried out.
ClaimFails(w) ==
    /\ store = "redis"
    /\ pc[w] = "claim"
    /\ Fault
    /\ claims' \in {claims, claims \cup {message[w]}}
    /\ Answer(w, "FAILED")
    /\ UNCHANGED <<store, holder, effects, excuses, hidden>>

\* The work of the caller, or writeRecord, is done.
EffectSucceeds(w) ==
    /\ store /= "postgres"
    /\ pc[w] = "handle"
    /\ effects' = Count(effects, message[w])
    /\ Answer(w, "PROCESSED")
    /\ UNCHANGED <<store, claims, holder, excuses, hidden, faults>>

\* With a bug: the claim is kept when the sink rejects.
ClaimKeptOnFailure(w, done) ==
    /\ store /= "postgres"
    /\ pc[w] = "handle"
    /\ Fault
    /\ effects' = IF done THEN Count(effects, message[w]) ELSE effects
    /\ Answer(w, "FAILED")
    /\ UNCHANGED <<store, claims, holder, excuses, hidden>>

\* It fails, possibly after the effect was made.  The analytics consumer gives
\* its claim up; a claim in Redis can only expire.
EffectFails(w, done) ==
    /\ store /= "postgres"
    /\ pc[w] = "handle"
    /\ Fault
    /\ effects' = IF done THEN Count(effects, message[w]) ELSE effects
    /\ claims' = IF store = "memory" THEN claims \ {message[w]} ELSE claims
    /\ excuses' = IF store = "memory" /\ done THEN Count(excuses, message[w]) ELSE excuses
    /\ Answer(w, "FAILED")
    /\ UNCHANGED <<store, holder, hidden>>

\* The TTL of a claim runs out.
Expire(m) ==
    /\ store = "redis"
    /\ m \in claims
    /\ Fault
    /\ claims' = claims \ {m}
    /\ excuses' = Count(excuses, m)
    /\ UNCHANGED <<store, holder, effects, hidden, delivery, telemetry>>

-----------------------------------------------------------------------------

\* The process of the workers dies and starts again.  A write to the sink that
\* was on its way may have arrived (late).
Crash(late) ==
    /\ Fault
    /\ late \subseteq {w \in Workers : store /= "postgres" /\ pc[w] = "handle"}
    /\ effects' = [m \in Messages |->
                     effects[m] + Cardinality({w \in late : message[w] = m})]
    /\ Orphaned(Workers)
    /\ claims' = IF store = "memory" THEN {} ELSE claims
    /\ excuses' = [m \in Messages |->
                     excuses[m] + (IF store = "memory" /\ m \in claims THEN 1 ELSE 0)]
    /\ message' = [w \in Workers |-> None]
    /\ pc' = [w \in Workers |-> "idle"]
    /\ result' = [w \in Workers |-> None]
    /\ Telemetry!Reset
    /\ UNCHANGED <<store, hidden, acked>>

Work(w) ==
    \/ TryCreate(w) \/ HandlerResolves(w) \/ Rollback(w) \/ Commit(w)
    \/ Claim(w) \/ EffectSucceeds(w)

Fails(w) ==
    \/ HandlerRejects(w) \/ HandlerSwallows(w) \/ ConnectionLost(w)
    \/ InvalidEvent(w) \/ ClaimFails(w)
    \/ \E done \in BOOLEAN : EffectFails(w, done)

Next ==
    \/ \E w \in Workers, m \in Messages : Receive(w, m)
    \/ \E w \in Workers : Work(w) \/ Fails(w)
    \/ \E m \in Messages : ServerAborts(m) \/ ServerCommits(m) \/ Expire(m)
    \/ \E late \in SUBSET Workers : Crash(late)

Spec == Init /\ [][Next]_vars

\* Workers go on, a lost session ends, and the transport delivers again what was
\* not acknowledged.
FairSpec ==
    /\ Spec
    /\ \A w \in Workers : WF_vars(Work(w))
    /\ \A m \in Messages :
         /\ WF_vars(ServerAborts(m))
         /\ WF_vars(\E w \in Workers : Receive(w, m))

-----------------------------------------------------------------------------

\* A message takes effect once, however often it is delivered and wherever
\* workers, connections and the process fail.  Only what the guides name allows
\* one repetition each: an expired Redis claim, a sink that fails after its
\* write, a restart that empties claimedMessageIds.  PostgreSQL has no such case.
NoUnexplainedRepeat == \A m \in Messages : effects[m] <= 1 + excuses[m]

\* The transport acknowledges PROCESSED and DUPLICATE: with the PostgreSQL
\* processor both mean that marker and effect are committed, also for a duplicate
\* that arrived while the first delivery was still at work and might have failed.
\* Only a handler that hides a failed statement can make it untrue.
AcknowledgedMeansCommitted ==
    store = "postgres" =>
        \A m \in acked : hidden[m] > 0 \/ (m \in claims /\ effects[m] = 1)

\* The deduplication guide: "The winning delivery invokes the handler and commits
\* its marker only after the handler succeeds".  The handler's promise is what
\* createIdempotentMessageProcessor takes for success, and the answer of COMMIT
\* is not looked at.
ProcessedMeansCommitted ==
    store = "postgres" => \A m \in acked : m \in claims /\ effects[m] = 1

\* A claim without an effect belongs to a delivery that is still at work: when
\* the deliveries have failed nothing keeps the message from being processed.  (A
\* Redis claim is left to its expiry.)
ClaimBacked ==
    store /= "redis" =>
        \A m \in claims : effects[m] > 0 \/ \E w \in Workers : message[w] = m /\ pc[w] = "handle"

Sum(f) == Total(f, DOMAIN f)

\* The deliveries under way whose operation was started.
Observed == {w \in Workers : pc[w] /= "idle" /\ operation[w] = "open"}

\* orders_completed_total never claims more than was made visible (or hidden by a
\* handler), and no duration is observed without an outcome, with clocks that fail
\* in startOperation or in the middle of finish.  Nothing is counted twice or left
\* out either: an operation that was started is under way or was counted once,
\* however its delivery ended, unless finish threw before it counted.
MetricsTruthful ==
    /\ counters["orders_completed_total"] <= Sum(effects) + Sum(hidden)
    /\ durations <= Sum(counters)
    /\ Sum(counters) + Cardinality(Observed) = due

\* With PostgreSQL a message that is delivered again after failures takes effect
\* in the end: no failure leaves a marker row behind that blocks it.
EveryMessageTakesEffect ==
    \A m \in Messages : store = "postgres" ~> effects[m] = 1 \/ hidden[m] > 0

===========================================================================
