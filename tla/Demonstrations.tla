-------------------------- MODULE Demonstrations --------------------------
(***************************************************************************)
(* The demonstrations that keep all their state in one object, each on its *)
(* own: a behaviour picks one of them and the others stay as they began.   *)
(***************************************************************************)
EXTENDS LeaderElection

CONSTANTS
    Owners, InvalidTtl, Quantity, InitialStock, MaxLeases, MaxLockFaults, NoLease,
    Orders, Statuses, Copies, Sessions, MaxWrites, Absent

ASSUME LockAssumption ==
    /\ Quantity \in Nat /\ InitialStock \in Nat
    /\ NoLease \notin Owners \X Nat
ASSUME ProjectionsAssumption ==
    /\ Absent \notin [id : Orders, status : Statuses, version : Nat]
    /\ Absent \notin [orderId : Orders, minimumVersion : Nat]

VARIABLES
    demonstration,
    key, lease, at, tokens, inventory, read, sold, overrun, intruded, lockFaults,
    source, copy, pending, token, log,
    semantics, lossy, stage, qLog, qHandled, qBusy, qOpen, deliveryAttempts,
    handlerInvocations, effectApplications, duplicatesSkipped, processed

Lock == INSTANCE RedisLock
Projections == INSTANCE OrderProjections
Messaging == INSTANCE MessagingSemantics

lockVars == <<key, lease, at, tokens, inventory, read, sold, overrun, intruded, lockFaults>>
projectionVars == <<source, copy, pending, token, log>>
messagingVars == <<semantics, lossy, stage, qLog, qHandled, qBusy, qOpen, deliveryAttempts,
                   handlerInvocations, effectApplications, duplicatesSkipped, processed>>
vars == <<demonstration, electionVars, lockVars, projectionVars, messagingVars>>

Init ==
    /\ demonstration \in {"election", "lock", "projections", "messaging"}
    /\ ElectionInit
    /\ Lock!Init
    /\ Projections!Init
    /\ Messaging!Init
    /\ demonstration /= "messaging" => semantics = "at most once" /\ ~lossy

Elect ==
    /\ demonstration = "election"
    /\ ElectionNext
    /\ UNCHANGED <<demonstration, lockVars, projectionVars, messagingVars>>

UseLock ==
    /\ demonstration = "lock"
    /\ Lock!Next
    /\ UNCHANGED <<demonstration, electionVars, projectionVars, messagingVars>>

Project ==
    /\ demonstration = "projections"
    /\ Projections!Next
    /\ UNCHANGED <<demonstration, electionVars, lockVars, messagingVars>>

Simulate ==
    /\ demonstration = "messaging"
    /\ Messaging!Next
    /\ UNCHANGED <<demonstration, electionVars, lockVars, projectionVars>>

Next == Elect \/ UseLock \/ Project \/ Simulate

Spec == Init /\ [][Next]_vars

\* The event loop goes on with a messaging simulation until it returns; the calls
\* of the others are up to their users.
FairSpec == Spec /\ WF_vars(Simulate)

-----------------------------------------------------------------------------

\* The Redis lock makes the unsafe reservation exact while nobody overruns its TTL.
ExactWithinLease == Lock!ExactWithinLease

\* The stored token of a lease means that the lease was exclusive so far.
OwnTokenMeansExclusive == Lock!OwnTokenMeansExclusive

\* Replicas and read model are prefixes of the writes.
CopiesArePrefixes == Projections!CopiesArePrefixes

\* A session reads its own writes, however far the read model lags.
ReadsOwnWrites == Projections!ReadsOwnWrites

\* Every messaging simulation returns with the documented counts and leaves its
\* queue closed and quiet, whether shutdown() or the consumer is first.
SimulationsReturn == demonstration = "messaging" ~> [](Messaging!ReturnsAsDocumented)

============================================================================
