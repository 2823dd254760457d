-------------------------- MODULE LeaderElection --------------------------
(***************************************************************************)
(* createLeaderElectionSimulation of packages/concurrency: an ordered list *)
(* of workers, the first that has not failed leads until it was silent for *)
(* heartbeatTimeoutMs.  The calls are synchronous; between them the clock  *)
(* that was injected moves, by as much as it likes and also back: the code *)
(* asks only that it returns finite numbers.                               *)
(***************************************************************************)
EXTENDS Integers, Sequences, FiniteSets

CONSTANTS
    configuredWorkers,   \* the sequence of the options
    Strangers,           \* IDs that are not configured
    heartbeatTimeoutMs,
    MaxTime,             \* bound on the clock
    Nobody               \* null

Known == {configuredWorkers[i] : i \in DOMAIN configuredWorkers}

ASSUME WorkersAssumption ==
    /\ configuredWorkers \in Seq(Known)
    /\ Len(configuredWorkers) >= 2
    /\ \A i, j \in DOMAIN configuredWorkers : configuredWorkers[i] = configuredWorkers[j] => i = j
    /\ \A i \in DOMAIN configuredWorkers : configuredWorkers[i] \notin Strangers \cup {Nobody}
ASSUME TimeAssumption == heartbeatTimeoutMs \in Nat \ {0} /\ MaxTime \in Nat

VARIABLES
    clock,             \* what now() returns
    leaderId, lastHeartbeatAt, failedWorkers,
    terms              \* history: the leaders, in the order they were elected

electionVars == <<clock, leaderId, lastHeartbeatAt, failedWorkers, terms>>

ElectionInit ==
    /\ clock = 0
    /\ leaderId = Nobody
    /\ lastHeartbeatAt = Nobody
    /\ failedWorkers = {}
    /\ terms = <<>>

-----------------------------------------------------------------------------

\* With a bug: the next leader is the first configured worker that does not lead.
FirstOther(failed) ==
    LET healthy == {i \in DOMAIN configuredWorkers : configuredWorkers[i] /= leaderId}
    IN  IF healthy = {} THEN Nobody
        ELSE configuredWorkers[CHOOSE i \in healthy : \A j \in healthy : i <= j]

\* configuredWorkers.find(...) ?? null
FirstHealthy(failed) ==
    LET healthy == {i \in DOMAIN configuredWorkers : configuredWorkers[i] \notin failed}
    IN  IF healthy = {} THEN Nobody
        ELSE configuredWorkers[CHOOSE i \in healthy : \A j \in healthy : i <= j]

\* electLeaderAt when nobody leads, with the workers that have failed by then.
electLeaderAt(failed) ==
    /\ leaderId' = FirstHealthy(failed)
    /\ lastHeartbeatAt' = IF leaderId' = Nobody THEN Nobody ELSE clock
    /\ terms' = IF leaderId' = Nobody THEN terms ELSE Append(terms, leaderId')

replaceExpiredLeader ==
    /\ failedWorkers' = failedWorkers \cup {leaderId}
    /\ electLeaderAt(failedWorkers')

Expired == leaderId /= Nobody /\ clock - lastHeartbeatAt >= heartbeatTimeoutMs

\* electLeader(), or checkLeader() without a leader.  (With a leader electLeader()
\* returns it and changes nothing, also when it has expired.)
ElectLeader ==
    /\ leaderId = Nobody
    /\ electLeaderAt(failedWorkers)
    /\ UNCHANGED <<clock, failedWorkers>>

\* checkLeader() with a leader.
CheckLeader ==
    /\ leaderId /= Nobody
    /\ IF Expired THEN replaceExpiredLeader
                  ELSE UNCHANGED <<leaderId, lastHeartbeatAt, failedWorkers, terms>>
    /\ UNCHANGED clock

\* With a bug: the leader is recognised before its silence is looked at.
HeartbeatOfLeaderFirst(w) ==
    /\ w \in Known
    /\ IF w = leaderId
       THEN lastHeartbeatAt' = clock /\ UNCHANGED <<leaderId, failedWorkers, terms>>
       ELSE UNCHANGED <<leaderId, lastHeartbeatAt, failedWorkers, terms>>
    /\ UNCHANGED clock

\* heartbeat(w).  An expired leader is replaced first, even by a call that is then
\* refused because w does not lead; the new leader starts with a full timeout, so
\* its own heartbeat at this moment changes nothing more.
Heartbeat(w) ==
    /\ w \in Known
    /\ IF Expired THEN replaceExpiredLeader
       ELSE /\ lastHeartbeatAt' = IF w = leaderId THEN clock ELSE lastHeartbeatAt
            /\ UNCHANGED <<leaderId, failedWorkers, terms>>
    /\ UNCHANGED clock

\* RangeError, before the clock is read.
HeartbeatOfStranger(w) ==
    /\ w \in Strangers
    /\ UNCHANGED electionVars

Tick ==
    /\ clock' \in (0..MaxTime) \ {clock}
    /\ UNCHANGED <<leaderId, lastHeartbeatAt, failedWorkers, terms>>

ElectionNext ==
    \/ ElectLeader
    \/ CheckLeader
    \/ \E w \in Known : Heartbeat(w)
    \/ \E w \in Strangers : HeartbeatOfStranger(w)
    \/ Tick

-----------------------------------------------------------------------------

\* Every worker leads for at most one term, in the configured order, and all
\* leaders but the present one are marked as failed: a worker that was found silent,
\* by heartbeat() or by checkLeader(), cannot come back through any call.
TermsInOrder ==
    /\ Len(terms) <= Len(configuredWorkers)
    /\ \A i \in 1..Len(terms) : terms[i] = configuredWorkers[i]
    /\ leaderId /= Nobody => leaderId = terms[Len(terms)]
    /\ failedWorkers = {terms[i] : i \in 1..Len(terms)} \ {leaderId}

\* A leader that was silent for the timeout is never renewed: the first heartbeat()
\* or checkLeader() after the deadline, its own late heartbeat included, ends its
\* term, and none ends it before.  electLeader() returns a leader unchanged, expired
\* or not.
DeadlineIsFinal ==
    [][leaderId /= Nobody /\ <<leaderId, lastHeartbeatAt>>' /= <<leaderId, lastHeartbeatAt>> =>
         (leaderId' = leaderId <=> clock < lastHeartbeatAt + heartbeatTimeoutMs)]_electionVars

===========================================================================
