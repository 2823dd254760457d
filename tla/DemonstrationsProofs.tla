----------------------- MODULE DemonstrationsProofs -----------------------
(***************************************************************************)
(* TLAPS proofs about the demonstrations: the leader election, the Redis   *)
(* lock and the projections of orders, for every list of workers, clock    *)
(* and timeout, every set of owners, stock and quantity, and every set of  *)
(* orders, copies and sessions.                                            *)
(***************************************************************************)
EXTENDS Demonstrations, SequenceTheorems, TLAPS

\* The election: a leader has been heard of, and the leaders so far are the first
\* of the configured list.
ElectionTypes ==
    /\ clock \in Nat
    /\ terms \in Seq(Known)
    /\ leaderId \in Known \cup {Nobody}
    /\ leaderId /= Nobody => terms /= <<>> /\ lastHeartbeatAt \in Nat

ElectionInv == ElectionTypes /\ TermsInOrder

\* The lock: a lease is there exactly from acquire() to release(), it holds a token
\* of its owner, and so does the key.
LockTypes ==
    /\ tokens \in [Owners -> Nat]
    /\ at \in [Owners -> {"out", "refused", "getStock", "updateStock", "release", "dead"}]
    /\ key \in (Owners \X Nat) \cup {NoLease}
    /\ lease \in [Owners -> (Owners \X Nat) \cup {NoLease}]
    /\ \A o \in Owners :
         /\ lease[o] /= NoLease => lease[o][1] = o
         /\ lease[o] /= NoLease <=> at[o] \in {"getStock", "updateStock", "release"}
    /\ inventory \in Nat /\ sold \in Nat /\ read \in [Owners -> Nat]
    /\ overrun \subseteq Owners /\ intruded \subseteq Owners

\* Until somebody overruns its TTL the owner at work has the key, and what it read
\* is the stock.
WithinLease ==
    overrun = {} =>
        \A o \in Owners :
            /\ at[o] \in {"getStock", "updateStock"} => key = lease[o]
            /\ at[o] = "updateStock" => read[o] = inventory

LeaseInv == LockTypes /\ WithinLease /\ ExactWithinLease /\ OwnTokenMeansExclusive

\* The projections: the records and tokens in use.
OrderRecord == [id : Orders, status : Statuses, version : Nat]

ProjectionTypes ==
    /\ source \in [Orders -> OrderRecord \cup {Absent}]
    /\ copy \in [Copies -> [Orders -> OrderRecord \cup {Absent}]]
    /\ pending \in [Copies -> Seq(OrderRecord)]
    /\ token \in [Sessions -> [orderId : Orders, minimumVersion : Nat] \cup {Absent}]
    /\ log \in Seq(OrderRecord)

\* The queue of a copy holds the last writes.
PendingIsTail ==
    \A d \in Copies :
        /\ Len(pending[d]) <= Len(log)
        /\ \A k \in 1..Len(pending[d]) : pending[d][k] = log[Len(log) - Len(pending[d]) + k]

\* What is stored under an order was written to it.
HoldsWrites(map) ==
    \A i \in Orders :
        map[i] /= Absent => \E k \in 1..Len(log) : log[k] = map[i] /\ log[k].id = i

\* The last write to an order is there if any is: the CHOOSE of After finds it.
LastWriteExists ==
    \A i \in Orders : \A n \in 0..Len(log) :
        \A k \in 1..n : log[k].id = i =>
            \E l \in 1..n : log[l].id = i /\ \A m \in 1..n : log[m].id = i => m <= l

\* The source is at least at the version that a token asks for.
TokensAreServed ==
    \A s \in Sessions :
        token[s] /= Absent =>
            /\ source[token[s].orderId] /= Absent
            /\ source[token[s].orderId].version >= token[s].minimumVersion

ProjectionInv ==
    /\ ProjectionTypes
    /\ PendingIsTail
    /\ HoldsWrites(source)
    /\ \A d \in Copies : HoldsWrites(copy[d])
    /\ LastWriteExists
    /\ TokensAreServed
    /\ CopiesArePrefixes

-----------------------------------------------------------------------------
(* The leader election.                                                    *)

\* When all the leaders so far have failed, the first healthy worker is the next
\* of the configured list, if there is one.
LEMMA NextLeader ==
    ASSUME ElectionInv, NEW failed, failed = {terms[i] : i \in 1..Len(terms)}
    PROVE  FirstHealthy(failed) = IF Len(terms) < Len(configuredWorkers)
                                  THEN configuredWorkers[Len(terms) + 1] ELSE Nobody
<1> DEFINE healthy == {i \in DOMAIN configuredWorkers : configuredWorkers[i] \notin failed}
<1>1. /\ Len(configuredWorkers) \in Nat
      /\ DOMAIN configuredWorkers = 1..Len(configuredWorkers)
      /\ Len(terms) \in Nat /\ Len(terms) <= Len(configuredWorkers)
      /\ failed = {configuredWorkers[i] : i \in 1..Len(terms)}
    BY WorkersAssumption DEF ElectionInv, ElectionTypes, TermsInOrder
<1>2. healthy = (Len(terms) + 1)..Len(configuredWorkers)
  <2>1. ASSUME NEW i \in 1..Len(configuredWorkers)
        PROVE  configuredWorkers[i] \in failed <=> i <= Len(terms)
    <3>1. ASSUME configuredWorkers[i] \in failed PROVE i <= Len(terms)
      <4>1. PICK j \in 1..Len(terms) : configuredWorkers[i] = configuredWorkers[j]
        <5>1. configuredWorkers[i] \in {configuredWorkers[j] : j \in 1..Len(terms)}
            BY <1>1, <3>1
        <5> QED
            BY <5>1
      <4>2. j \in DOMAIN configuredWorkers
          BY <1>1
      <4>3. i = j
          BY <1>1, <4>1, <4>2, WorkersAssumption
      <4> QED
          BY <4>3
    <3>2. ASSUME i <= Len(terms) PROVE configuredWorkers[i] \in failed
        BY <1>1, <3>2
    <3> QED
        BY <3>1, <3>2
  <2>2. \A i : i \in healthy <=> i \in (Len(terms) + 1)..Len(configuredWorkers)
      BY <1>1, <2>1
  <2> HIDE DEF healthy
  <2> QED
      BY <2>2
<1>3. CASE Len(terms) < Len(configuredWorkers)
  <2>1. Len(terms) + 1 \in healthy /\ \A j \in healthy : Len(terms) + 1 <= j
      BY <1>1, <1>2, <1>3
  <2>2. \A i \in healthy : (\A j \in healthy : i <= j) => i = Len(terms) + 1
      BY <1>1, <1>2, <2>1
  <2>3. (CHOOSE i \in healthy : \A j \in healthy : i <= j) = Len(terms) + 1
      BY <2>1, <2>2
  <2> QED
      BY <1>3, <2>1, <2>3 DEF FirstHealthy
<1>4. CASE ~(Len(terms) < Len(configuredWorkers))
  <2>1. healthy = {}
      BY <1>1, <1>2, <1>4
  <2> QED
      BY <1>4, <2>1 DEF FirstHealthy
<1> QED
    BY <1>3, <1>4

\* electLeaderAt, when every leader so far has failed: the terms go on in the
\* configured order and nobody is elected twice.
LEMMA ElectionGoesOn ==
    ASSUME ElectionInv, failedWorkers' = {terms[i] : i \in 1..Len(terms)},
           electLeaderAt(failedWorkers'), UNCHANGED clock
    PROVE  ElectionInv' /\ (leaderId /= Nobody => leaderId' /= leaderId)
<1>1. /\ Len(configuredWorkers) \in Nat
      /\ DOMAIN configuredWorkers = 1..Len(configuredWorkers)
      /\ Len(terms) \in Nat /\ Len(terms) <= Len(configuredWorkers)
      /\ \A i \in 1..Len(configuredWorkers) :
           configuredWorkers[i] \in Known /\ configuredWorkers[i] /= Nobody
    BY WorkersAssumption DEF ElectionInv, ElectionTypes, TermsInOrder, Known
<1>2. \A i \in 1..Len(terms) : terms[i] = configuredWorkers[i]
    BY DEF ElectionInv, TermsInOrder
<1>3. leaderId' = IF Len(terms) < Len(configuredWorkers)
                  THEN configuredWorkers[Len(terms) + 1] ELSE Nobody
    BY NextLeader DEF electLeaderAt
<1>4. CASE Len(terms) < Len(configuredWorkers)
  <2>1. /\ leaderId' = configuredWorkers[Len(terms) + 1]
        /\ leaderId' \in Known /\ leaderId' /= Nobody
      BY <1>1, <1>3, <1>4
  <2>2. lastHeartbeatAt' = clock /\ terms' = Append(terms, leaderId')
      BY <2>1 DEF electLeaderAt
  <2>3. /\ terms' \in Seq(Known) /\ Len(terms') = Len(terms) + 1
        /\ \A i \in 1..Len(terms) : terms'[i] = terms[i]
        /\ terms'[Len(terms) + 1] = leaderId'
      BY <2>1, <2>2 DEF ElectionInv, ElectionTypes
  <2>4. \A i \in 1..Len(terms) : terms[i] /= leaderId'
      BY <1>1, <1>2, <1>4, <2>1, WorkersAssumption
  <2>5. 1..Len(terms') = (1..Len(terms)) \cup {Len(terms) + 1}
      BY <1>1, <2>3
  <2>6. failedWorkers' = {terms'[i] : i \in 1..Len(terms')} \ {leaderId'}
      BY <2>3, <2>4, <2>5
  <2>7. TermsInOrder'
    <3>1. \A i \in 1..Len(terms') : terms'[i] = configuredWorkers[i]
        BY <1>1, <1>2, <2>1, <2>3, <2>5
    <3>2. Len(terms') <= Len(configuredWorkers) /\ leaderId' = terms'[Len(terms')]
        BY <1>1, <1>4, <2>3
    <3> QED
        BY <2>6, <3>1, <3>2 DEF TermsInOrder
  <2>8. ElectionTypes'
      BY <1>1, <2>1, <2>2, <2>3 DEF ElectionInv, ElectionTypes
  <2>9. leaderId /= Nobody => leaderId' /= leaderId
      BY <1>1, <2>4 DEF ElectionInv, ElectionTypes, TermsInOrder
  <2> QED
      BY <2>7, <2>8, <2>9 DEF ElectionInv
<1>5. CASE ~(Len(terms) < Len(configuredWorkers))
  <2>1. leaderId' = Nobody /\ terms' = terms
      BY <1>3, <1>5 DEF electLeaderAt
  <2>2. \A i \in 1..Len(terms) : terms[i] /= Nobody
      BY <1>1, <1>2
  <2>3. failedWorkers' = {terms'[i] : i \in 1..Len(terms')} \ {leaderId'}
      BY <2>1, <2>2
  <2>4. TermsInOrder'
      BY <1>1, <1>2, <2>1, <2>3 DEF TermsInOrder
  <2> QED
      BY <2>1, <2>4 DEF ElectionInv, ElectionTypes
<1> QED
    BY <1>4, <1>5

\* The leader of an expired term fails with the ones before it.
LEMMA LeaderReplaced ==
    ASSUME ElectionInv, leaderId /= Nobody, replaceExpiredLeader, UNCHANGED clock
    PROVE  ElectionInv' /\ leaderId' /= leaderId
<1>1. Len(terms) \in 1..Len(terms) /\ leaderId = terms[Len(terms)]
    BY DEF ElectionInv, ElectionTypes, TermsInOrder
<1>2. failedWorkers' = {terms[i] : i \in 1..Len(terms)}
    BY <1>1 DEF replaceExpiredLeader, ElectionInv, TermsInOrder
<1> QED
    BY <1>2, ElectionGoesOn DEF replaceExpiredLeader

\* What DeadlineIsFinal says of one step.
DeadlineRespected ==
    leaderId /= Nobody /\ <<leaderId, lastHeartbeatAt>>' /= <<leaderId, lastHeartbeatAt>>
      => (leaderId' = leaderId <=> clock < lastHeartbeatAt + heartbeatTimeoutMs)

\* A step of the election keeps its invariant and respects the deadline.
LEMMA ElectionStep ==
    ASSUME ElectionInv, ElectionNext
    PROVE  ElectionInv' /\ DeadlineRespected
<1> USE DEF DeadlineRespected
<1>1. CASE ElectLeader
  <2>1. failedWorkers' = {terms[i] : i \in 1..Len(terms)}
    <3>1. \A i \in 1..Len(terms) : terms[i] /= Nobody
        BY WorkersAssumption DEF ElectionInv, ElectionTypes, TermsInOrder
    <3> QED
        BY <1>1, <3>1 DEF ElectLeader, ElectionInv, TermsInOrder
  <2> QED
      BY <1>1, <2>1, ElectionGoesOn DEF ElectLeader
<1>2. CASE CheckLeader /\ Expired
  <2>1. ElectionInv' /\ leaderId' /= leaderId
      BY <1>2, LeaderReplaced DEF CheckLeader
  <2>2. ~(clock < lastHeartbeatAt + heartbeatTimeoutMs)
      BY <1>2, TimeAssumption DEF Expired, ElectionInv, ElectionTypes
  <2> QED
      BY <2>1, <2>2
<1>3. ASSUME NEW w \in Known, Heartbeat(w), Expired
      PROVE  /\ ElectionInv' /\ leaderId' /= leaderId
             /\ ~(clock < lastHeartbeatAt + heartbeatTimeoutMs)
  <2>1. ElectionInv' /\ leaderId' /= leaderId
      BY <1>3, LeaderReplaced DEF Heartbeat, Expired
  <2>2. ~(clock < lastHeartbeatAt + heartbeatTimeoutMs)
      BY <1>3, TimeAssumption DEF Expired, ElectionInv, ElectionTypes
  <2> QED
      BY <2>1, <2>2
<1>4. ASSUME NEW w \in Known, Heartbeat(w), ~Expired
      PROVE  /\ ElectionInv'
             /\ leaderId /= Nobody
                  => leaderId' = leaderId /\ clock < lastHeartbeatAt + heartbeatTimeoutMs
  <2>1. /\ UNCHANGED <<clock, leaderId, failedWorkers, terms>>
        /\ lastHeartbeatAt' = IF w = leaderId THEN clock ELSE lastHeartbeatAt
      BY <1>4 DEF Heartbeat
  <2>2. ElectionTypes'
      BY <2>1 DEF ElectionInv, ElectionTypes
  <2>3. TermsInOrder'
      BY <2>1 DEF ElectionInv, TermsInOrder
  <2>4. leaderId /= Nobody => clock < lastHeartbeatAt + heartbeatTimeoutMs
      BY <1>4, TimeAssumption DEF Expired, ElectionInv, ElectionTypes
  <2> QED
      BY <2>1, <2>2, <2>3, <2>4 DEF ElectionInv
<1>5. CASE Tick \/ (CheckLeader /\ ~Expired) \/ UNCHANGED electionVars
  <2>1. UNCHANGED <<leaderId, lastHeartbeatAt, failedWorkers, terms>> /\ clock' \in Nat
      BY <1>5, TimeAssumption DEF Tick, CheckLeader, electionVars, ElectionInv, ElectionTypes
  <2>2. ElectionTypes'
      BY <2>1 DEF ElectionInv, ElectionTypes
  <2>3. TermsInOrder'
      BY <2>1 DEF ElectionInv, TermsInOrder
  <2> QED
      BY <2>1, <2>2, <2>3 DEF ElectionInv
<1> QED
    BY <1>1, <1>2, <1>3, <1>4, <1>5 DEF ElectionNext, HeartbeatOfStranger

-----------------------------------------------------------------------------
(* The Redis lock.                                                         *)

\* A new token is in no lease but the one it is made for.
LEMMA TokensDiffer ==
    ASSUME LeaseInv, NEW o \in Owners
    PROVE  /\ Lock!Token(o) \in Owners \X Nat /\ Lock!Token(o) /= NoLease
           /\ \A p \in Owners \ {o} : lease[p] /= Lock!Token(o)
           /\ \A p \in Owners \ {o} : lease[o] /= NoLease => lease[p] /= lease[o]
<1>1. Lock!Token(o) \in Owners \X Nat /\ Lock!Token(o)[1] = o
    BY DEF LeaseInv, LockTypes, Lock!Token
<1>2. Lock!Token(o) /= NoLease
    BY <1>1, LockAssumption
<1>3. \A p \in Owners : lease[p] /= NoLease => lease[p][1] = p
    BY DEF LeaseInv, LockTypes
<1> QED
    BY <1>1, <1>2, <1>3

\* Whoever is at work within its lease is alone.
LEMMA AloneWithinLease ==
    ASSUME LeaseInv, overrun = {}, NEW o \in Owners, NEW p \in Owners,
           at[o] \in {"getStock", "updateStock"}, at[p] \in {"getStock", "updateStock"}
    PROVE  o = p
<1>1. key = lease[o] /\ key = lease[p] /\ lease[o] /= NoLease
    BY DEF LeaseInv, LockTypes, WithinLease
<1> QED
    BY <1>1, TokensDiffer

\* Every step keeps the state well formed.
LEMMA LockTypesKept ==
    ASSUME LeaseInv, Lock!Next
    PROVE  LockTypes'
<1> USE DEF LeaseInv, LockTypes
<1>1. CASE Lock!Expire
    BY <1>1, LockAssumption DEF Lock!Expire, Lock!work, Lock!AtWork
<1>2. ASSUME NEW o \in Owners, Lock!Acquire(o) \/ Lock!AcquireFails(o) PROVE LockTypes'
    BY <1>2, TokensDiffer, LockAssumption
       DEF Lock!Acquire, Lock!AcquireFails, Lock!MakesToken, Lock!Store, Lock!Token,
           Lock!Move, Lock!work
<1>3. ASSUME NEW o \in Owners, Lock!AcquireRefused(o) \/ Lock!Dies(o) PROVE LockTypes'
    BY <1>3, LockAssumption DEF Lock!AcquireRefused, Lock!Dies, Lock!Move, Lock!work
<1>4. ASSUME NEW o \in Owners, Lock!GetStock(o) \/ Lock!UpdateStock(o) PROVE LockTypes'
    BY <1>4, LockAssumption DEF Lock!GetStock, Lock!UpdateStock, Lock!Move
<1>5. ASSUME NEW o \in Owners, Lock!Release(o) \/ Lock!ReleaseFails(o) PROVE LockTypes'
    BY <1>5, LockAssumption DEF Lock!Release, Lock!ReleaseFails, Lock!AfterRelease,
       Lock!Move, Lock!work
<1> QED
    BY <1>1, <1>2, <1>3, <1>4, <1>5 DEF Lock!Next

\* Every step keeps the lock exact and its token meaningful.
LEMMA LeaseKept ==
    ASSUME LeaseInv, Lock!Next
    PROVE  (WithinLease /\ ExactWithinLease /\ OwnTokenMeansExclusive)'
<1> USE DEF ExactWithinLease, Lock!ExactWithinLease, OwnTokenMeansExclusive,
            Lock!OwnTokenMeansExclusive
<1>1. CASE Lock!Expire
  <2>1. WithinLease'
      BY <1>1 DEF LeaseInv, LockTypes, WithinLease, Lock!Expire, Lock!work, Lock!AtWork
  <2> QED
      BY <1>1, <2>1 DEF LeaseInv, LockTypes, Lock!Expire, Lock!work
<1>2. ASSUME NEW o \in Owners, Lock!Acquire(o) \/ Lock!AcquireFails(o)
      PROVE  (WithinLease /\ ExactWithinLease /\ OwnTokenMeansExclusive)'
  <2> USE <1>2 DEF Lock!Acquire, Lock!AcquireFails, Lock!MakesToken, Lock!Store, Lock!Move,
                   Lock!work
  <2>1. UNCHANGED <<inventory, read, sold, overrun>>
      OBVIOUS
  <2>2. CASE key' = key
    <3>1. UNCHANGED <<key, intruded, lease, at>>
        BY <2>2, TokensDiffer
    <3> QED
        BY <2>1, <3>1 DEF LeaseInv, WithinLease
  <2>3. CASE key' /= key
    <3>1. /\ key = NoLease /\ key' = Lock!Token(o)
          /\ intruded' = (intruded \ {o}) \cup {p \in Owners \ {o} : lease[p] /= NoLease}
        BY <2>3
    <3>2. \A p \in Owners \ {o} : lease'[p] = lease[p] /\ at'[p] = at[p]
        BY DEF LeaseInv, LockTypes
    <3>3. \/ lease' = lease /\ at' = at
          \/ lease'[o] = key' /\ at'[o] = "getStock"
        BY <3>1 DEF LeaseInv, LockTypes
    <3>4. overrun = {} => \A p \in Owners : at[p] \notin {"getStock", "updateStock"}
        BY <3>1 DEF LeaseInv, LockTypes, WithinLease
    <3>5. WithinLease'
        BY <2>1, <3>2, <3>3, <3>4 DEF WithinLease
    <3>6. OwnTokenMeansExclusive'
      <4>1. o \notin intruded'
          BY <3>1
      <4>2. \A p \in Owners \ {o} : lease'[p] /= key'
          BY <3>1, <3>2, TokensDiffer
      <4> QED
          BY <4>1, <4>2
    <3> QED
        BY <2>1, <3>5, <3>6 DEF LeaseInv
  <2> QED
      BY <2>2, <2>3
<1>3. ASSUME NEW o \in Owners, Lock!AcquireRefused(o) \/ Lock!Dies(o)
      PROVE  (WithinLease /\ ExactWithinLease /\ OwnTokenMeansExclusive)'
    BY <1>3 DEF LeaseInv, LockTypes, WithinLease, Lock!AcquireRefused, Lock!Dies, Lock!Move,
       Lock!work
<1>4. ASSUME NEW o \in Owners, Lock!GetStock(o)
      PROVE  (WithinLease /\ ExactWithinLease /\ OwnTokenMeansExclusive)'
    BY <1>4 DEF LeaseInv, LockTypes, WithinLease, Lock!GetStock, Lock!Move
<1>5. ASSUME NEW o \in Owners, Lock!UpdateStock(o)
      PROVE  (WithinLease /\ ExactWithinLease /\ OwnTokenMeansExclusive)'
  <2> USE <1>5 DEF Lock!UpdateStock, Lock!Move
  <2>1. overrun = {} => \A p \in Owners \ {o} : at[p] \notin {"getStock", "updateStock"}
      BY AloneWithinLease
  <2>2. WithinLease'
      BY <2>1 DEF LeaseInv, LockTypes, WithinLease
  <2>3. ExactWithinLease'
    <3>1. CASE read[o] < Quantity
        BY <3>1 DEF LeaseInv
    <3>2. CASE ~(read[o] < Quantity)
      <4>1. inventory' = read[o] - Quantity /\ sold' = sold + 1 /\ overrun' = overrun
          BY <3>2
      <4>2. overrun = {} => read[o] = inventory
          BY DEF LeaseInv, WithinLease
      <4>3. Quantity * (sold + 1) = Quantity * sold + Quantity /\ Quantity * sold \in Nat
          BY LockAssumption DEF LeaseInv, LockTypes
      <4> QED
          BY <4>1, <4>2, <4>3, LockAssumption DEF LeaseInv, LockTypes
    <3> QED
        BY <3>1, <3>2
  <2> QED
      BY <2>2, <2>3 DEF LeaseInv
<1>6. ASSUME NEW o \in Owners, Lock!Release(o) \/ Lock!ReleaseFails(o)
      PROVE  (WithinLease /\ ExactWithinLease /\ OwnTokenMeansExclusive)'
  <2> USE <1>6 DEF Lock!Release, Lock!ReleaseFails, Lock!AfterRelease, Lock!Move, Lock!work
  <2>1. lease[o] /= NoLease
      BY DEF LeaseInv, LockTypes
  <2>2. \A p \in Owners \ {o} : key = lease[p] => key' = key
      BY <2>1, TokensDiffer
  <2>3. /\ \A p \in Owners \ {o} : lease'[p] = lease[p] /\ at'[p] = at[p]
        /\ lease'[o] = NoLease /\ at'[o] = "out" /\ key' \in {key, NoLease}
        /\ UNCHANGED <<inventory, read, sold, overrun, intruded>>
      BY DEF LeaseInv, LockTypes
  <2>4. WithinLease'
      BY <2>2, <2>3 DEF LeaseInv, WithinLease
  <2>5. OwnTokenMeansExclusive'
      BY <2>3 DEF LeaseInv
  <2> QED
      BY <2>3, <2>4, <2>5 DEF LeaseInv
<1> QED
    BY <1>1, <1>2, <1>3, <1>4, <1>5, <1>6 DEF Lock!Next

-----------------------------------------------------------------------------
(* The projections.                                                        *)

\* The last of the first n entries of a log that is a write to order i.
LastWrite(writes, n, i) ==
    LET those == {k \in 1..n : writes[k].id = i}
    IN  IF those = {} THEN Absent ELSE writes[CHOOSE k \in those : \A l \in those : l <= k]

\* The state after one more write.
LEMMA AfterNext ==
    ASSUME NEW writes, NEW i, NEW n \in Nat
    PROVE  LastWrite(writes, n + 1, i) =
             IF writes[n + 1].id = i THEN writes[n + 1] ELSE LastWrite(writes, n, i)
<1> DEFINE before == {k \in 1..n : writes[k].id = i}
<1> DEFINE upto == {k \in 1..(n + 1) : writes[k].id = i}
<1>1. LastWrite(writes, n + 1, i) =
        IF upto = {} THEN Absent ELSE writes[CHOOSE k \in upto : \A l \in upto : l <= k]
    BY DEF LastWrite
<1>2. LastWrite(writes, n, i) =
        IF before = {} THEN Absent ELSE writes[CHOOSE k \in before : \A l \in before : l <= k]
    BY DEF LastWrite
<1>3. CASE writes[n + 1].id = i
  <2>1. n + 1 \in upto /\ \A l \in upto : l <= n + 1
      BY <1>3
  <2>2. \A k \in upto : (\A l \in upto : l <= k) => k = n + 1
      BY <2>1
  <2> HIDE DEF upto
  <2>3. (CHOOSE k \in upto : \A l \in upto : l <= k) = n + 1
      BY <2>1, <2>2
  <2> QED
      BY <1>1, <1>3, <2>1, <2>3
<1>4. CASE writes[n + 1].id /= i
  <2>1. upto = before
      BY <1>4
  <2> HIDE DEF upto, before
  <2> QED
      BY <1>1, <1>2, <1>4, <2>1
<1> QED
    BY <1>3, <1>4

\* Earlier states do not depend on later writes.
LEMMA AfterStays ==
    ASSUME ProjectionInv, NEW i \in Orders, NEW n \in 0..Len(log), NEW longer,
           \A k \in 1..Len(log) : longer[k] = log[k]
    PROVE  LastWrite(longer, n, i) = LastWrite(log, n, i)
<1> DEFINE writes == {k \in 1..n : log[k].id = i}
<1> DEFINE last == CHOOSE k \in writes : \A l \in writes : l <= k
<1>1. 1..n \subseteq 1..Len(log)
    BY DEF ProjectionInv, ProjectionTypes
<1>2. {k \in 1..n : longer[k].id = i} = writes
    BY <1>1
<1>3. CASE writes = {}
    BY <1>2, <1>3 DEF LastWrite
<1>4. CASE writes /= {}
  <2>1. \E k \in writes : \A l \in writes : l <= k
      BY <1>4 DEF ProjectionInv, LastWriteExists
  <2>2. last \in writes
      BY <2>1
  <2>3. longer[last] = log[last]
      BY <1>1, <2>2
  <2>4. LastWrite(log, n, i) = log[last]
      BY <1>4 DEF LastWrite
  <2>5. LastWrite(longer, n, i) = longer[last]
      BY <1>2, <1>4 DEF LastWrite
  <2> QED
      BY <2>3, <2>4, <2>5
<1> QED
    BY <1>3, <1>4

\* A write is the new state of its order and goes to the end of every queue.
LEMMA WriteKeeps ==
    ASSUME ProjectionInv, NEW s \in Sessions, NEW o \in Orders, NEW status \in Statuses,
           Projections!Write(s, o, status)
    PROVE  ProjectionInv'
<1> DEFINE record == Projections!Versioned(o, status)
<1> DEFINE n == Len(log)
<1>1. record \in OrderRecord /\ record.id = o /\ record /= Absent
  <2>1. Projections!Version(source[o]) \in Nat
      BY DEF ProjectionInv, ProjectionTypes, Projections!Version, OrderRecord
  <2>2. record \in OrderRecord /\ record.id = o
      BY <2>1 DEF Projections!Versioned, OrderRecord
  <2> QED
      BY <2>2, ProjectionsAssumption DEF OrderRecord
<1>2. source[o] /= Absent => record.version >= source[o].version
    BY DEF Projections!Versioned, Projections!Version, ProjectionInv, ProjectionTypes,
           OrderRecord
<1> HIDE DEF record
<1>3. /\ source' = [source EXCEPT ![o] = record]
      /\ pending' = [d \in Copies |-> Append(pending[d], record)]
      /\ token' = [token EXCEPT ![s] = [orderId |-> o, minimumVersion |-> record.version]]
      /\ log' = Append(log, record)
      /\ copy' = copy
    BY DEF Projections!Write, Projections!Queued, record
<1>4. /\ n \in Nat /\ log' \in Seq(OrderRecord) /\ Len(log') = n + 1
      /\ \A k \in 1..n : log'[k] = log[k]
      /\ log'[n + 1] = record
    BY <1>1, <1>3 DEF ProjectionInv, ProjectionTypes
<1>5. \A d \in Copies :
        /\ pending'[d] \in Seq(OrderRecord) /\ Len(pending'[d]) = Len(pending[d]) + 1
        /\ Len(pending[d]) \in Nat
        /\ \A k \in 1..Len(pending[d]) : pending'[d][k] = pending[d][k]
        /\ pending'[d][Len(pending[d]) + 1] = record
    BY <1>1, <1>3 DEF ProjectionInv, ProjectionTypes
<1>6. /\ source' \in [Orders -> OrderRecord \cup {Absent}]
      /\ source'[o] = record /\ \A i \in Orders \ {o} : source'[i] = source[i]
    BY <1>1, <1>3 DEF ProjectionInv, ProjectionTypes
<1>7. ProjectionTypes'
  <2>1. [orderId |-> o, minimumVersion |-> record.version]
          \in [orderId : Orders, minimumVersion : Nat]
      BY <1>1 DEF OrderRecord
  <2>2. token' \in [Sessions -> [orderId : Orders, minimumVersion : Nat] \cup {Absent}]
      BY <1>3, <2>1 DEF ProjectionInv, ProjectionTypes
  <2>3. pending' \in [Copies -> Seq(OrderRecord)]
      BY <1>3, <1>5
  <2> QED
      BY <1>3, <1>4, <1>6, <2>2, <2>3 DEF ProjectionInv, ProjectionTypes
<1>8. PendingIsTail'
  <2> SUFFICES ASSUME NEW d \in Copies
               PROVE  /\ Len(pending'[d]) <= Len(log')
                      /\ \A k \in 1..Len(pending'[d]) :
                           pending'[d][k] = log'[Len(log') - Len(pending'[d]) + k]
      BY DEF PendingIsTail
  <2>1. /\ Len(pending[d]) <= n
        /\ \A k \in 1..Len(pending[d]) : pending[d][k] = log[n - Len(pending[d]) + k]
      BY DEF ProjectionInv, PendingIsTail
  <2>2. Len(log') - Len(pending'[d]) = n - Len(pending[d])
    <3>1. n \in Nat /\ Len(log') = n + 1
        BY <1>4
    <3>2. Len(pending[d]) \in Nat /\ Len(pending'[d]) = Len(pending[d]) + 1
        BY <1>5
    <3> HIDE DEF n
    <3> QED
        BY <3>1, <3>2
  <2>3. \A k \in 1..Len(pending[d]) : pending'[d][k] = log'[n - Len(pending[d]) + k]
    <3> SUFFICES ASSUME NEW k \in 1..Len(pending[d])
                 PROVE  pending'[d][k] = log'[n - Len(pending[d]) + k]
        OBVIOUS
    <3>1. n - Len(pending[d]) + k \in 1..n
        BY <1>4, <1>5, <2>1
    <3> QED
        BY <1>4, <1>5, <2>1, <3>1
  <2>4. pending'[d][Len(pending[d]) + 1] = log'[n - Len(pending[d]) + (Len(pending[d]) + 1)]
      BY <1>4, <1>5
  <2>5. 1..Len(pending'[d]) = (1..Len(pending[d])) \cup {Len(pending[d]) + 1}
      BY <1>5
  <2>6. Len(pending'[d]) <= Len(log')
      BY <1>4, <1>5, <2>1
  <2> QED
      BY <2>2, <2>3, <2>4, <2>5, <2>6
<1>9. HoldsWrites(source)'
  <2>1. \A i \in Orders \ {o} : source'[i] /= Absent =>
          \E k \in 1..Len(log') : log'[k] = source'[i] /\ log'[k].id = i
      BY <1>4, <1>6 DEF ProjectionInv, HoldsWrites
  <2>2. log'[n + 1] = source'[o] /\ log'[n + 1].id = o /\ n + 1 \in 1..Len(log')
      BY <1>1, <1>4, <1>6
  <2> QED
      BY <2>1, <2>2 DEF HoldsWrites
<1>10. \A d \in Copies : HoldsWrites(copy[d])'
    BY <1>3, <1>4 DEF ProjectionInv, HoldsWrites
<1>11. LastWriteExists'
  <2> SUFFICES ASSUME NEW i \in Orders, NEW m \in 0..Len(log'), NEW k \in 1..m, log'[k].id = i
               PROVE  \E l \in 1..m : /\ log'[l].id = i
                                      /\ \A j \in 1..m : log'[j].id = i => j <= l
      BY DEF LastWriteExists
  <2>1. CASE m <= n
    <3>1. m \in 0..n /\ \A j \in 1..m : log'[j] = log[j]
        BY <1>4, <2>1
    <3> QED
        BY <3>1 DEF ProjectionInv, LastWriteExists
  <2>2. CASE m = n + 1 /\ record.id = i
    <3>1. n + 1 \in 1..m /\ log'[n + 1].id = i /\ \A j \in 1..m : j <= n + 1
        BY <1>4, <2>2
    <3> QED
        BY <3>1
  <2>3. CASE m = n + 1 /\ record.id /= i
    <3>1. k \in 1..n /\ log[k].id = i /\ n \in 0..n
        BY <1>4, <2>3
    <3>2. PICK l \in 1..n : log[l].id = i /\ \A j \in 1..n : log[j].id = i => j <= l
        BY <3>1 DEF ProjectionInv, LastWriteExists
    <3>3. l \in 1..m /\ log'[l].id = i
        BY <1>4, <2>3, <3>2
    <3>4. \A j \in 1..m : log'[j].id = i => j <= l
        BY <1>4, <2>3, <3>2
    <3> QED
        BY <3>3, <3>4
  <2>4. m <= n \/ m = n + 1
    <3>1. n \in Nat /\ m \in 0..(n + 1)
        BY <1>4
    <3> HIDE DEF n
    <3> QED
        BY ONLY <3>1
  <2> QED
      BY <2>1, <2>2, <2>3, <2>4
<1>12. TokensAreServed'
  <2> SUFFICES ASSUME NEW t \in Sessions, token'[t] /= Absent
               PROVE  /\ source'[token'[t].orderId] /= Absent
                      /\ source'[token'[t].orderId].version >= token'[t].minimumVersion
      BY DEF TokensAreServed
  <2>1. CASE t = s
    <3>1. token'[t] = [orderId |-> o, minimumVersion |-> record.version]
        BY <1>3, <2>1 DEF ProjectionInv, ProjectionTypes
    <3> QED
        BY <1>1, <1>6, <3>1 DEF OrderRecord
  <2>2. CASE t /= s
    <3>1. token'[t] = token[t]
        BY <1>3, <2>2 DEF ProjectionInv, ProjectionTypes
    <3>2. /\ token[t].orderId \in Orders /\ token[t].minimumVersion \in Nat
          /\ source[token[t].orderId] \in OrderRecord
          /\ source[token[t].orderId] /= Absent
          /\ source[token[t].orderId].version >= token[t].minimumVersion
        BY <3>1 DEF ProjectionInv, ProjectionTypes, TokensAreServed
    <3>3. CASE token[t].orderId = o
        BY <1>1, <1>2, <1>6, <3>1, <3>2, <3>3 DEF OrderRecord
    <3>4. CASE token[t].orderId /= o
        BY <1>6, <3>1, <3>2, <3>4
    <3> QED
        BY <3>3, <3>4
  <2> QED
      BY <2>1, <2>2
<1>13. CopiesArePrefixes'
  <2>1. \A i \in Orders :
          /\ source[i] = LastWrite(log, n, i)
          /\ \A d \in Copies : copy[d][i] = LastWrite(log, n - Len(pending[d]), i)
      BY DEF ProjectionInv, CopiesArePrefixes, Projections!CopiesArePrefixes,
             Projections!After, LastWrite
  <2>2. ASSUME NEW i \in Orders
        PROVE  /\ source'[i] = LastWrite(log', Len(log'), i)
               /\ \A d \in Copies :
                    copy'[d][i] = LastWrite(log', Len(log') - Len(pending'[d]), i)
    <3>1. LastWrite(log', n + 1, i) = IF o = i THEN record ELSE LastWrite(log', n, i)
        BY <1>1, <1>4, AfterNext
    <3>2. \A m \in 0..n : LastWrite(log', m, i) = LastWrite(log, m, i)
        BY <1>4, AfterStays
    <3>3. source'[i] = LastWrite(log', Len(log'), i)
        BY <1>4, <1>6, <2>1, <3>1, <3>2
    <3>4. ASSUME NEW d \in Copies
          PROVE  /\ Len(log') - Len(pending'[d]) = n - Len(pending[d])
                 /\ n - Len(pending[d]) \in 0..n
      <4>1. n \in Nat /\ Len(log') = n + 1
          BY <1>4
      <4>2. Len(pending[d]) \in Nat /\ Len(pending'[d]) = Len(pending[d]) + 1
          BY <1>5
      <4>3. Len(pending[d]) <= n
          BY DEF ProjectionInv, PendingIsTail
      <4> HIDE DEF n
      <4> QED
          BY <4>1, <4>2, <4>3
    <3> QED
        BY <1>3, <2>1, <3>2, <3>3, <3>4
  <2> HIDE DEF n
  <2> QED
      BY <2>2 DEF CopiesArePrefixes, Projections!CopiesArePrefixes, Projections!After,
                  LastWrite
<1> QED
    BY <1>7, <1>8, <1>9, <1>10, <1>11, <1>12, <1>13 DEF ProjectionInv

\* A copy takes the oldest write it has not seen yet.
LEMMA ApplyKeeps ==
    ASSUME ProjectionInv, NEW d \in Copies, Projections!ApplyNext(d)
    PROVE  ProjectionInv'
<1> DEFINE update == Head(pending[d])
<1> DEFINE n == Len(log) - Len(pending[d])
<1>1. /\ pending[d] \in Seq(OrderRecord) /\ pending[d] /= <<>> /\ Len(pending[d]) \in Nat
      /\ Len(log) \in Nat /\ Len(pending[d]) >= 1 /\ Len(pending[d]) <= Len(log)
    BY DEF Projections!ApplyNext, ProjectionInv, ProjectionTypes, PendingIsTail
<1>2. n \in Nat /\ n + 1 \in 1..Len(log)
    BY <1>1
<1>3. update = log[n + 1] /\ update \in OrderRecord /\ update.id \in Orders /\ update /= Absent
  <2>1. update = pending[d][1] /\ update \in OrderRecord
      BY <1>1
  <2>2. update = log[n + 1]
    <3>1. 1 \in 1..Len(pending[d])
        BY <1>1
    <3>2. pending[d][1] = log[Len(log) - Len(pending[d]) + 1]
        BY <3>1 DEF ProjectionInv, PendingIsTail
    <3> QED
        BY <2>1, <3>2
  <2> QED
      BY <2>1, <2>2, ProjectionsAssumption DEF OrderRecord
<1>4. /\ Tail(pending[d]) \in Seq(OrderRecord) /\ Len(Tail(pending[d])) = Len(pending[d]) - 1
      /\ \A k \in 1..(Len(pending[d]) - 1) : Tail(pending[d])[k] = pending[d][k + 1]
    BY <1>1
<1> HIDE DEF update, n
<1>5. /\ copy' = [copy EXCEPT ![d] = [copy[d] EXCEPT ![update.id] = update]]
      /\ pending' = [pending EXCEPT ![d] = Tail(pending[d])]
      /\ UNCHANGED <<source, token, log>>
    BY DEF Projections!ApplyNext, update
<1>6. /\ \A e \in Copies \ {d} : copy'[e] = copy[e] /\ pending'[e] = pending[e]
      /\ pending'[d] = Tail(pending[d])
      /\ copy'[d][update.id] = update
      /\ \A i \in Orders \ {update.id} : copy'[d][i] = copy[d][i]
    BY <1>3, <1>5 DEF ProjectionInv, ProjectionTypes
<1>7. ProjectionTypes'
  <2>1. [copy[d] EXCEPT ![update.id] = update] \in [Orders -> OrderRecord \cup {Absent}]
      BY <1>3 DEF ProjectionInv, ProjectionTypes
  <2>2. copy' \in [Copies -> [Orders -> OrderRecord \cup {Absent}]]
      BY <1>5, <2>1 DEF ProjectionInv, ProjectionTypes
  <2>3. pending' \in [Copies -> Seq(OrderRecord)]
      BY <1>4, <1>5 DEF ProjectionInv, ProjectionTypes
  <2> QED
      BY <1>5, <2>2, <2>3 DEF ProjectionInv, ProjectionTypes
<1>8. PendingIsTail'
  <2>1. ASSUME NEW e \in Copies \ {d}
        PROVE  /\ Len(pending'[e]) <= Len(log')
               /\ \A k \in 1..Len(pending'[e]) :
                    pending'[e][k] = log'[Len(log') - Len(pending'[e]) + k]
      BY <1>5, <1>6 DEF ProjectionInv, PendingIsTail
  <2>2. \A k \in 1..Len(pending'[d]) : pending'[d][k] = log'[Len(log') - Len(pending'[d]) + k]
    <3> SUFFICES ASSUME NEW k \in 1..Len(pending'[d])
                 PROVE  pending'[d][k] = log'[Len(log') - Len(pending'[d]) + k]
        OBVIOUS
    <3>1. k + 1 \in 1..Len(pending[d]) /\ pending'[d][k] = pending[d][k + 1]
        BY <1>1, <1>4, <1>6
    <3>2. Len(log') - Len(pending'[d]) + k = Len(log) - Len(pending[d]) + (k + 1)
      <4>1. log' = log /\ Len(pending'[d]) = Len(pending[d]) - 1
          BY <1>4, <1>5, <1>6
      <4> QED
          BY <1>1, <4>1
    <3> QED
        BY <1>5, <3>1, <3>2 DEF ProjectionInv, PendingIsTail
  <2>3. Len(pending'[d]) <= Len(log')
      BY <1>1, <1>4, <1>5, <1>6
  <2> QED
      BY <2>1, <2>2, <2>3 DEF PendingIsTail
<1>9. HoldsWrites(source)' /\ LastWriteExists' /\ TokensAreServed'
    BY <1>5 DEF ProjectionInv, HoldsWrites, LastWriteExists, TokensAreServed
<1>10. \A e \in Copies : HoldsWrites(copy[e])'
  <2>1. \A e \in Copies \ {d} : HoldsWrites(copy[e])'
      BY <1>5, <1>6 DEF ProjectionInv, HoldsWrites
  <2>2. HoldsWrites(copy[d])'
      BY <1>2, <1>3, <1>5, <1>6 DEF ProjectionInv, HoldsWrites
  <2> QED
      BY <2>1, <2>2
<1>11. CopiesArePrefixes'
  <2>1. \A i \in Orders :
          /\ source[i] = LastWrite(log, Len(log), i)
          /\ \A e \in Copies : copy[e][i] = LastWrite(log, Len(log) - Len(pending[e]), i)
      BY DEF ProjectionInv, CopiesArePrefixes, Projections!CopiesArePrefixes,
             Projections!After, LastWrite
  <2>2. ASSUME NEW i \in Orders
        PROVE  copy'[d][i] = LastWrite(log, Len(log) - Len(pending'[d]), i)
    <3>1. Len(log) - Len(pending'[d]) = n + 1
      <4>1. Len(pending'[d]) = Len(pending[d]) - 1
          BY <1>4, <1>6
      <4> QED
          BY <1>1, <4>1 DEF n
    <3>2. LastWrite(log, n + 1, i) = IF update.id = i THEN update ELSE LastWrite(log, n, i)
        BY <1>2, <1>3, AfterNext
    <3>3. copy[d][i] = LastWrite(log, n, i)
        BY <2>1 DEF n
    <3> QED
        BY <1>6, <3>1, <3>2, <3>3
  <2>3. \A i \in Orders :
          /\ source'[i] = LastWrite(log', Len(log'), i)
          /\ \A e \in Copies : copy'[e][i] = LastWrite(log', Len(log') - Len(pending'[e]), i)
      BY <1>5, <1>6, <2>1, <2>2
  <2> QED
      BY <2>3 DEF CopiesArePrefixes, Projections!CopiesArePrefixes, Projections!After,
                  LastWrite
<1> QED
    BY <1>7, <1>8, <1>9, <1>10, <1>11 DEF ProjectionInv

\* The read of a session: the copy if it is recent enough, else the source, which
\* always is.
LEMMA SessionsReadTheirWrites == ProjectionInv => ReadsOwnWrites
<1> SUFFICES ASSUME ProjectionInv, NEW s \in Sessions, NEW d \in Copies, token[s] /= Absent
             PROVE  \E k \in 1..Len(log) :
                      /\ log[k] = Projections!ReadForSession(d, token[s])
                      /\ log[k].id = token[s].orderId
                      /\ log[k].version >= token[s].minimumVersion
    BY DEF ReadsOwnWrites, Projections!ReadsOwnWrites
<1> DEFINE i == token[s].orderId
<1>1. i \in Orders /\ token[s].minimumVersion \in Nat
    BY DEF ProjectionInv, ProjectionTypes
<1>2. source[i] /= Absent /\ source[i].version >= token[s].minimumVersion
    BY DEF ProjectionInv, TokensAreServed
<1>3. CASE copy[d][i] /= Absent /\ copy[d][i].version >= token[s].minimumVersion
  <2>1. Projections!ReadForSession(d, token[s]) = copy[d][i]
      BY <1>3 DEF Projections!ReadForSession
  <2> QED
      BY <1>1, <1>3, <2>1 DEF ProjectionInv, HoldsWrites
<1>4. CASE ~(copy[d][i] /= Absent /\ copy[d][i].version >= token[s].minimumVersion)
  <2>1. Projections!ReadForSession(d, token[s]) = source[i]
      BY <1>2, <1>4 DEF Projections!ReadForSession, Projections!Version
  <2> QED
      BY <1>1, <1>2, <2>1 DEF ProjectionInv, HoldsWrites
<1> QED
    BY <1>3, <1>4

-----------------------------------------------------------------------------

\* The inductive invariant.
DemonstrationsInv == ElectionInv /\ LeaseInv /\ ProjectionInv

\* Nobody leads, nobody holds the lock and nothing is written.
LEMMA InitEstablishes == Init => DemonstrationsInv
<1> SUFFICES ASSUME Init PROVE DemonstrationsInv
    OBVIOUS
<1>1. ElectionInv
  <2>1. Len(configuredWorkers) \in Nat
      BY WorkersAssumption
  <2>2. clock = 0 /\ leaderId = Nobody /\ failedWorkers = {} /\ terms = <<>>
      BY DEF Init, ElectionInit
  <2>3. ElectionTypes
      BY <2>2 DEF ElectionTypes
  <2>4. TermsInOrder
      BY <2>1, <2>2 DEF TermsInOrder
  <2> QED
      BY <2>3, <2>4 DEF ElectionInv
<1>2. LeaseInv
  <2> USE LockAssumption DEF Init, Lock!Init
  <2>1. LockTypes
      BY DEF LockTypes
  <2>2. WithinLease /\ OwnTokenMeansExclusive
      BY DEF WithinLease, OwnTokenMeansExclusive, Lock!OwnTokenMeansExclusive
  <2>3. ExactWithinLease
    <3>1. inventory = InitialStock /\ sold = 0
        OBVIOUS
    <3>2. InitialStock + Quantity * 0 = InitialStock
        BY ONLY LockAssumption
    <3> QED
        BY ONLY <3>1, <3>2 DEF ExactWithinLease, Lock!ExactWithinLease
  <2> QED
      BY <2>1, <2>2, <2>3 DEF LeaseInv
<1>3. ProjectionInv
  <2>1. /\ source = [i \in Orders |-> Absent]
        /\ copy = [d \in Copies |-> [i \in Orders |-> Absent]]
        /\ pending = [d \in Copies |-> <<>>]
        /\ token = [s \in Sessions |-> Absent]
        /\ log = <<>>
      BY DEF Init, Projections!Init
  <2>2. Len(log) = 0 /\ \A d \in Copies : Len(pending[d]) = 0
      BY <2>1
  <2>3. ProjectionTypes
    <3>1. log \in Seq(OrderRecord) /\ pending \in [Copies -> Seq(OrderRecord)]
        BY <2>1
    <3> QED
        BY <2>1, <3>1 DEF ProjectionTypes
  <2>4. PendingIsTail /\ LastWriteExists
      BY <2>2 DEF PendingIsTail, LastWriteExists
  <2>5. HoldsWrites(source) /\ TokensAreServed /\ \A d \in Copies : HoldsWrites(copy[d])
      BY <2>1 DEF HoldsWrites, TokensAreServed
  <2>6. \A i \in Orders : Projections!After(0, i) = Absent
      BY DEF Projections!After
  <2>7. CopiesArePrefixes
      BY <2>1, <2>2, <2>6 DEF CopiesArePrefixes, Projections!CopiesArePrefixes
  <2> QED
      BY <2>3, <2>4, <2>5, <2>7 DEF ProjectionInv
<1> QED
    BY <1>1, <1>2, <1>3 DEF DemonstrationsInv

\* The election is not disturbed by the other demonstrations.
LEMMA ElectionUntouched ==
    ASSUME ElectionInv, UNCHANGED electionVars PROVE ElectionInv'
BY DEF ElectionInv, ElectionTypes, TermsInOrder, electionVars

\* Nor is the lock.
LEMMA LockUntouched ==
    ASSUME LeaseInv, UNCHANGED lockVars PROVE LeaseInv'
BY DEF LeaseInv, LockTypes, WithinLease, ExactWithinLease, Lock!ExactWithinLease,
       OwnTokenMeansExclusive, Lock!OwnTokenMeansExclusive, lockVars

\* Nor are the projections.
LEMMA ProjectionsUntouched ==
    ASSUME ProjectionInv, UNCHANGED projectionVars PROVE ProjectionInv'
<1>1. UNCHANGED <<source, copy, pending, token, log>>
    BY DEF projectionVars
<1>2. (ProjectionTypes /\ PendingIsTail /\ LastWriteExists /\ TokensAreServed)'
    BY <1>1 DEF ProjectionInv, ProjectionTypes, PendingIsTail, LastWriteExists, TokensAreServed
<1>3. HoldsWrites(source)' /\ \A d \in Copies : HoldsWrites(copy[d])'
    BY <1>1 DEF ProjectionInv, HoldsWrites
<1>4. \A i, n : Projections!After(n, i)' = Projections!After(n, i)
    BY <1>1 DEF Projections!After
<1>5. CopiesArePrefixes'
    BY <1>1, <1>4 DEF ProjectionInv, CopiesArePrefixes, Projections!CopiesArePrefixes
<1> QED
    BY <1>2, <1>3, <1>5 DEF ProjectionInv

\* Every step of every demonstration keeps the invariant.
LEMMA NextKeeps ==
    ASSUME DemonstrationsInv, [Next]_vars PROVE DemonstrationsInv'
<1> USE ElectionUntouched, LockUntouched, ProjectionsUntouched DEF DemonstrationsInv
<1>1. CASE Elect
    BY <1>1, ElectionStep DEF Elect
<1>2. CASE UseLock
    BY <1>2, LockTypesKept, LeaseKept DEF UseLock, LeaseInv
<1>3. CASE Project
  <2>1. Projections!Next /\ UNCHANGED <<electionVars, lockVars>>
      BY <1>3 DEF Project
  <2>2. ProjectionInv'
      BY <2>1, WriteKeeps, ApplyKeeps DEF Projections!Next
  <2> QED
      BY <2>1, <2>2
<1>4. CASE Simulate
    BY <1>4 DEF Simulate
<1>5. CASE UNCHANGED vars
    BY <1>5 DEF vars
<1> QED
    BY <1>1, <1>2, <1>3, <1>4, <1>5 DEF Next

\* The invariant holds throughout.
THEOREM DemonstrationsInvariant == Spec => []DemonstrationsInv
<1>1. DemonstrationsInv /\ [Next]_vars => DemonstrationsInv'
    BY NextKeeps
<1> QED
    BY <1>1, InitEstablishes, PTL DEF Spec

-----------------------------------------------------------------------------

\* Leaders succeed each other in the configured order, each once, and all but the
\* last have failed, whatever the clock does.
THEOREM LeadersInOrder == Spec => []TermsInOrder
<1>1. DemonstrationsInv => TermsInOrder
    BY DEF DemonstrationsInv, ElectionInv
<1> QED
    BY <1>1, DemonstrationsInvariant, PTL

\* A leader is renewed before its deadline and replaced from then on, by the first
\* heartbeat() or checkLeader(), its own late heartbeat included.
THEOREM DeadlinesAreFinal == Spec => DeadlineIsFinal
<1>1. DemonstrationsInv /\ [Next]_vars => [DeadlineRespected]_electionVars
  <2> SUFFICES ASSUME DemonstrationsInv, [Next]_vars, electionVars' /= electionVars
               PROVE  DeadlineRespected
      OBVIOUS
  <2>1. ElectionNext
      BY DEF Next, Elect, UseLock, Project, Simulate, vars
  <2> QED
      BY <2>1, ElectionStep DEF DemonstrationsInv
<1> QED
    BY <1>1, DemonstrationsInvariant, PTL DEF Spec, DeadlineIsFinal, DeadlineRespected

\* The read-then-write under the lock is exact until somebody overruns its TTL.
THEOREM LockIsExact == Spec => []ExactWithinLease
<1>1. DemonstrationsInv => ExactWithinLease
    BY DEF DemonstrationsInv, LeaseInv
<1> QED
    BY <1>1, DemonstrationsInvariant, PTL

\* Whoever finds its own token in Redis has been alone since acquire().
THEOREM TokensProveExclusion == Spec => []OwnTokenMeansExclusive
<1>1. DemonstrationsInv => OwnTokenMeansExclusive
    BY DEF DemonstrationsInv, LeaseInv
<1> QED
    BY <1>1, DemonstrationsInvariant, PTL

\* Source and copies are states the writes went through, in their order.
THEOREM CopiesFollowSource == Spec => []CopiesArePrefixes
<1>1. DemonstrationsInv => CopiesArePrefixes
    BY DEF DemonstrationsInv, ProjectionInv
<1> QED
    BY <1>1, DemonstrationsInvariant, PTL

\* Read-your-writes holds for every session against every copy, at any lag.
THEOREM SessionsAreConsistent == Spec => []ReadsOwnWrites
<1>1. DemonstrationsInv => ReadsOwnWrites
    BY SessionsReadTheirWrites DEF DemonstrationsInv
<1> QED
    BY <1>1, DemonstrationsInvariant, PTL

===========================================================================
