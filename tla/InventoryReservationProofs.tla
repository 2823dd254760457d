--------------------- MODULE InventoryReservationProofs ---------------------
(***************************************************************************)
(* TLAPS proofs about InventoryReservation, for every set of calls of the  *)
(* two strategies, every quantity, stock and number of retries.            *)
(***************************************************************************)
EXTENDS InventoryReservation, TotalsProofs

\* Where the calls of each strategy can be, and what the server has of them.
StrategyInv ==
    /\ \A c \in Optimistic :
         /\ pc[c] \in {"new", "read", "update", "done"}
         /\ server[c] \in {"none", "update"}
         /\ pc[c] \in {"new", "read"} => server[c] = "none"
         /\ pc[c] = "update" => server[c] = "update"
    /\ \A c \in Pessimistic :
         /\ pc[c] \in {"new", "lock", "decide", "commit", "done"}
         /\ server[c] \in {"none", "transaction", "committing"}
         /\ pc[c] = "new" => server[c] = "none"
         /\ pc[c] \in {"lock", "decide"} => server[c] = "transaction"
         /\ pc[c] = "commit" => server[c] = "committing"
    /\ \A c \in Missing : server[c] \notin {"update", "committing"}

\* The lock belongs to an open transaction, and the stock that was found under it
\* is there until it commits.
LockInv ==
    \A c \in Pessimistic :
        /\ lock = c => c \notin Missing /\ server[c] \in {"transaction", "committing"}
        /\ pc[c] = "decide" /\ c \notin Missing => lock = c
        /\ server[c] = "committing" => lock = c /\ stock >= quantity[c]

\* What the caller is told and what was carried out: a call has no outcome before
\* it is answered, is granted once, and only a lost connection leaves a COMMIT or
\* an UPDATE behind at the server (a failed ROLLBACK leaves an open transaction).
GrantInv ==
    \A c \in Calls :
        /\ outcome[c] = "reserved" => c \in granted
        /\ c \in granted => /\ pc[c] = "done" /\ server[c] = "none"
                            /\ outcome[c] \in {"reserved", "DATABASE_UNAVAILABLE"}
        /\ pc[c] /= "done" => outcome[c] = "none"
        /\ pc[c] = "done" /\ server[c] \in {"update", "committing"} =>
             outcome[c] = "DATABASE_UNAVAILABLE"

\* While the version is the one that was read so is the stock, and each attempt
\* read a later version than the one before.
ReadInv ==
    \A c \in Optimistic :
        /\ pc[c] = "new" => attempt[c] = 0
        /\ since[c] <= version
        /\ server[c] = "update" =>
             /\ seen[c].version <= version
             /\ seen[c].version = version => stock >= quantity[c]
             /\ attempt[c] <= seen[c].version - since[c] + 1

\* The inductive invariant.
ReservationInv ==
    /\ TypeOK
    /\ StrategyInv
    /\ LockInv
    /\ GrantInv
    /\ RowConserved
    /\ ReadInv
    /\ ContentionMeansProgress

-----------------------------------------------------------------------------

\* One more call is granted: the stock it asked for goes and the version counts it.
LEMMA OneMoreGranted ==
    ASSUME ReservationInv, NEW c \in Calls, c \notin granted, Take(c), stock >= quantity[c]
    PROVE  RowConserved'
<1>1. IsFiniteSet(granted) /\ \A q \in granted \cup {c} : quantity[q] \in Nat
    BY CallsAssumption, QuantityAssumption, FS_Subset DEF ReservationInv, TypeOK
<1>2. Cardinality(granted \cup {c}) = Cardinality(granted) + 1
    BY <1>1, FS_AddElement
<1>3. Total(quantity, granted \cup {c}) = Total(quantity, granted) + quantity[c]
    BY <1>1, TotalOfOneMore
<1>4. Cardinality(granted) \in Nat /\ Total(quantity, granted) \in Nat
    BY <1>1, FS_CardinalityType, UnitsFinite
<1>5. stock \in Nat /\ quantity[c] \in Nat
    BY QuantityAssumption DEF ReservationInv, TypeOK
<1> QED
    BY <1>2, <1>3, <1>4, <1>5 DEF Take, ReservationInv, RowConserved

-----------------------------------------------------------------------------
(* Every action keeps the invariant.                                       *)

\* A call is refused for its quantity, or begins at the version of that moment.
LEMMA BeginKeeps ==
    ASSUME ReservationInv, NEW c \in Calls, Begin(c)
    PROVE  ReservationInv'
<1> USE DEF ReservationInv, Begin, Goto, Return, Serve, row, Calls
<1>1. TypeOK'
    BY CallsAssumption, QuantityAssumption, RetriesAssumption DEF TypeOK, StrategyInv,
       LockInv, Outcomes, maxAttempts
<1>2. StrategyInv'
    BY CallsAssumption DEF TypeOK, StrategyInv
<1>3. LockInv'
    BY CallsAssumption, QuantityAssumption DEF TypeOK, StrategyInv, LockInv
<1>4. GrantInv'
    BY DEF TypeOK, StrategyInv, GrantInv
<1>5. RowConserved'
    BY DEF RowConserved
<1>6. ReadInv'
    BY CallsAssumption, QuantityAssumption DEF TypeOK, StrategyInv, ReadInv,
       ContentionMeansProgress
<1>7. ContentionMeansProgress'
    BY CallsAssumption, QuantityAssumption, RetriesAssumption DEF TypeOK, StrategyInv,
       ReadInv, ContentionMeansProgress, GrantInv, maxAttempts
<1> QED
    BY <1>1, <1>2, <1>3, <1>4, <1>5, <1>6, <1>7

\* An optimistic call reads the row: stock and version belong together.
LEMMA ReadKeeps ==
    ASSUME ReservationInv, NEW c \in Calls, Read(c)
    PROVE  ReservationInv'
<1> USE DEF ReservationInv, Read, Goto, Return, Serve, row, Calls
<1>1. TypeOK'
    BY CallsAssumption, QuantityAssumption, RetriesAssumption DEF TypeOK, StrategyInv,
       LockInv, Outcomes, maxAttempts
<1>2. StrategyInv'
    BY CallsAssumption DEF TypeOK, StrategyInv
<1>3. LockInv'
    BY CallsAssumption, QuantityAssumption DEF TypeOK, StrategyInv, LockInv
<1>4. GrantInv'
    BY DEF TypeOK, StrategyInv, GrantInv
<1>5. RowConserved'
    BY DEF RowConserved
<1>6. ReadInv'
    BY CallsAssumption, QuantityAssumption DEF TypeOK, StrategyInv, ReadInv,
       ContentionMeansProgress
<1>7. ContentionMeansProgress'
    BY CallsAssumption, QuantityAssumption, RetriesAssumption DEF TypeOK, StrategyInv,
       ReadInv, ContentionMeansProgress, GrantInv, maxAttempts
<1> QED
    BY <1>1, <1>2, <1>3, <1>4, <1>5, <1>6, <1>7

\* The version is the one that was read, so the stock is, and nobody holds the row.
LEMMA UpdateSucceedsKeeps ==
    ASSUME ReservationInv, NEW c \in Calls, UpdateSucceeds(c)
    PROVE  ReservationInv'
<1> USE DEF ReservationInv, UpdateSucceeds, Return, Serve, Take, NotLocked,
       UpdateMatches, Goto, Calls
<1>1. TypeOK'
    BY CallsAssumption, QuantityAssumption, RetriesAssumption DEF TypeOK, StrategyInv,
       LockInv, Outcomes, maxAttempts
<1>2. StrategyInv'
    BY CallsAssumption DEF TypeOK, StrategyInv
<1>3. LockInv'
    BY CallsAssumption, QuantityAssumption DEF TypeOK, StrategyInv, LockInv
<1>4. GrantInv'
    BY DEF TypeOK, StrategyInv, GrantInv
<1>5. RowConserved'
    BY OneMoreGranted DEF GrantInv, LockInv, StrategyInv
<1>6. ReadInv'
    BY CallsAssumption, QuantityAssumption DEF TypeOK, StrategyInv, ReadInv,
       ContentionMeansProgress
<1>7. ContentionMeansProgress'
    BY CallsAssumption, QuantityAssumption, RetriesAssumption DEF TypeOK, StrategyInv,
       ReadInv, ContentionMeansProgress, GrantInv, maxAttempts
<1> QED
    BY <1>1, <1>2, <1>3, <1>4, <1>5, <1>6, <1>7

\* The version is another than the one that was read: somebody was granted since.
LEMMA UpdateMissesKeeps ==
    ASSUME ReservationInv, NEW c \in Calls, UpdateMisses(c)
    PROVE  ReservationInv'
<1> USE DEF ReservationInv, UpdateMisses, Goto, Return, Serve, NotLocked,
       UpdateMatches, row, Calls
<1>1. TypeOK'
    BY CallsAssumption, QuantityAssumption, RetriesAssumption DEF TypeOK, StrategyInv,
       LockInv, Outcomes, maxAttempts
<1>2. StrategyInv'
    BY CallsAssumption DEF TypeOK, StrategyInv
<1>3. LockInv'
    BY CallsAssumption, QuantityAssumption DEF TypeOK, StrategyInv, LockInv
<1>4. GrantInv'
    BY DEF TypeOK, StrategyInv, GrantInv
<1>5. RowConserved'
    BY DEF RowConserved
<1>6. ReadInv'
    BY CallsAssumption, QuantityAssumption DEF TypeOK, StrategyInv, ReadInv,
       ContentionMeansProgress
<1>7. ContentionMeansProgress'
  <2>1. c \in Optimistic /\ server[c] = "update"
    BY CallsAssumption DEF TypeOK, StrategyInv
  <2>2. /\ version \in Nat /\ attempt[c] \in Nat /\ seen[c].version \in Nat /\ since[c] \in Nat
        /\ stock \in Nat /\ quantity[c] \in Nat
    BY QuantityAssumption DEF TypeOK
  <2>3. seen[c].version < version
    BY <2>1, <2>2 DEF ReadInv
  <2>4. attempt[c] <= version - since[c]
    BY <2>1, <2>2, <2>3 DEF ReadInv
  <2>5. attempt'[c] <= version - since[c] + 1
    BY <2>2, <2>4 DEF TypeOK
  <2>6. outcome'[c] = "OPTIMISTIC_RETRIES_EXHAUSTED" => version - since[c] >= maxAttempts
    BY <2>1, <2>2, <2>4, RetriesAssumption DEF TypeOK, ContentionMeansProgress,
       maxAttempts
  <2>7. \A q \in Optimistic \ {c} : attempt'[q] = attempt[q] /\ outcome'[q] = outcome[q]
    BY DEF TypeOK
  <2> QED
    BY <2>5, <2>6, <2>7 DEF ContentionMeansProgress
<1> QED
    BY <1>1, <1>2, <1>3, <1>4, <1>5, <1>6, <1>7

\* The row was free, or is its own.
LEMMA FindByIdForUpdateKeeps ==
    ASSUME ReservationInv, NEW c \in Calls, FindByIdForUpdate(c)
    PROVE  ReservationInv'
<1> USE DEF ReservationInv, FindByIdForUpdate, Goto, NotLocked, row, Calls
<1>1. TypeOK'
    BY CallsAssumption, QuantityAssumption, RetriesAssumption DEF TypeOK, StrategyInv,
       LockInv, Outcomes, maxAttempts
<1>2. StrategyInv'
    BY CallsAssumption DEF TypeOK, StrategyInv
<1>3. LockInv'
    BY CallsAssumption, QuantityAssumption DEF TypeOK, StrategyInv, LockInv
<1>4. GrantInv'
    BY DEF TypeOK, StrategyInv, GrantInv
<1>5. RowConserved'
    BY DEF RowConserved
<1>6. ReadInv'
    BY CallsAssumption, QuantityAssumption DEF TypeOK, StrategyInv, ReadInv,
       ContentionMeansProgress
<1>7. ContentionMeansProgress'
    BY CallsAssumption, QuantityAssumption, RetriesAssumption DEF TypeOK, StrategyInv,
       ReadInv, ContentionMeansProgress, GrantInv, maxAttempts
<1> QED
    BY <1>1, <1>2, <1>3, <1>4, <1>5, <1>6, <1>7

\* A refusal releases the row and takes nothing.
LEMMA RefuseAndRollBackKeeps ==
    ASSUME ReservationInv, NEW c \in Calls, RefuseAndRollBack(c)
    PROVE  ReservationInv'
<1> USE DEF ReservationInv, RefuseAndRollBack, Return, Serve, Unlock, Refused,
       Refusal, row, Goto, Calls
<1>1. TypeOK'
    BY CallsAssumption, QuantityAssumption, RetriesAssumption DEF TypeOK, StrategyInv,
       LockInv, Outcomes, maxAttempts
<1>2. StrategyInv'
    BY CallsAssumption DEF TypeOK, StrategyInv
<1>3. LockInv'
    BY CallsAssumption, QuantityAssumption DEF TypeOK, StrategyInv, LockInv
<1>4. GrantInv'
    BY DEF TypeOK, StrategyInv, GrantInv
<1>5. RowConserved'
    BY DEF RowConserved
<1>6. ReadInv'
    BY CallsAssumption, QuantityAssumption DEF TypeOK, StrategyInv, ReadInv,
       ContentionMeansProgress
<1>7. ContentionMeansProgress'
    BY CallsAssumption, QuantityAssumption, RetriesAssumption DEF TypeOK, StrategyInv,
       ReadInv, ContentionMeansProgress, GrantInv, maxAttempts
<1> QED
    BY <1>1, <1>2, <1>3, <1>4, <1>5, <1>6, <1>7

\* A refusal whose ROLLBACK fails takes nothing either; the row stays locked until
\* the server ends the session.
LEMMA RollbackFailsKeeps ==
    ASSUME ReservationInv, NEW c \in Calls, RollbackFails(c)
    PROVE  ReservationInv'
<1> USE DEF ReservationInv, RollbackFails, Return, Refused, Refusal, row, Goto, Calls
<1>1. TypeOK'
    BY CallsAssumption, QuantityAssumption, RetriesAssumption DEF TypeOK, StrategyInv,
       LockInv, Outcomes, maxAttempts
<1>2. StrategyInv'
    BY CallsAssumption DEF TypeOK, StrategyInv
<1>3. LockInv'
    BY CallsAssumption, QuantityAssumption DEF TypeOK, StrategyInv, LockInv
<1>4. GrantInv'
    BY DEF TypeOK, StrategyInv, GrantInv
<1>5. RowConserved'
    BY DEF RowConserved
<1>6. ReadInv'
    BY CallsAssumption, QuantityAssumption DEF TypeOK, StrategyInv, ReadInv,
       ContentionMeansProgress
<1>7. ContentionMeansProgress'
    BY CallsAssumption, QuantityAssumption, RetriesAssumption DEF TypeOK, StrategyInv,
       ReadInv, ContentionMeansProgress, GrantInv, maxAttempts
<1> QED
    BY <1>1, <1>2, <1>3, <1>4, <1>5, <1>6, <1>7

\* The stock is there and the row is held until COMMIT.
LEMMA ReserveLockedKeeps ==
    ASSUME ReservationInv, NEW c \in Calls, ReserveLocked(c)
    PROVE  ReservationInv'
<1> USE DEF ReservationInv, ReserveLocked, Refused, Goto, Serve, row, Calls
<1>1. TypeOK'
    BY CallsAssumption, QuantityAssumption, RetriesAssumption DEF TypeOK, StrategyInv,
       LockInv, Outcomes, maxAttempts
<1>2. StrategyInv'
    BY CallsAssumption DEF TypeOK, StrategyInv
<1>3. LockInv'
    BY CallsAssumption, QuantityAssumption DEF TypeOK, StrategyInv, LockInv
<1>4. GrantInv'
    BY DEF TypeOK, StrategyInv, GrantInv
<1>5. RowConserved'
    BY DEF RowConserved
<1>6. ReadInv'
    BY CallsAssumption, QuantityAssumption DEF TypeOK, StrategyInv, ReadInv,
       ContentionMeansProgress
<1>7. ContentionMeansProgress'
    BY CallsAssumption, QuantityAssumption, RetriesAssumption DEF TypeOK, StrategyInv,
       ReadInv, ContentionMeansProgress, GrantInv, maxAttempts
<1> QED
    BY <1>1, <1>2, <1>3, <1>4, <1>5, <1>6, <1>7

\* COMMIT takes the stock that was found under the lock.
LEMMA CommitKeeps ==
    ASSUME ReservationInv, NEW c \in Calls, Commit(c)
    PROVE  ReservationInv'
<1> USE DEF ReservationInv, Commit, Return, Serve, Take, Unlock, Goto, Calls
<1>1. TypeOK'
    BY CallsAssumption, QuantityAssumption, RetriesAssumption DEF TypeOK, StrategyInv,
       LockInv, Outcomes, maxAttempts
<1>2. StrategyInv'
    BY CallsAssumption DEF TypeOK, StrategyInv
<1>3. LockInv'
    BY CallsAssumption, QuantityAssumption DEF TypeOK, StrategyInv, LockInv
<1>4. GrantInv'
    BY DEF TypeOK, StrategyInv, GrantInv
<1>5. RowConserved'
    BY OneMoreGranted DEF GrantInv, LockInv, StrategyInv
<1>6. ReadInv'
    BY CallsAssumption, QuantityAssumption DEF TypeOK, StrategyInv, ReadInv,
       ContentionMeansProgress
<1>7. ContentionMeansProgress'
    BY CallsAssumption, QuantityAssumption, RetriesAssumption DEF TypeOK, StrategyInv,
       ReadInv, ContentionMeansProgress, GrantInv, maxAttempts
<1> QED
    BY <1>1, <1>2, <1>3, <1>4, <1>5, <1>6, <1>7

\* The caller gives up; what the server has of the call stays.
LEMMA ConnectionLostKeeps ==
    ASSUME ReservationInv, NEW c \in Calls, ConnectionLost(c)
    PROVE  ReservationInv'
<1> USE DEF ReservationInv, ConnectionLost, Return, row, Goto, Calls
<1>1. TypeOK'
    BY CallsAssumption, QuantityAssumption, RetriesAssumption DEF TypeOK, StrategyInv,
       LockInv, Outcomes, maxAttempts
<1>2. StrategyInv'
    BY CallsAssumption DEF TypeOK, StrategyInv
<1>3. LockInv'
    BY CallsAssumption, QuantityAssumption DEF TypeOK, StrategyInv, LockInv
<1>4. GrantInv'
    BY DEF TypeOK, StrategyInv, GrantInv
<1>5. RowConserved'
    BY DEF RowConserved
<1>6. ReadInv'
    BY CallsAssumption, QuantityAssumption DEF TypeOK, StrategyInv, ReadInv,
       ContentionMeansProgress
<1>7. ContentionMeansProgress'
    BY CallsAssumption, QuantityAssumption, RetriesAssumption DEF TypeOK, StrategyInv,
       ReadInv, ContentionMeansProgress, GrantInv, maxAttempts
<1> QED
    BY <1>1, <1>2, <1>3, <1>4, <1>5, <1>6, <1>7

\* The server drops what a lost caller left, with its lock.
LEMMA ServerAbortsKeeps ==
    ASSUME ReservationInv, NEW c \in Calls, ServerAborts(c)
    PROVE  ReservationInv'
<1> USE DEF ReservationInv, ServerAborts, Serve, Unlock, row, Calls
<1>1. TypeOK'
    BY CallsAssumption, QuantityAssumption, RetriesAssumption DEF TypeOK, StrategyInv,
       LockInv, Outcomes, maxAttempts
<1>2. StrategyInv'
    BY CallsAssumption DEF TypeOK, StrategyInv
<1>3. LockInv'
    BY CallsAssumption, QuantityAssumption DEF TypeOK, StrategyInv, LockInv
<1>4. GrantInv'
    BY DEF TypeOK, StrategyInv, GrantInv
<1>5. RowConserved'
    BY DEF RowConserved
<1>6. ReadInv'
    BY CallsAssumption, QuantityAssumption DEF TypeOK, StrategyInv, ReadInv,
       ContentionMeansProgress
<1>7. ContentionMeansProgress'
    BY CallsAssumption, QuantityAssumption, RetriesAssumption DEF TypeOK, StrategyInv,
       ReadInv, ContentionMeansProgress, GrantInv, maxAttempts
<1> QED
    BY <1>1, <1>2, <1>3, <1>4, <1>5, <1>6, <1>7

\* A step that changes nothing.
LEMMA StutterKeeps ==
    ASSUME ReservationInv, UNCHANGED vars
    PROVE  ReservationInv'
BY DEF ReservationInv, TypeOK, StrategyInv, LockInv, GrantInv, RowConserved, ReadInv,
       ContentionMeansProgress, vars

\* Before the first call: the whole stock, no lock, nothing granted.
LEMMA InitEstablishes == Init => ReservationInv
<1> SUFFICES ASSUME Init PROVE ReservationInv
    OBVIOUS
<1> USE DEF Init, Calls
<1>1. TypeOK /\ StrategyInv
    BY CallsAssumption, QuantityAssumption, RetriesAssumption
       DEF TypeOK, StrategyInv, Outcomes, maxAttempts
<1>2. LockInv /\ GrantInv
    BY CallsAssumption DEF LockInv, GrantInv
<1>3. RowConserved
    BY FS_EmptySet, TotalOfNothing, QuantityAssumption DEF RowConserved
<1>4. ReadInv /\ ContentionMeansProgress
    BY DEF ReadInv, ContentionMeansProgress
<1> QED
    BY <1>1, <1>2, <1>3, <1>4 DEF ReservationInv

\* The invariant is inductive: however the calls of the two strategies, lost
\* connections and the server interleave, every step keeps it.
THEOREM ReservationInvariant == Spec => []ReservationInv
<1>1. Init => ReservationInv
    BY InitEstablishes
<1>2. ReservationInv /\ [Next]_vars => ReservationInv'
  <2> SUFFICES ASSUME ReservationInv, [Next]_vars PROVE ReservationInv'
    OBVIOUS
  <2>1. ASSUME NEW c \in Calls, Begin(c) PROVE ReservationInv'
    BY <2>1, BeginKeeps
  <2>2. ASSUME NEW c \in Calls, Step(c) PROVE ReservationInv'
    BY <2>2, ReadKeeps, UpdateSucceedsKeeps, UpdateMissesKeeps, FindByIdForUpdateKeeps,
       RefuseAndRollBackKeeps, ReserveLockedKeeps, CommitKeeps, ServerAbortsKeeps DEF Step
  <2>3. ASSUME NEW c \in Calls, ConnectionLost(c) PROVE ReservationInv'
    BY <2>3, ConnectionLostKeeps
  <2>4. ASSUME NEW c \in Calls, RollbackFails(c) PROVE ReservationInv'
    BY <2>4, RollbackFailsKeeps
  <2>5. CASE UNCHANGED vars
    BY <2>5, StutterKeeps
  <2> QED
    BY <2>1, <2>2, <2>3, <2>4, <2>5 DEF Next
<1> QED
    BY <1>1, <1>2, PTL DEF Spec

-----------------------------------------------------------------------------

\* No stock is lost, invented or sold twice by the two strategies side by side.
THEOREM RowIsConserved == Spec => [](TypeOK /\ RowConserved)
<1>1. ReservationInv => TypeOK /\ RowConserved
    BY DEF ReservationInv
<1> QED
    BY <1>1, ReservationInvariant, PTL

\* "reserved" means granted, a refusal means not granted, and only
\* DATABASE_UNAVAILABLE leaves the caller in doubt.
THEOREM OutcomesAreTruthful == Spec => []ReservationTruthful
<1>1. ReservationInv => ReservationTruthful
    BY DEF ReservationInv, GrantInv, ReservationTruthful
<1> QED
    BY <1>1, ReservationInvariant, PTL

\* Every lost attempt of an optimistic call is somebody else's reservation.
THEOREM ContentionIsProgress == Spec => []ContentionMeansProgress
<1>1. ReservationInv => ContentionMeansProgress
    BY DEF ReservationInv
<1> QED
    BY <1>1, ReservationInvariant, PTL

=============================================================================
