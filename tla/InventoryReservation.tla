----------------------- MODULE InventoryReservation -----------------------
(***************************************************************************)
(* The two safe reservation strategies of packages/concurrency/src/index.js*)
(* on one row of the products table: createOptimisticInventoryReservation  *)
(* (read, then update under the version that was read, with retries) and   *)
(* createPessimisticInventoryReservation (SELECT ... FOR UPDATE in a       *)
(* transaction).  Callers of both run side by side.                        *)
(*                                                                         *)
(* A statement whose connection is lost may still be carried out by the    *)
(* server later, or be dropped.                                            *)
(***************************************************************************)
EXTENDS Naturals, FiniteSets, Totals

CONSTANTS
    Optimistic, Pessimistic,  \* the reserve() calls of the two strategies
    quantity,                 \* what each call asks for; 0 is not a valid quantity
    Missing,                  \* the calls that name a product that is not there
    Stock0,
    maxRetries,
    MaxFaults,                \* bound on the lost connections and failed ROLLBACKs
    None

Calls == Optimistic \cup Pessimistic

ASSUME CallsAssumption ==
    /\ IsFiniteSet(Calls) /\ Optimistic \cap Pessimistic = {} /\ None \notin Calls
    /\ Missing \subseteq Calls
ASSUME QuantityAssumption == quantity \in [Calls -> Nat] /\ Stock0 \in Nat
ASSUME RetriesAssumption == maxRetries \in Nat /\ MaxFaults \in Nat

VARIABLES
    stock, version,  \* the row
    lock,            \* who holds it FOR UPDATE
    server,          \* what the server has of a call: nothing, an UPDATE, a transaction
    pc, attempt,
    seen,            \* `product` as findById returned it
    outcome,
    granted,         \* history: the calls whose reservation was carried out
    since,           \* history: the version when a call began
    faults

row == <<stock, version, granted>>
vars == <<stock, version, lock, server, pc, attempt, seen, outcome, granted, since, faults>>

maxAttempts == maxRetries + 1

Init ==
    /\ stock = Stock0
    /\ version = 1
    /\ lock = None
    /\ server = [c \in Calls |-> "none"]
    /\ pc = [c \in Calls |-> "new"]
    /\ attempt = [c \in Calls |-> 0]
    /\ seen = [c \in Calls |-> [stock |-> 0, version |-> 0]]
    /\ outcome = [c \in Calls |-> "none"]
    /\ granted = {}
    /\ since = [c \in Calls |-> 1]
    /\ faults = 0

-----------------------------------------------------------------------------

Goto(c, label) == pc' = [pc EXCEPT ![c] = label]

Return(c, result) == Goto(c, "done") /\ outcome' = [outcome EXCEPT ![c] = result]

Serve(c, what) == server' = [server EXCEPT ![c] = what]

\* SET stock = stock - quantity, version = version + 1.
Take(c) ==
    /\ stock' = stock - quantity[c]
    /\ version' = version + 1
    /\ granted' = granted \cup {c}

NotLocked(c) == c \in Missing \/ lock \in {None, c}

-----------------------------------------------------------------------------
(* Both strategies.                                                        *)

Begin(c) ==
    /\ pc[c] = "new"
    /\ since' = [since EXCEPT ![c] = version]
    /\ IF quantity[c] = 0
       THEN Return(c, "INVALID_INVENTORY_QUANTITY") /\ UNCHANGED <<attempt, server>>
       ELSE /\ Goto(c, IF c \in Optimistic THEN "read" ELSE "lock")
            /\ attempt' = [attempt EXCEPT ![c] = IF c \in Optimistic THEN 1 ELSE 0]
            /\ Serve(c, IF c \in Optimistic THEN "none" ELSE "transaction")
            /\ UNCHANGED outcome
    /\ UNCHANGED <<row, lock, seen, faults>>

-----------------------------------------------------------------------------
(* createOptimisticInventoryReservation                                    *)

\* findById, and the UPDATE of reserveWithVersion is sent.
Read(c) ==
    /\ pc[c] = "read"
    /\ \/ /\ c \in Missing
          /\ Return(c, "INVENTORY_PRODUCT_NOT_FOUND")
          /\ UNCHANGED <<seen, server>>
       \/ /\ c \notin Missing
          /\ stock < quantity[c]
          /\ Return(c, "INSUFFICIENT_INVENTORY")
          /\ UNCHANGED <<seen, server>>
       \/ /\ c \notin Missing
          /\ stock >= quantity[c]
          /\ seen' = [seen EXCEPT ![c] = [stock |-> stock, version |-> version]]
          /\ Serve(c, "update")
          /\ Goto(c, "update")
          /\ UNCHANGED outcome
    /\ UNCHANGED <<row, lock, attempt, since, faults>>

\* The condition of the UPDATE, evaluated when the row is free.
UpdateMatches(c) == version = seen[c].version /\ stock >= quantity[c]

\* With a bug: the stock that was read is written back less the quantity, as
\* reserveInventoryUnsafe does.
UpdateWritesBack(c) ==
    /\ server[c] = "update"
    /\ NotLocked(c)
    /\ stock' = seen[c].stock - quantity[c]
    /\ version' = version + 1
    /\ granted' = granted \cup {c}
    /\ Serve(c, "none")
    /\ IF pc[c] = "update" THEN Return(c, "reserved") ELSE UNCHANGED <<pc, outcome>>
    /\ UNCHANGED <<lock, attempt, seen, since, faults>>

UpdateSucceeds(c) ==
    /\ server[c] = "update"
    /\ NotLocked(c)
    /\ UpdateMatches(c)
    /\ Take(c)
    /\ Serve(c, "none")
    /\ IF pc[c] = "update" THEN Return(c, "reserved") ELSE UNCHANGED <<pc, outcome>>
    /\ UNCHANGED <<lock, attempt, seen, since, faults>>

\* With a bug: the result of the UPDATE is not looked at.
MissTakenForSuccess(c) ==
    /\ server[c] = "update"
    /\ NotLocked(c)
    /\ ~UpdateMatches(c)
    /\ Serve(c, "none")
    /\ IF pc[c] = "update" THEN Return(c, "reserved") ELSE UNCHANGED <<pc, outcome>>
    /\ UNCHANGED <<row, lock, attempt, seen, since, faults>>

\* No row was updated: the next attempt, or the last one is over.
UpdateMisses(c) ==
    /\ server[c] = "update"
    /\ NotLocked(c)
    /\ ~UpdateMatches(c)
    /\ Serve(c, "none")
    /\ \/ /\ pc[c] = "update"
          /\ attempt[c] < maxAttempts
          /\ attempt' = [attempt EXCEPT ![c] = @ + 1]
          /\ Goto(c, "read")
          /\ UNCHANGED outcome
       \/ /\ pc[c] = "update"
          /\ attempt[c] = maxAttempts
          /\ Return(c, "OPTIMISTIC_RETRIES_EXHAUSTED")
          /\ UNCHANGED attempt
       \/ /\ pc[c] /= "update"
          /\ UNCHANGED <<pc, outcome, attempt>>
    /\ UNCHANGED <<row, lock, seen, since, faults>>

-----------------------------------------------------------------------------
(* createPessimisticInventoryReservation                                   *)

FindByIdForUpdate(c) ==
    /\ pc[c] = "lock"
    /\ NotLocked(c)
    /\ lock' = IF c \in Missing THEN lock ELSE c
    /\ Goto(c, "decide")
    /\ UNCHANGED <<row, server, attempt, seen, outcome, since, faults>>

Unlock(c) == lock' = IF lock = c THEN None ELSE lock

\* The product is not there or has too little stock.
Refused(c) == c \in Missing \/ stock < quantity[c]
Refusal(c) == IF c \in Missing THEN "INVENTORY_PRODUCT_NOT_FOUND" ELSE "INSUFFICIENT_INVENTORY"

\* The refusal is thrown and the transaction ends with ROLLBACK.
RefuseAndRollBack(c) ==
    /\ pc[c] = "decide"
    /\ Refused(c)
    /\ Return(c, Refusal(c))
    /\ Serve(c, "none")
    /\ Unlock(c)
    /\ UNCHANGED <<row, attempt, seen, since, faults>>

\* The ROLLBACK of a refusal fails: the caller is told the refusal all the same,
\* and the connection is discarded with its session still open at the server.
RollbackFails(c) ==
    /\ pc[c] = "decide"
    /\ Refused(c)
    /\ faults < MaxFaults
    /\ faults' = faults + 1
    /\ Return(c, Refusal(c))
    /\ UNCHANGED <<row, lock, server, attempt, seen, since>>

\* reserveLocked in the transaction; COMMIT is sent.
ReserveLocked(c) ==
    /\ pc[c] = "decide"
    /\ ~Refused(c)
    /\ Goto(c, "commit")
    /\ Serve(c, "committing")
    /\ UNCHANGED <<row, lock, attempt, seen, outcome, since, faults>>

\* With a bug: reserveLocked leaves the version alone.
CommitWithoutVersion(c) ==
    /\ server[c] = "committing"
    /\ stock' = stock - quantity[c]
    /\ granted' = granted \cup {c}
    /\ Serve(c, "none")
    /\ Unlock(c)
    /\ IF pc[c] = "commit" THEN Return(c, "reserved") ELSE UNCHANGED <<pc, outcome>>
    /\ UNCHANGED <<version, attempt, seen, since, faults>>

\* With a bug: the client goes back to the pool without COMMIT.
CommitForgotten(c) ==
    /\ server[c] = "committing"
    /\ pc[c] = "commit"
    /\ Serve(c, "none")
    /\ Return(c, "reserved")
    /\ UNCHANGED <<row, lock, attempt, seen, since, faults>>

Commit(c) ==
    /\ server[c] = "committing"
    /\ Take(c)
    /\ Serve(c, "none")
    /\ Unlock(c)
    /\ IF pc[c] = "commit" THEN Return(c, "reserved") ELSE UNCHANGED <<pc, outcome>>
    /\ UNCHANGED <<attempt, seen, since, faults>>

-----------------------------------------------------------------------------
(* A lost connection.                                                      *)

ConnectionLost(c) ==
    /\ pc[c] \notin {"new", "done"}
    /\ faults < MaxFaults
    /\ faults' = faults + 1
    /\ Return(c, "DATABASE_UNAVAILABLE")
    /\ UNCHANGED <<row, lock, server, attempt, seen, since>>

\* The server drops what a lost caller left.
ServerAborts(c) ==
    /\ server[c] /= "none"
    /\ pc[c] = "done"
    /\ Serve(c, "none")
    /\ Unlock(c)
    /\ UNCHANGED <<row, pc, attempt, seen, outcome, since, faults>>

-----------------------------------------------------------------------------

Step(c) ==
    \/ Read(c) \/ UpdateSucceeds(c) \/ UpdateMisses(c)
    \/ FindByIdForUpdate(c) \/ RefuseAndRollBack(c) \/ ReserveLocked(c) \/ Commit(c)
    \/ ServerAborts(c)

Next == \E c \in Calls : Begin(c) \/ Step(c) \/ RollbackFails(c) \/ ConnectionLost(c)

Spec == Init /\ [][Next]_vars

\* Calls and the server go on when they can; a lost session ends.
FairSpec == Spec /\ \A c \in Calls : WF_vars(Step(c))

-----------------------------------------------------------------------------

Outcomes == {"none", "reserved", "INVALID_INVENTORY_QUANTITY", "INVENTORY_PRODUCT_NOT_FOUND",
             "INSUFFICIENT_INVENTORY", "OPTIMISTIC_RETRIES_EXHAUSTED", "DATABASE_UNAVAILABLE"}

TypeOK ==
    /\ stock \in Nat
    /\ version \in Nat \ {0}
    /\ lock \in Pessimistic \cup {None}
    /\ server \in [Calls -> {"none", "update", "transaction", "committing"}]
    /\ pc \in [Calls -> {"new", "read", "update", "lock", "decide", "commit", "done"}]
    /\ attempt \in [Calls -> 0..maxAttempts]
    /\ seen \in [Calls -> [stock : Nat, version : Nat]]
    /\ outcome \in [Calls -> Outcomes]
    /\ granted \subseteq Calls
    /\ since \in [Calls -> Nat]
    /\ faults \in 0..MaxFaults

\* Stock is neither lost nor oversold: what is left and what was granted is the
\* initial stock, and the version counts the reservations, whichever strategy
\* made them.
RowConserved ==
    /\ stock >= 0
    /\ stock + Total(quantity, granted) = Stock0
    /\ version = 1 + Cardinality(granted)

\* Who is told that stock was reserved has it, and who is refused has none; only
\* a lost connection leaves the caller in doubt.
ReservationTruthful ==
    \A c \in Calls :
        /\ outcome[c] = "reserved" => c \in granted
        /\ c \in granted => outcome[c] \in {"reserved", "DATABASE_UNAVAILABLE"}

\* Every lost attempt of an optimistic call is the success of somebody else: a
\* call has made at most one attempt more than reservations were carried out
\* since it began, and one that gave up saw at least as many as it had attempts.
ContentionMeansProgress ==
    \A c \in Optimistic :
        /\ attempt[c] <= version - since[c] + 1
        /\ outcome[c] = "OPTIMISTIC_RETRIES_EXHAUSTED" => version - since[c] >= maxAttempts

\* Every reserve() call is answered: no lock is left behind by a refusal, a lost
\* connection or a commit.
EveryReservationSettles == \A c \in Calls : pc[c] /= "new" ~> pc[c] = "done"

===========================================================================
