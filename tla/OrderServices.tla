--------------------------- MODULE OrderServices ---------------------------
(***************************************************************************)
(* The two order services of apps/api over the repositories of             *)
(* packages/database: createOrder of create-order.js (POST /orders, pool   *)
(* queries only) and createOrder of create-atomic-order.js (one            *)
(* transaction through withTransaction).  PostgreSQL is modelled by what   *)
(* the statements rely on: READ COMMITTED snapshots per statement, FOR     *)
(* UPDATE row locks, the unique idempotency_key, the foreign key check of  *)
(* an inserted order, deadlock detection, and sessions that outlive a      *)
(* client that lost its connection.                                        *)
(*                                                                         *)
(* A request is one createOrder call and names the id its idGenerator      *)
(* draws.  A retry is another request with the same input.                 *)
(***************************************************************************)
EXTENDS Naturals, FiniteSets, Totals

CONSTANTS
    HttpRequests,    \* calls of createOrderService().createOrder
    AtomicRequests,  \* calls of createAtomicOrderService().createOrder
    Inputs,          \* what a caller may send
    Ids, Lower,      \* customer and product ids as written; their lower-case form
    Keys,            \* idempotency keys
    Products, Stock0,
    Orders0,         \* the orders table at the start (rows before the fingerprint column)
    PoolMax,         \* max of the connection pool
    MaxFaults, MaxCrashes, \* bounds on the failures of a behaviour
    Null

Requests == HttpRequests \cup AtomicRequests

\* The body and Idempotency-Key of a caller: a blank key is Null.
Input == [key : Keys \cup {Null}, customerId : Ids, productId : Ids,
          quantity : Nat, amount : Nat]

VARIABLES
    \* the tables
    stock, version, orders, processing,
    \* the database sessions, by request
    tx, writes, rowLock,
    \* the createOrder calls
    pc, input, seen, code, answer,
    \* the API process
    clients, events,
    \* failures so far
    faults, crashes

tables == <<stock, version, orders, processing>>
session == <<tx, writes, rowLock>>
call == <<pc, input, seen, code, answer>>
process == <<clients, events>>
failures == <<faults, crashes>>
vars == <<stock, version, orders, processing, tx, writes, rowLock, pc, input, seen,
          code, answer, clients, events, faults, crashes>>

-----------------------------------------------------------------------------
(* Fingerprints.                                                           *)

\* sha256 of the canonical request; UUIDs are lower-cased before hashing.
fingerprintOrderRequest(o) ==
    <<Lower[o.customerId], Lower[o.productId], o.quantity, o.amount>>

\* The row request r inserts for input i: a uuid column stores the lower-case form.
RowFor(r, i) == [id |-> r,
                 customerId |-> Lower[i.customerId],
                 productId |-> Lower[i.productId],
                 quantity |-> i.quantity,
                 amount |-> i.amount,
                 fingerprint |-> fingerprintOrderRequest(i)]

Row(r) == RowFor(r, input[r])

\* The rows the two services may insert.
NewRows == {RowFor(r, i) : r \in Requests, i \in Inputs}

StoredFingerprint(row) ==
    IF row.fingerprint = Null THEN fingerprintOrderRequest(row) ELSE row.fingerprint

SameRequest(row, r) == StoredFingerprint(row) = fingerprintOrderRequest(input[r])

ProductOf(r) == Lower[input[r].productId]

KeyOf(r) == input[r].key

Valid(i) == i.key /= Null /\ i.quantity > 0 /\ i.amount > 0

-----------------------------------------------------------------------------
(* What is assumed of the constants.                                       *)

ASSUME RequestsAssumption ==
    /\ IsFiniteSet(Requests)
    /\ HttpRequests \cap AtomicRequests = {}
    /\ Null \notin Requests

ASSUME InputsAssumption == Inputs \subseteq Input /\ Lower \in [Ids -> Ids] /\ Null \notin Nat

ASSUME TablesAssumption ==
    /\ IsFiniteSet(Keys) /\ Null \notin Keys
    /\ Stock0 \in [Products -> Nat]
    /\ Orders0 = [k \in Keys |-> Orders0[k]]
    /\ \A k \in Keys : Orders0[k] /= Null => Orders0[k].id \notin Requests

ASSUME PoolAssumption == PoolMax \in Nat \ {0}

\* A row and a fingerprint are never SQL NULL.
ASSUME NullAssumption ==
    /\ Null \notin NewRows
    /\ \A i \in Inputs : fingerprintOrderRequest(i) /= Null

-----------------------------------------------------------------------------

Init ==
    /\ stock = Stock0
    /\ version = [p \in Products |-> 1]
    /\ orders = Orders0
    /\ processing = {}
    /\ tx = [r \in Requests |-> "none"]
    /\ writes = [r \in Requests |-> {}]
    /\ rowLock = [p \in Products |-> Null]
    /\ pc = [r \in Requests |-> "new"]
    /\ input \in [Requests -> Inputs]
    /\ seen = [r \in Requests |-> Null]
    /\ code = [r \in Requests |-> "none"]
    /\ answer = [r \in Requests |-> Null]
    /\ clients = 0
    /\ events = {}
    /\ faults = 0
    /\ crashes = 0

-----------------------------------------------------------------------------
(* Small steps the actions are made of.                                    *)

Goto(r, label) == pc' = [pc EXCEPT ![r] = label]

\* The call has its result; it is answered when pc is "done".
Result(r, c, a) == /\ code' = [code EXCEPT ![r] = c]
                   /\ answer' = [answer EXCEPT ![r] = a]

\* With a bug: the fingerprints are not compared.
ResolveWithoutFingerprint(r) == Result(r, "ok", orders[KeyOf(r)].id)

\* resolveIdempotentOrder(record, requestFingerprint)
ResolveIdempotentOrder(r) ==
    IF SameRequest(orders[KeyOf(r)], r)
    THEN Result(r, "ok", orders[KeyOf(r)].id)
    ELSE Result(r, "IDEMPOTENCY_KEY_REUSED", Null)

\* The writes of a session become visible and its locks are released.
Apply(r) ==
    /\ orders' = IF "order" \in writes[r]
                 THEN [orders EXCEPT ![KeyOf(r)] = Row(r)] ELSE orders
    /\ stock' = IF "reservation" \in writes[r]
                THEN [stock EXCEPT ![ProductOf(r)] = @ - input[r].quantity] ELSE stock
    /\ version' = IF "reservation" \in writes[r]
                  THEN [version EXCEPT ![ProductOf(r)] = @ + 1] ELSE version
    /\ processing' = IF "processing" \in writes[r] THEN processing \cup {r} ELSE processing

EndSession(r) ==
    /\ tx' = [tx EXCEPT ![r] = "none"]
    /\ writes' = [writes EXCEPT ![r] = {}]
    /\ rowLock' = [p \in Products |-> IF rowLock[p] = r THEN Null ELSE rowLock[p]]

\* Another session holds an uncommitted row with the same key.
KeyHeld(r) ==
    \E q \in Requests \ {r} : "order" \in writes[q] /\ KeyOf(q) = KeyOf(r)

\* Another session holds the product row FOR UPDATE.
RowHeld(r) ==
    ProductOf(r) \in Products /\ rowLock[ProductOf(r)] \notin {Null, r}

PoolHasClient == clients < PoolMax

-----------------------------------------------------------------------------
(* Both services: validation and the first lookup, through the pool.       *)

Receive(r) ==
    /\ pc[r] = "new"
    /\ IF Valid(input[r])
       THEN Goto(r, "lookup") /\ UNCHANGED <<code, answer>>
       ELSE Goto(r, "done") /\ Result(r, "VALIDATION_ERROR", Null)
    /\ UNCHANGED <<tables, session, input, seen, process, failures>>

FindExisting(r) ==
    /\ pc[r] = "lookup"
    /\ PoolHasClient
    /\ IF orders[KeyOf(r)] /= Null
       THEN ResolveIdempotentOrder(r) /\ Goto(r, "done")
       ELSE /\ Goto(r, IF r \in HttpRequests THEN "product" ELSE "connect")
            /\ UNCHANGED <<code, answer>>
    /\ UNCHANGED <<tables, session, input, seen, process, failures>>

-----------------------------------------------------------------------------
(* create-order.js                                                         *)

\* findById and the advisory stock check.
ReadProduct(r) ==
    /\ pc[r] = "product"
    /\ PoolHasClient
    /\ \/ /\ ProductOf(r) \notin Products
          /\ Result(r, "PRODUCT_NOT_FOUND", Null)
          /\ Goto(r, "done")
       \/ /\ ProductOf(r) \in Products
          /\ stock[ProductOf(r)] < input[r].quantity
          /\ Result(r, "INSUFFICIENT_INVENTORY", Null)
          /\ Goto(r, "done")
       \/ /\ ProductOf(r) \in Products
          /\ stock[ProductOf(r)] >= input[r].quantity
          /\ Goto(r, "create")
          /\ UNCHANGED <<code, answer>>
    /\ UNCHANGED <<tables, session, input, seen, process, failures>>

\* createIdempotent sends its autocommit INSERT on a client of the pool.
SendInsert(r) ==
    /\ pc[r] = "create"
    /\ PoolHasClient
    /\ clients' = clients + 1
    /\ tx' = [tx EXCEPT ![r] = "sent"]
    /\ Goto(r, "insert")
    /\ UNCHANGED <<tables, writes, rowLock, input, seen, code, answer, events, failures>>

\* The server inserts the row, or finds a committed one and does nothing; it
\* first waits for another session that is inserting the key.  The caller, if
\* it is still there, then gets its client back.
InsertAutocommit(r) ==
    /\ tx[r] = "sent"
    /\ ~KeyHeld(r)
    /\ \/ /\ orders[KeyOf(r)] = Null
          /\ writes' = [writes EXCEPT ![r] = {"order"}]
          /\ tx' = [tx EXCEPT ![r] = "checking"]
          /\ UNCHANGED <<pc, clients>>
       \/ /\ orders[KeyOf(r)] /= Null
          /\ tx' = [tx EXCEPT ![r] = "none"]
          /\ IF pc[r] = "insert"
             THEN Goto(r, "refetch") /\ clients' = clients - 1
             ELSE UNCHANGED <<pc, clients>>
          /\ UNCHANGED writes
    /\ UNCHANGED <<tables, rowLock, input, seen, code, answer, events, failures>>

\* The foreign key check of the inserted row needs the product row, which no
\* other session may hold FOR UPDATE; then the statement commits.
CheckForeignKey(r) ==
    /\ tx[r] = "checking"
    /\ ~RowHeld(r)
    /\ Apply(r)
    /\ EndSession(r)
    /\ IF pc[r] = "insert"
       THEN Goto(r, "publish") /\ clients' = clients - 1
       ELSE UNCHANGED <<pc, clients>>
    /\ UNCHANGED <<input, seen, code, answer, events, failures>>

\* The insert lost: findByIdempotencyKey loads the winner.
Refetch(r) ==
    /\ r \in HttpRequests
    /\ pc[r] = "refetch"
    /\ PoolHasClient
    /\ ResolveIdempotentOrder(r)
    /\ Goto(r, "done")
    /\ UNCHANGED <<tables, session, input, seen, process, failures>>

\* The insert won: the ORDER_CREATED message goes to the (unbounded) queue.
Publish(r) ==
    /\ pc[r] = "publish"
    /\ events' = events \cup {r}
    /\ Result(r, "ok", r)
    /\ Goto(r, "done")
    /\ UNCHANGED <<tables, session, input, seen, clients, failures>>

-----------------------------------------------------------------------------
(* create-atomic-order.js inside withTransaction                           *)

Connect(r) ==
    /\ pc[r] = "connect"
    /\ PoolHasClient
    /\ clients' = clients + 1
    /\ Goto(r, "begin")
    /\ UNCHANGED <<tables, session, input, seen, code, answer, events, failures>>

Begin(r) ==
    /\ pc[r] = "begin"
    /\ tx' = [tx EXCEPT ![r] = "open"]
    /\ Goto(r, "lock")
    /\ UNCHANGED <<tables, writes, rowLock, input, seen, code, answer, process, failures>>

\* SELECT ... FOR UPDATE waits for the row and keeps it until the session ends.
FindByIdForUpdate(r) ==
    /\ pc[r] = "lock"
    /\ ~RowHeld(r)
    /\ rowLock' = [p \in Products |-> IF p = ProductOf(r) THEN r ELSE rowLock[p]]
    /\ seen' = [seen EXCEPT ![r] =
         IF ProductOf(r) \in Products THEN stock[ProductOf(r)] ELSE Null]
    /\ Goto(r, "recheck")
    /\ UNCHANGED <<tables, tx, writes, input, code, answer, process, failures>>

\* With a bug: the stock test comes before the second look at the key.
RecheckStockFirst(r) ==
    /\ pc[r] = "recheck"
    /\ \/ /\ seen[r] = Null
          /\ Result(r, "PRODUCT_NOT_FOUND", Null)
          /\ Goto(r, "rollback")
       \/ /\ seen[r] /= Null
          /\ seen[r] < input[r].quantity
          /\ Result(r, "INSUFFICIENT_INVENTORY", Null)
          /\ Goto(r, "rollback")
       \/ /\ seen[r] /= Null
          /\ seen[r] >= input[r].quantity
          /\ orders[KeyOf(r)] /= Null
          /\ ResolveIdempotentOrder(r)
          /\ Goto(r, IF SameRequest(orders[KeyOf(r)], r) THEN "commit" ELSE "rollback")
       \/ /\ seen[r] /= Null
          /\ seen[r] >= input[r].quantity
          /\ orders[KeyOf(r)] = Null
          /\ Goto(r, "reserve")
          /\ UNCHANGED <<code, answer>>
    /\ UNCHANGED <<tables, session, input, seen, process, failures>>

\* The second look at the key, under the row lock, and then the decisions on
\* the product that was read when the lock was taken.
Recheck(r) ==
    /\ pc[r] = "recheck"
    /\ \/ /\ orders[KeyOf(r)] /= Null
          /\ ResolveIdempotentOrder(r)
          /\ Goto(r, IF SameRequest(orders[KeyOf(r)], r) THEN "commit" ELSE "rollback")
       \/ /\ orders[KeyOf(r)] = Null
          /\ seen[r] = Null
          /\ Result(r, "PRODUCT_NOT_FOUND", Null)
          /\ Goto(r, "rollback")
       \/ /\ orders[KeyOf(r)] = Null
          /\ seen[r] /= Null
          /\ seen[r] < input[r].quantity
          /\ Result(r, "INSUFFICIENT_INVENTORY", Null)
          /\ Goto(r, "rollback")
       \/ /\ orders[KeyOf(r)] = Null
          /\ seen[r] /= Null
          /\ seen[r] >= input[r].quantity
          /\ Goto(r, "reserve")
          /\ UNCHANGED <<code, answer>>
    /\ UNCHANGED <<tables, session, input, seen, process, failures>>

\* With a bug: the repository is built on the pool, so the UPDATE commits alone.
ReserveOutsideTransaction(r) ==
    /\ pc[r] = "reserve"
    /\ stock' = [stock EXCEPT ![ProductOf(r)] = @ - input[r].quantity]
    /\ version' = [version EXCEPT ![ProductOf(r)] = @ + 1]
    /\ Goto(r, "insert")
    /\ UNCHANGED <<orders, processing, session, input, seen, code, answer, process, failures>>

\* reserveLocked: UPDATE ... WHERE stock >= quantity.
ReserveLocked(r) ==
    /\ pc[r] = "reserve"
    /\ IF stock[ProductOf(r)] >= input[r].quantity
       THEN /\ writes' = [writes EXCEPT ![r] = @ \cup {"reservation"}]
            /\ Goto(r, "insert")
            /\ UNCHANGED <<code, answer>>
       ELSE /\ Result(r, "INSUFFICIENT_INVENTORY", Null)
            /\ Goto(r, "rollback")
            /\ UNCHANGED writes
    /\ UNCHANGED <<tables, tx, rowLock, input, seen, process, failures>>

\* With a bug: ON CONFLICT DO UPDATE, the later order replaces the stored one.
InsertUpserts(r) ==
    /\ r \in AtomicRequests
    /\ pc[r] = "insert"
    /\ ~KeyHeld(r)
    /\ writes' = [writes EXCEPT ![r] = @ \cup {"order"}]
    /\ Goto(r, "job")
    /\ UNCHANGED <<tables, tx, rowLock, input, seen, code, answer, process, failures>>

\* createIdempotent in the transaction; its foreign key check is granted at
\* once because this session holds the product row.
InsertInTransaction(r) ==
    /\ r \in AtomicRequests
    /\ pc[r] = "insert"
    /\ ~KeyHeld(r)
    /\ IF orders[KeyOf(r)] = Null
       THEN writes' = [writes EXCEPT ![r] = @ \cup {"order"}] /\ Goto(r, "job")
       ELSE Goto(r, "refetch") /\ UNCHANGED writes
    /\ UNCHANGED <<tables, tx, rowLock, input, seen, code, answer, process, failures>>

\* The insert lost: the winner is loaded and thrown as IdempotentReplay, or the
\* key turns out to be reused; the reservation is rolled back either way.
RefetchInTransaction(r) ==
    /\ r \in AtomicRequests
    /\ pc[r] = "refetch"
    /\ ResolveIdempotentOrder(r)
    /\ Goto(r, "rollback")
    /\ UNCHANGED <<tables, session, input, seen, process, failures>>

\* With a bug: the processing record is forgotten.
SkipProcessing(r) ==
    /\ pc[r] = "job"
    /\ Result(r, "ok", r)
    /\ Goto(r, "commit")
    /\ UNCHANGED <<tables, session, input, seen, process, failures>>

CreateProcessing(r) ==
    /\ pc[r] = "job"
    /\ writes' = [writes EXCEPT ![r] = @ \cup {"processing"}]
    /\ Result(r, "ok", r)
    /\ Goto(r, "commit")
    /\ UNCHANGED <<tables, tx, rowLock, input, seen, process, failures>>

Commit(r) ==
    /\ pc[r] = "commit"
    /\ Apply(r)
    /\ EndSession(r)
    /\ Goto(r, "release")
    /\ UNCHANGED <<input, seen, code, answer, process, failures>>

\* ROLLBACK after any error in the transaction; on a lost connection it cannot
\* reach the server.
Rollback(r) ==
    /\ pc[r] = "rollback"
    /\ code[r] /= "DATABASE_UNAVAILABLE"
    /\ EndSession(r)
    /\ Goto(r, "release")
    /\ UNCHANGED <<tables, input, seen, code, answer, process, failures>>

\* With a bug: the client is given back after COMMIT and not in a finally block.
ReleaseOnSuccessOnly(r) ==
    /\ pc[r] = "release"
    /\ clients' = IF code[r] = "ok" THEN clients - 1 ELSE clients
    /\ Goto(r, "done")
    /\ UNCHANGED <<tables, session, input, seen, code, answer, events, failures>>

\* The finally block gives the client back, whatever happened.
Release(r) ==
    /\ pc[r] = "release"
    /\ clients' = clients - 1
    /\ Goto(r, "done")
    /\ UNCHANGED <<tables, session, input, seen, code, answer, events, failures>>

-----------------------------------------------------------------------------
(* Failures.  runQuery and withTransaction turn a lost connection into     *)
(* DATABASE_UNAVAILABLE; any other database error becomes INTERNAL_ERROR.  *)

Fault == faults < MaxFaults /\ faults' = faults + 1 /\ UNCHANGED crashes

DatabaseError == {"DATABASE_UNAVAILABLE", "INTERNAL_ERROR"}

\* A pool query, or pool.connect(), fails before anything was sent that writes.
PoolQueryFails(r, c) ==
    /\ \/ pc[r] \in {"lookup", "product", "create", "connect"}
       \/ r \in HttpRequests /\ pc[r] = "refetch"
    /\ Result(r, c, Null)
    /\ Goto(r, "done")
    /\ Fault
    /\ UNCHANGED <<tables, session, input, seen, process>>

\* The connection of the autocommit INSERT is lost: its outcome is unknown and
\* the statement may still run.
InsertConnectionLost(r) ==
    /\ r \in HttpRequests
    /\ pc[r] = "insert"
    /\ Result(r, "DATABASE_UNAVAILABLE", Null)
    /\ Goto(r, "done")
    /\ clients' = clients - 1
    /\ Fault
    /\ UNCHANGED <<tables, session, input, seen, events>>

BeginFails(r, c) ==
    /\ pc[r] = "begin"
    /\ Result(r, c, Null)
    /\ Goto(r, "release")
    /\ Fault
    /\ UNCHANGED <<tables, session, input, seen, process>>

\* A statement of the transaction fails.  An error the server reports has
\* aborted the session; a lost connection leaves it behind.
StatementFails(r, c) ==
    /\ r \in AtomicRequests
    /\ pc[r] \in {"lock", "recheck", "reserve", "insert", "refetch", "job"}
    /\ Result(r, c, Null)
    /\ Goto(r, "rollback")
    /\ IF c = "INTERNAL_ERROR" THEN EndSession(r) ELSE UNCHANGED session
    /\ Fault
    /\ UNCHANGED <<tables, input, seen, process>>

\* The connection is lost with COMMIT on its way: the server may carry it out.
CommitConnectionLost(r) ==
    /\ pc[r] = "commit"
    /\ Result(r, "DATABASE_UNAVAILABLE", Null)
    /\ tx' = [tx EXCEPT ![r] = "committing"]
    /\ Goto(r, "rollback")
    /\ Fault
    /\ UNCHANGED <<tables, writes, rowLock, input, seen, process>>

\* ROLLBACK fails: the client is discarded and the first error still reported.
RollbackFails(r) ==
    /\ pc[r] = "rollback"
    /\ Goto(r, "release")
    /\ IF code[r] = "DATABASE_UNAVAILABLE" THEN UNCHANGED failures ELSE Fault
    /\ UNCHANGED <<tables, session, input, seen, code, answer, process>>

\* The server notices that nobody is at the other end of a session.
ServerAbort(r) ==
    /\ tx[r] /= "none"
    /\ pc[r] \in {"release", "done", "crashed"}
    /\ EndSession(r)
    /\ UNCHANGED <<tables, call, process, failures>>

\* The server carries out a COMMIT whose sender is gone.
ServerCommit(r) ==
    /\ tx[r] = "committing"
    /\ Apply(r)
    /\ EndSession(r)
    /\ UNCHANGED <<call, process, failures>>

\* The API process dies with its calls, its pool and its queue; sessions stay.
CrashApi ==
    /\ crashes < MaxCrashes
    /\ crashes' = crashes + 1
    /\ pc' = [r \in Requests |-> IF pc[r] \in {"new", "done"} THEN pc[r] ELSE "crashed"]
    /\ tx' = [r \in Requests |-> IF pc[r] = "commit" THEN "committing" ELSE tx[r]]
    /\ clients' = 0
    /\ events' = {}
    /\ UNCHANGED <<tables, writes, rowLock, input, seen, code, answer, faults>>

\* What the lock manager sees: q keeps r's statement from going on.
WaitsFor(r, q) ==
    /\ q /= r
    /\ \/ /\ pc[r] = "lock" \/ tx[r] = "checking"
          /\ ProductOf(r) \in Products
          /\ rowLock[ProductOf(r)] = q
       \/ /\ tx[r] = "sent" \/ (r \in AtomicRequests /\ pc[r] = "insert")
          /\ "order" \in writes[q]
          /\ KeyOf(q) = KeyOf(r)

Deadlocked(r) ==
    \E cycle \in SUBSET Requests :
        /\ r \in cycle
        /\ \A x \in cycle : /\ \E y \in cycle : WaitsFor(x, y)
                            /\ \E y \in cycle : WaitsFor(y, x)

\* deadlock_timeout: one statement of the cycle fails and its session is aborted.
DeadlockVictim(r) ==
    /\ Deadlocked(r)
    /\ EndSession(r)
    /\ \/ /\ pc[r] \in {"lock", "insert"}
          /\ Result(r, "INTERNAL_ERROR", Null)
          /\ IF r \in HttpRequests
             THEN Goto(r, "done") /\ clients' = clients - 1
             ELSE Goto(r, "rollback") /\ UNCHANGED clients
       \/ /\ pc[r] \notin {"lock", "insert"}
          /\ UNCHANGED <<pc, code, answer, clients>>
    /\ UNCHANGED <<tables, input, seen, events, failures>>

-----------------------------------------------------------------------------

\* What a createOrder call and the server do for a request when nothing fails.
Step(r) ==
    \/ Receive(r) \/ FindExisting(r)
    \/ ReadProduct(r) \/ SendInsert(r) \/ InsertAutocommit(r) \/ CheckForeignKey(r)
    \/ Refetch(r) \/ Publish(r)
    \/ Connect(r) \/ Begin(r) \/ FindByIdForUpdate(r) \/ Recheck(r) \/ ReserveLocked(r)
    \/ InsertInTransaction(r) \/ RefetchInTransaction(r) \/ CreateProcessing(r)
    \/ Commit(r) \/ Rollback(r) \/ Release(r)

\* What follows a failure by itself.
Recovery(r) == RollbackFails(r) \/ ServerAbort(r) \/ ServerCommit(r)

Failure(r) ==
    \/ \E c \in DatabaseError :
         PoolQueryFails(r, c) \/ BeginFails(r, c) \/ StatementFails(r, c)
    \/ InsertConnectionLost(r)
    \/ CommitConnectionLost(r)

Next ==
    \/ \E r \in Requests : Step(r) \/ Recovery(r) \/ Failure(r) \/ DeadlockVictim(r)
    \/ CrashApi

Spec == Init /\ [][Next]_vars

\* The event loop and the server go on with what they can do, a lost session is
\* noticed in the end, and the server breaks every deadlock.
Fairness ==
    /\ \A r \in Requests : WF_vars(Step(r)) /\ WF_vars(Recovery(r))
    /\ WF_vars(\E r \in Requests : DeadlockVictim(r))

FairSpec == Spec /\ Fairness

-----------------------------------------------------------------------------

Codes == {"none", "ok", "VALIDATION_ERROR", "PRODUCT_NOT_FOUND", "INSUFFICIENT_INVENTORY",
          "IDEMPOTENCY_KEY_REUSED", "DATABASE_UNAVAILABLE", "INTERNAL_ERROR"}

Labels == {"new", "lookup", "product", "create", "insert", "refetch", "publish", "connect",
           "begin", "lock", "recheck", "reserve", "job", "commit", "rollback", "release",
           "done", "crashed"}

\* The ids of the rows the table starts with.
LegacyIds == {Orders0[k].id : k \in {k \in Keys : Orders0[k] /= Null}}

TypeOK ==
    /\ stock \in [Products -> Nat]
    /\ version \in [Products -> Nat \ {0}]
    /\ orders \in [Keys -> NewRows \cup {Orders0[k] : k \in Keys} \cup {Null}]
    /\ processing \subseteq AtomicRequests
    /\ tx \in [Requests -> {"none", "sent", "checking", "open", "committing"}]
    /\ writes \in [Requests -> SUBSET {"reservation", "order", "processing"}]
    /\ rowLock \in [Products -> AtomicRequests \cup {Null}]
    /\ pc \in [Requests -> Labels]
    /\ input \in [Requests -> Inputs]
    /\ seen \in [Requests -> Nat \cup {Null}]
    /\ code \in [Requests -> Codes]
    /\ answer \in [Requests -> Requests \cup LegacyIds \cup {Null}]
    /\ clients \in 0..PoolMax
    /\ events \subseteq HttpRequests

\* The keys whose order the atomic service stored.
ReservingKeys == {k \in Keys : orders[k] /= Null /\ orders[k].id \in AtomicRequests}

\* An order of the atomic service is visible if and only if its processing
\* record is, and the product's version counts exactly the visible orders that
\* took stock from it: no failure, crash, lost COMMIT or rolled back duplicate
\* leaves a part of the three writes behind.
AtomicVisibility ==
    /\ processing = {orders[k].id : k \in ReservingKeys}
    /\ \A p \in Products :
         version[p] = 1 + Cardinality({k \in ReservingKeys : orders[k].productId = p})

\* What the visible orders of the atomic service took from product p.
Reserved(p) ==
    Total([k \in ReservingKeys |-> orders[k].quantity],
          {k \in ReservingKeys : orders[k].productId = p})

\* Stock is neither lost nor invented: what is left and what the visible orders
\* of the atomic service took is always the initial stock.
StockConserved == \A p \in Products : stock[p] + Reserved(p) = Stock0[p]

\* Every caller that is told "201" holds the order stored under its key, made
\* from an equal payload, and every caller told IDEMPOTENCY_KEY_REUSED met a
\* stored order with another payload.  Since a stored order never changes, all
\* retries of a request get one order, also when the first attempt's outcome
\* was unknown and its COMMIT arrived during the retry.  An event is published
\* only for a stored order.
AnswerTruthful ==
    /\ \A r \in Requests : pc[r] = "done" =>
         /\ code[r] = "ok" =>
              /\ orders[KeyOf(r)] /= Null
              /\ orders[KeyOf(r)].id = answer[r]
              /\ SameRequest(orders[KeyOf(r)], r)
         /\ code[r] = "IDEMPOTENCY_KEY_REUSED" =>
              /\ orders[KeyOf(r)] /= Null
              /\ ~SameRequest(orders[KeyOf(r)], r)
    /\ \A r \in events : orders[KeyOf(r)] /= Null /\ orders[KeyOf(r)].id = r

\* A caller of the atomic service is told INSUFFICIENT_INVENTORY only if no
\* twin of its request reserved stock: the stock a retry misses was not taken
\* by the request it repeats (the second look at the key, under the row lock).
NoSpuriousInsufficient ==
    \A r \in AtomicRequests :
        pc[r] = "done" /\ code[r] = "INSUFFICIENT_INVENTORY" =>
            ~(KeyOf(r) \in ReservingKeys /\ SameRequest(orders[KeyOf(r)], r))

\* Every call is answered unless the process crashes under it: no client of the
\* pool leaks on an error path, no lock survives its session, and a deadlock
\* between the two services is broken.
EveryCallSettles ==
    \A r \in Requests : pc[r] /= "new" ~> pc[r] \in {"done", "crashed"}

\* The idempotency guide says of POST /orders that the same key with the same
\* payload returns the original order, also for simultaneous requests that both
\* miss the first lookup.  ReadProduct answers from the stock as it is after the
\* lookup, so a caller whose twin was stored in between can be told
\* INSUFFICIENT_INVENTORY instead.
HttpRetryReturnsOriginal ==
    [][\A r \in HttpRequests :
         code[r] = "none" /\ code'[r] = "INSUFFICIENT_INVENTORY" =>
             ~(orders[KeyOf(r)] /= Null /\ SameRequest(orders[KeyOf(r)], r))]_vars

-----------------------------------------------------------------------------
Ledger == INSTANCE OrderLedger WITH
    Rows <- NewRows

\* Both services together implement the ledger: whatever their sessions do,
\* the tables change only by accepting one whole order under a free key.
ImplementsLedger == Ledger!Spec

============================================================================
