----------------------------- MODULE RedisLock -----------------------------
(***************************************************************************)
(* createRedisLock of packages/locks around the work it is meant for: the  *)
(* read-then-write of reserveInventoryUnsafe (packages/concurrency), which *)
(* loses updates when two callers overlap.  One resource; the owners are   *)
(* processes that acquire, work, release, may start over and may die at    *)
(* any point.  Redis keeps one key with a TTL; nothing renews it.          *)
(***************************************************************************)
EXTENDS Naturals, FiniteSets

CONSTANTS
    Owners,
    InvalidTtl,    \* the owners whose ttlMs is not a positive integer
    Quantity, InitialStock,
    MaxLeases,     \* bound on the acquire() calls of an owner
    MaxLockFaults, \* bound on failing Redis commands and dying owners
    NoLease

VARIABLES
    key,        \* the token stored in Redis, or NoLease
    lease,      \* the lease acquire() returned to each owner
    at,         \* where each owner is
    tokens,     \* how many tokens each owner has made
    inventory,  \* the stock that getStock and updateStock see
    read,       \* `stock` of each owner
    sold,       \* history: the reservations that returned true
    overrun,    \* history: the owners that were still at work when their TTL ran out
    intruded,   \* history: the owners of a lease that another owner got the key after
    lockFaults

work == <<inventory, read, sold>>
lockVars == <<key, lease, at, tokens, inventory, read, sold, overrun, intruded, lockFaults>>

Init ==
    /\ key = NoLease
    /\ lease = [o \in Owners |-> NoLease]
    /\ at = [o \in Owners |-> "out"]
    /\ tokens = [o \in Owners |-> 0]
    /\ inventory = InitialStock
    /\ read = [o \in Owners |-> 0]
    /\ sold = 0
    /\ overrun = {}
    /\ intruded = {}
    /\ lockFaults = 0

-----------------------------------------------------------------------------

Move(o, place) == at' = [at EXCEPT ![o] = place]

LockFault == lockFaults < MaxLockFaults /\ lockFaults' = lockFaults + 1

\* With a bug: a token that does not tell the leases apart.
FixedToken(o) == <<1, 1>>

\* tokenFactory() never returns a value twice.
Token(o) == <<o, tokens[o] + 1>>

MakesToken(o) ==
    /\ tokens[o] < MaxLeases
    /\ tokens' = [tokens EXCEPT ![o] = @ + 1]

\* The key is stored with the token of o, after the leases others may still have.
Store(o) ==
    /\ key' = Token(o)
    /\ intruded' = (intruded \ {o}) \cup {p \in Owners \ {o} : lease[p] /= NoLease}

\* SET NX PX: the lease, or null when somebody has the key.
Acquire(o) ==
    /\ at[o] = "out"
    /\ o \notin InvalidTtl
    /\ MakesToken(o)
    /\ IF key = NoLease
       THEN /\ Store(o)
            /\ lease' = [lease EXCEPT ![o] = Token(o)]
            /\ Move(o, "getStock")
       ELSE UNCHANGED <<key, intruded, lease, at>>
    /\ UNCHANGED <<work, overrun, lockFaults>>

\* INVALID_LOCK_TTL, before a token is made.
AcquireRefused(o) ==
    /\ at[o] = "out"
    /\ o \in InvalidTtl
    /\ Move(o, "refused")
    /\ UNCHANGED <<key, lease, tokens, work, overrun, intruded, lockFaults>>

\* REDIS_LOCK_UNAVAILABLE: the key may be set, the caller does not enter.
AcquireFails(o) ==
    /\ at[o] = "out"
    /\ o \notin InvalidTtl
    /\ MakesToken(o)
    /\ LockFault
    /\ \/ key = NoLease /\ Store(o)
       \/ UNCHANGED <<key, intruded>>
    /\ UNCHANGED <<lease, at, work, overrun>>

GetStock(o) ==
    /\ at[o] = "getStock"
    /\ read' = [read EXCEPT ![o] = inventory]
    /\ Move(o, "updateStock")
    /\ UNCHANGED <<key, lease, tokens, inventory, sold, overrun, intruded, lockFaults>>

UpdateStock(o) ==
    /\ at[o] = "updateStock"
    /\ IF read[o] < Quantity
       THEN UNCHANGED <<inventory, sold>>
       ELSE inventory' = read[o] - Quantity /\ sold' = sold + 1
    /\ read' = [read EXCEPT ![o] = 0]
    /\ Move(o, "release")
    /\ UNCHANGED <<key, lease, tokens, overrun, intruded, lockFaults>>

\* With a bug: DEL without comparing the token.
DeletesAnyKey(o) == NoLease

\* The Lua script: the key goes only if it holds the token of the lease.
AfterRelease(o) == IF key = lease[o] THEN NoLease ELSE key

Release(o) ==
    /\ at[o] = "release"
    /\ key' = AfterRelease(o)
    /\ lease' = [lease EXCEPT ![o] = NoLease]
    /\ Move(o, "out")
    /\ UNCHANGED <<tokens, work, overrun, intruded, lockFaults>>

\* REDIS_LOCK_UNAVAILABLE: the script may have run.
ReleaseFails(o) ==
    /\ at[o] = "release"
    /\ LockFault
    /\ key' \in {key, AfterRelease(o)}
    /\ lease' = [lease EXCEPT ![o] = NoLease]
    /\ Move(o, "out")
    /\ UNCHANGED <<tokens, work, overrun, intruded>>

Dies(o) ==
    /\ at[o] \notin {"refused", "dead"}
    /\ LockFault
    /\ Move(o, "dead")
    /\ lease' = [lease EXCEPT ![o] = NoLease]
    /\ UNCHANGED <<key, tokens, work, overrun, intruded>>

AtWork(o) == at[o] \in {"getStock", "updateStock"}

\* The TTL runs out.
Expire ==
    /\ key /= NoLease
    /\ key' = NoLease
    /\ overrun' = overrun \cup {o \in Owners : AtWork(o) /\ lease[o] = key}
    /\ UNCHANGED <<lease, at, tokens, work, intruded, lockFaults>>

Next ==
    \/ Expire
    \/ \E o \in Owners :
         \/ Acquire(o) \/ AcquireRefused(o) \/ AcquireFails(o)
         \/ GetStock(o) \/ UpdateStock(o)
         \/ Release(o) \/ ReleaseFails(o)
         \/ Dies(o)

-----------------------------------------------------------------------------

\* As long as nobody is still at work when its TTL runs out, the lock makes the
\* unsafe read-then-write exact: no update is lost through contention, owners
\* that release late, unknown outcomes of acquire and release, or dying owners.
ExactWithinLease == overrun = {} => inventory + Quantity * sold = InitialStock

\* While Redis holds the token of a lease nobody else has had the lock since
\* acquire() returned it: a release() that answers true tells its caller that the
\* work was exclusive, however late it comes.
OwnTokenMeansExclusive ==
    \A o \in Owners : lease[o] /= NoLease /\ key = lease[o] => o \notin intruded

============================================================================
