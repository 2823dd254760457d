-------------------------- MODULE OrderProjections --------------------------
(***************************************************************************)
(* The replication and the consistency simulation of packages/concurrency. *)
(* Both keep an authoritative map of versioned orders and feed every write *)
(* through a queue to copies that catch up when they are told to: the two  *)
(* replicas of createOrderReplicationSimulation, or the read model of      *)
(* createOrderConsistencySimulation.  The copies do not know each other,   *)
(* so what is shown for each replica is shown for the read model, and      *)
(* readForSession is asked of each.                                        *)
(***************************************************************************)
EXTENDS Naturals, Sequences

CONSTANTS
    Orders,      \* order IDs
    Statuses,    \* what an order holds besides its ID and version
    Copies,      \* the replicas, or the read model
    Sessions,    \* clients that keep the token of their last write
    MaxWrites,   \* bound on the writes of a behaviour
    Absent       \* there is no record

VARIABLES
    source,    \* the primary
    copy,      \* what each copy holds
    pending,   \* the queue of each copy
    token,     \* the token of each session
    log        \* history: every write

projectionVars == <<source, copy, pending, token, log>>

Init ==
    /\ source = [i \in Orders |-> Absent]
    /\ copy = [c \in Copies |-> [i \in Orders |-> Absent]]
    /\ pending = [c \in Copies |-> <<>>]
    /\ token = [s \in Sessions |-> Absent]
    /\ log = <<>>

-----------------------------------------------------------------------------

Version(record) == IF record = Absent THEN 0 ELSE record.version

\* The order of the caller with its next version.
Versioned(i, status) ==
    [id |-> i, status |-> status, version |-> Version(source[i]) + 1]

Queued(c, record) == Append(pending[c], record)

\* writePrimary and writeOrder: the record gets the next version of its order and
\* goes to every queue; the session keeps the token it is given.
Write(s, i, status) ==
    /\ Len(log) < MaxWrites
    /\ LET record == Versioned(i, status)
       IN  /\ source' = [source EXCEPT ![i] = record]
           /\ pending' = [c \in Copies |-> Queued(c, record)]
           /\ token' = [token EXCEPT ![s] = [orderId |-> i, minimumVersion |-> record.version]]
           /\ log' = Append(log, record)
    /\ UNCHANGED copy

\* With a bug: the last update is taken first.
TakesLast(c) ==
    /\ pending[c] /= <<>>
    /\ LET update == pending[c][Len(pending[c])]
       IN  copy' = [copy EXCEPT ![c][update.id] = update]
    /\ pending' = [pending EXCEPT ![c] = SubSeq(@, 1, Len(@) - 1)]
    /\ UNCHANGED <<source, token, log>>

\* replicateNext and applyNextReadModelUpdate.
ApplyNext(c) ==
    /\ pending[c] /= <<>>
    /\ LET update == Head(pending[c])
       IN  copy' = [copy EXCEPT ![c][update.id] = update]
    /\ pending' = [pending EXCEPT ![c] = Tail(@)]
    /\ UNCHANGED <<source, token, log>>

\* With a bug: whatever the copy holds is returned.
ReadsCopy(c, t) == copy[c][t.orderId]

\* readForSession: the copy if it is recent enough, else the source.
ReadForSession(c, t) ==
    IF copy[c][t.orderId] /= Absent /\ copy[c][t.orderId].version >= t.minimumVersion
    THEN copy[c][t.orderId]
    ELSE IF Version(source[t.orderId]) >= t.minimumVersion THEN source[t.orderId] ELSE Absent

Next ==
    \/ \E s \in Sessions, i \in Orders, status \in Statuses : Write(s, i, status)
    \/ \E c \in Copies : ApplyNext(c)

-----------------------------------------------------------------------------

\* The state of the orders after the first n writes.
After(n, i) ==
    LET writes == {k \in 1..n : log[k].id = i}
    IN  IF writes = {} THEN Absent ELSE log[CHOOSE k \in writes : \A l \in writes : l <= k]

\* The source has every write and each copy a prefix of them, so it never goes
\* back, shows no state that was never there, and equals the source when its queue
\* is empty, whatever the order and the lag of the others.
CopiesArePrefixes ==
    \A i \in Orders :
        /\ source[i] = After(Len(log), i)
        /\ \A c \in Copies : copy[c][i] = After(Len(log) - Len(pending[c]), i)

\* A session that reads with the token of its last write always gets a record, and
\* one that is a write of that order from its own on, however far the copy lags and
\* whatever other sessions wrote since.
ReadsOwnWrites ==
    \A s \in Sessions, c \in Copies :
        token[s] /= Absent =>
            \E k \in 1..Len(log) :
                /\ log[k] = ReadForSession(c, token[s])
                /\ log[k].id = token[s].orderId
                /\ log[k].version >= token[s].minimumVersion

=============================================================================
