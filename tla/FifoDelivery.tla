--------------------------- MODULE FifoDelivery ---------------------------
(***************************************************************************)
(* What the queue of packages/queue promises its users, without consumers, *)
(* wake-ups or parked promises: one growing log of which a prefix has been *)
(* handled, at most one handler at work on the first unhandled entry, and  *)
(* a closing that keeps what the queue had room for and starts nothing     *)
(* more.                                                                   *)
(***************************************************************************)
EXTENDS Naturals, Sequences

CONSTANTS Messages, Capacity, overflowStrategy

VARIABLES log, handled, busy, open

vars == <<log, handled, busy, open>>

Init == log = <<>> /\ handled = 0 /\ busy = FALSE /\ open = TRUE

\* Beyond Capacity unhandled entries the queue takes a message in only if its
\* publisher may wait.
Offer(m) ==
    /\ open
    /\ overflowStrategy = "reject" => Len(log) - handled < Capacity
    /\ log' = Append(log, m)
    /\ UNCHANGED <<handled, busy, open>>

Start ==
    /\ open
    /\ ~busy
    /\ handled < Len(log)
    /\ busy' = TRUE
    /\ UNCHANGED <<log, handled, open>>

\* Back-to-back work is two steps: an acknowledgement never starts a handler.
Acknowledge ==
    /\ busy
    /\ busy' = FALSE
    /\ handled' = handled + 1
    /\ UNCHANGED <<log, open>>

Fail ==
    /\ busy
    /\ busy' = FALSE
    /\ UNCHANGED <<log, handled, open>>

\* The publishers beyond the capacity are turned away, the others keep their
\* place even though nobody will handle them.
Close ==
    /\ open
    /\ open' = FALSE
    /\ log' = IF Len(log) - handled > Capacity
              THEN SubSeq(log, 1, handled + Capacity) ELSE log
    /\ UNCHANGED <<handled, busy>>

Next ==
    \/ \E m \in Messages : Offer(m)
    \/ Start
    \/ Acknowledge
    \/ Fail
    \/ Close

Spec == Init /\ [][Next]_vars

===========================================================================
