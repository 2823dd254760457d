---------------------------- MODULE OrderLedger ----------------------------
(***************************************************************************)
(* What the order tables promise their readers: an order appears whole or  *)
(* not at all, at most one per idempotency key, and never changes; a       *)
(* reserving order takes its stock and leaves its processing record in the *)
(* same instant.  Sessions, locks, retries and failures are invisible.     *)
(***************************************************************************)
EXTENDS Naturals

CONSTANTS Products, Keys, Rows, Null, Orders0, Stock0

VARIABLES stock, version, orders, processing

vars == <<stock, version, orders, processing>>

Init ==
    /\ stock = Stock0
    /\ version = [p \in Products |-> 1]
    /\ orders = Orders0
    /\ processing = {}

\* POST /orders: the stock check is advisory, only the order is stored.
Accept(k, row) ==
    /\ orders[k] = Null
    /\ orders' = [orders EXCEPT ![k] = row]
    /\ UNCHANGED <<stock, version, processing>>

\* The atomic service: order, reservation and processing record together.
AcceptReserved(k, row) ==
    /\ orders[k] = Null
    /\ row.productId \in Products
    /\ stock[row.productId] >= row.quantity
    /\ row.id \notin processing
    /\ orders' = [orders EXCEPT ![k] = row]
    /\ stock' = [stock EXCEPT ![row.productId] = @ - row.quantity]
    /\ version' = [version EXCEPT ![row.productId] = @ + 1]
    /\ processing' = processing \cup {row.id}

Next == \E k \in Keys, row \in Rows : Accept(k, row) \/ AcceptReserved(k, row)

Spec == Init /\ [][Next]_vars

============================================================================
