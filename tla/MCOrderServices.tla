-------------------------- MODULE MCOrderServices --------------------------
(* Instances of OrderServices for TLC.                                      *)
EXTENDS OrderServices, TLC

CONSTANTS alice, ALICE, apple, APPLE, pear, ghost, k1, k2, old

\* alice and ALICE, apple and APPLE: two spellings of the same UUID.  There is no
\* product ghost.
MCIds == {alice, ALICE, apple, APPLE, pear, ghost}
MCLower == [i \in MCIds |-> CASE i = ALICE -> alice [] i = APPLE -> apple [] OTHER -> i]

MCStock == (apple :> 2) @@ (pear :> 1)

Order(key, customer, product, quantity) ==
    [key |-> key, customerId |-> customer, productId |-> product, quantity |-> quantity, amount |-> 1]

\* A request, the same in another spelling, the same key for another product,
\* another key that takes the rest of the stock, and a request without a key.
ContendingInputs ==
    {Order(k1, alice, apple, 2), Order(k1, ALICE, APPLE, 2), Order(k1, alice, pear, 1),
     Order(k2, alice, apple, 1), Order(Null, alice, apple, 1)}

\* A request, a retry of the old order in another spelling and a product that
\* does not exist.
MixedInputs ==
    {Order(k1, ALICE, apple, 2), Order(k2, ALICE, APPLE, 1), Order(k1, alice, ghost, 1)}

\* A table without orders, and one with a row that has no fingerprint.
NoOrders == [k \in Keys |-> Null]
OldOrder ==
    [NoOrders EXCEPT ![k2] = [id |-> old, customerId |-> alice, productId |-> apple,
                              quantity |-> 1, amount |-> 1, fingerprint |-> Null]]

\* Requests of one service are interchangeable.
RequestSymmetry == Permutations(HttpRequests) \cup Permutations(AtomicRequests)

============================================================================
