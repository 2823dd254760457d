------------------------ MODULE OrderServicesProofs ------------------------
(***************************************************************************)
(* TLAPS proofs about OrderServices, for every set of calls, inputs, keys  *)
(* and products, every initial table and every pool size.                  *)
(***************************************************************************)
EXTENDS OrderServices, TotalsProofs

HttpLabels == {"new", "lookup", "product", "create", "insert", "refetch", "publish",
               "done", "crashed"}
AtomicLabels == {"new", "lookup", "connect", "begin", "lock", "recheck", "reserve", "insert",
                 "refetch", "job", "commit", "rollback", "release", "done", "crashed"}

\* The writes of a transaction of the atomic service that is complete.
Whole == {"reservation", "order", "processing"}

\* Where each service can be, and what sessions it has.
KindInv ==
    /\ \A r \in HttpRequests : pc[r] \in HttpLabels /\ tx[r] \in {"none", "sent", "checking"}
    /\ \A r \in AtomicRequests : pc[r] \in AtomicLabels /\ tx[r] \in {"none", "open", "committing"}

\* A request that is not valid gets no further than its answer.
ValidInv ==
    \A r \in Requests :
        \/ Valid(input[r])
        \/ pc[r] \in {"new", "done"} /\ code[r] \in {"none", "VALIDATION_ERROR"} /\ tx[r] = "none"

\* What a session has written, by where its statement or its caller stands.
SessionInv ==
    /\ \A r \in Requests :
         /\ tx[r] \in {"none", "sent"} => writes[r] = {}
         /\ tx[r] = "checking" => writes[r] = {"order"}
         /\ tx[r] = "committing" => writes[r] \in {{}, Whole}
    /\ \A r \in HttpRequests : tx[r] /= "none" => pc[r] \in {"insert", "done", "crashed"}
    /\ \A r \in AtomicRequests :
         /\ pc[r] \in {"new", "lookup", "connect", "begin"} => tx[r] = "none"
         /\ pc[r] \in {"lock", "recheck", "reserve", "insert", "refetch", "job", "commit"} =>
              tx[r] = "open"
         /\ pc[r] \in {"lock", "recheck", "reserve"} => writes[r] = {}
         /\ pc[r] \in {"insert", "refetch"} => writes[r] = {"reservation"}
         /\ pc[r] = "job" => writes[r] = {"reservation", "order"}
         /\ pc[r] = "commit" => writes[r] \in {{}, Whole}
         /\ "order" \in writes[r] => "reservation" \in writes[r]

\* Who has to hold the product row.
NeedsRow(r) ==
    pc[r] \in {"recheck", "reserve", "insert", "refetch", "job"} \/ "reservation" \in writes[r]

\* A held row belongs to a session of the atomic service that asked for it, and
\* who relies on the row holds it.
LockInv ==
    /\ \A p \in Products, r \in AtomicRequests :
         rowLock[p] = r => tx[r] /= "none" /\ ProductOf(r) = p
    /\ \A r \in AtomicRequests :
         NeedsRow(r) /\ ProductOf(r) \in Products => rowLock[ProductOf(r)] = r

Enough(r) == ProductOf(r) \in Products /\ stock[ProductOf(r)] >= input[r].quantity

\* What was read under the lock is still true, and what is reserved is there.
StockInv ==
    \A r \in AtomicRequests :
        /\ pc[r] = "recheck" =>
             seen[r] = IF ProductOf(r) \in Products THEN stock[ProductOf(r)] ELSE Null
        /\ pc[r] = "reserve" \/ "reservation" \in writes[r] => Enough(r)

\* The key of an uncommitted order is free and nobody else is inserting it.
KeyInv ==
    \A r \in Requests : "order" \in writes[r] =>
        /\ orders[KeyOf(r)] = Null
        /\ \A q \in Requests : "order" \in writes[q] /\ KeyOf(q) = KeyOf(r) => q = r

\* A row is from the start, or of a request with that key.
RowInv ==
    \A k \in Keys :
        \/ orders[k] = Orders0[k]
        \/ \E r \in Requests : Valid(input[r]) /\ KeyOf(r) = k /\ orders[k] = Row(r)

\* The stored order under the key of r is the one r is told.
Told(r) ==
    /\ orders[KeyOf(r)] /= Null
    /\ orders[KeyOf(r)].id = answer[r]
    /\ SameRequest(orders[KeyOf(r)], r)

\* Answers are true from the moment they are decided, but for the one that waits
\* for its COMMIT.
AnswerInv ==
    /\ \A r \in Requests :
         /\ pc[r] = "refetch" => orders[KeyOf(r)] /= Null
         /\ pc[r] = "publish" => orders[KeyOf(r)] = Row(r)
         /\ code[r] = "ok" =>
              \/ pc[r] = "crashed"
              \/ pc[r] = "commit" /\ writes[r] = Whole /\ answer[r] = r
              \/ Told(r)
         /\ code[r] = "IDEMPOTENCY_KEY_REUSED" =>
              orders[KeyOf(r)] /= Null /\ ~SameRequest(orders[KeyOf(r)], r)
    /\ \A r \in events : Valid(input[r]) /\ orders[KeyOf(r)] = Row(r)

\* The stock that was too little stays too little, and no twin has reserved.
ScarceInv ==
    \A r \in AtomicRequests : code[r] = "INSUFFICIENT_INVENTORY" =>
        /\ Valid(input[r])
        /\ ~Enough(r)
        /\ ~(KeyOf(r) \in ReservingKeys /\ SameRequest(orders[KeyOf(r)], r))

\* The calls that have a client of the pool.
HasClient(r) ==
    \/ r \in HttpRequests /\ pc[r] = "insert"
    \/ /\ r \in AtomicRequests
       /\ pc[r] \in {"begin", "lock", "recheck", "reserve", "insert", "refetch", "job", "commit",
                     "rollback", "release"}

Holders == {r \in Requests : HasClient(r)}

\* No client is lost or given back twice.
ClientInv == clients = Cardinality(Holders)

\* The inductive invariant.
OInv ==
    /\ TypeOK
    /\ KindInv
    /\ ValidInv
    /\ SessionInv
    /\ LockInv
    /\ StockInv
    /\ KeyInv
    /\ RowInv
    /\ AtomicVisibility
    /\ StockConserved
    /\ AnswerInv
    /\ ScarceInv
    /\ ClientInv

-----------------------------------------------------------------------------
(* What the inputs and the keys are.                                       *)

\* The inputs are what InputsAssumption says, and a valid one has a key.
LEMMA InputFacts ==
    ASSUME TypeOK, NEW r \in Requests
    PROVE  /\ input[r] \in Inputs
           /\ input[r].quantity \in Nat
           /\ Valid(input[r]) => KeyOf(r) \in Keys
    BY InputsAssumption DEF TypeOK, Input, Valid, KeyOf

\* Inputs never change, and with them what is derived from them.
LEMMA InputFixed ==
    ASSUME input' = input
    PROVE  \A r \in Requests : /\ KeyOf(r)' = KeyOf(r)
                               /\ ProductOf(r)' = ProductOf(r)
                               /\ Row(r)' = Row(r)
                               /\ Valid(input[r])' = Valid(input[r])
    BY DEF KeyOf, ProductOf, Row, RowFor, Valid, fingerprintOrderRequest

\* The id of a stored row is that of a request or of an old row.
LEMMA RowIds ==
    ASSUME OInv, NEW k \in Keys, orders[k] /= Null
    PROVE  orders[k].id \in Requests \cup LegacyIds
<1>1. CASE orders[k] = Orders0[k]
    BY <1>1 DEF LegacyIds
<1>2. CASE \E r \in Requests : orders[k] = Row(r)
    BY <1>2 DEF Row, RowFor
<1> QED
    BY <1>1, <1>2 DEF OInv, RowInv

\* The key of a valid request has a row with an id, if it has one.
LEMMA AnswerTypes ==
    ASSUME OInv, NEW r \in Requests, Valid(input[r])
    PROVE  /\ KeyOf(r) \in Keys
           /\ orders[KeyOf(r)] /= Null => orders[KeyOf(r)].id \in Requests \cup LegacyIds
    BY InputFacts, RowIds DEF OInv

\* The row of a request is what its caller asked for.
LEMMA OwnRow ==
    ASSUME TypeOK, NEW r \in Requests
    PROVE  Row(r) \in NewRows /\ Row(r) /= Null /\ Row(r).id = r /\ SameRequest(Row(r), r)
    BY InputFacts, NullAssumption DEF Row, RowFor, NewRows, SameRequest,
       StoredFingerprint

\* A step that leaves the tables alone.
LEMMA TablesAlone ==
    ASSUME OInv, UNCHANGED <<stock, version, orders, processing, input>>
    PROVE  RowInv' /\ AtomicVisibility' /\ StockConserved'
    BY InputFixed DEF OInv, RowInv, AtomicVisibility, StockConserved, Reserved,
       ReservingKeys

-----------------------------------------------------------------------------
(* The clients of the pool.                                                *)

\* The holders are finitely many.
LEMMA HoldersFinite == IsFiniteSet(Holders)
<1>1. Holders \subseteq Requests
    BY DEF Holders
<1> QED
    BY <1>1, RequestsAssumption, FS_Subset

\* Nobody takes a client or gives one back.
LEMMA ClientsKept ==
    ASSUME OInv, UNCHANGED clients, \A r \in Requests : HasClient(r)' <=> HasClient(r)
    PROVE  ClientInv'
<1>1. Holders' = Holders
    BY DEF Holders
<1> QED
    BY <1>1 DEF OInv, ClientInv

\* One call takes a client.
LEMMA ClientTaken ==
    ASSUME OInv, NEW r \in Requests, clients' = clients + 1,
           ~HasClient(r), HasClient(r)',
           \A q \in Requests \ {r} : HasClient(q)' <=> HasClient(q)
    PROVE  ClientInv'
<1>1. Holders' = Holders \cup {r} /\ r \notin Holders
    BY DEF Holders
<1>2. Cardinality(Holders \cup {r}) = Cardinality(Holders) + 1
    BY <1>1, HoldersFinite, FS_AddElement
<1> QED
    BY <1>1, <1>2 DEF OInv, ClientInv

\* One call gives its client back; there was one to give.
LEMMA ClientReturned ==
    ASSUME OInv, NEW r \in Requests, HasClient(r), clients' = clients - 1, ~HasClient(r)',
           \A q \in Requests \ {r} : HasClient(q)' <=> HasClient(q)
    PROVE  ClientInv' /\ clients' \in 0..PoolMax
<1>1. Holders' = Holders \ {r} /\ r \in Holders
    BY DEF Holders
<1>2. Cardinality(Holders \ {r}) = Cardinality(Holders) - 1
    BY <1>1, HoldersFinite, FS_RemoveElement
<1>3. Cardinality(Holders \ {r}) \in Nat /\ Cardinality(Holders) \in Nat
    BY HoldersFinite, FS_RemoveElement, FS_CardinalityType
<1> QED
    BY <1>1, <1>2, <1>3, PoolAssumption DEF OInv, ClientInv, TypeOK

-----------------------------------------------------------------------------
(* Every action keeps the invariant.                                       *)

\* Validation: a request that is not valid is answered and goes no further.
LEMMA ReceiveKeeps ==
    ASSUME OInv, NEW r \in Requests, Receive(r)
    PROVE  OInv'
<1> USE DEF OInv, Receive, Goto, Result, tables, session, process, failures, Requests
<1>1. ClientInv'
    BY ClientsKept, RequestsAssumption DEF TypeOK, KindInv, HttpLabels, AtomicLabels,
       HasClient
<1>2. TypeOK'
    BY DEF TypeOK, Labels, Codes
<1>3. KindInv'
    BY RequestsAssumption DEF TypeOK, KindInv, HttpLabels, AtomicLabels
<1>4. ValidInv'
    BY InputFixed DEF TypeOK, KindInv, HttpLabels, AtomicLabels, ValidInv
<1>5. SessionInv'
    BY RequestsAssumption DEF TypeOK, KindInv, HttpLabels, AtomicLabels, SessionInv
<1>6. LockInv'
    BY InputFixed, RequestsAssumption DEF TypeOK, KindInv, LockInv, NeedsRow, HttpLabels
<1>7. StockInv'
    BY InputFixed, RequestsAssumption DEF TypeOK, KindInv, HttpLabels, StockInv, Enough
<1>8. KeyInv'
    BY InputFixed DEF TypeOK, KeyInv
<1>9. RowInv' /\ AtomicVisibility' /\ StockConserved'
    BY TablesAlone
<1>10. AnswerInv'
    BY InputFixed, OwnRow DEF TypeOK, ValidInv, AnswerInv, Told, SameRequest, SessionInv
<1>11. ScarceInv'
    BY InputFixed, InputFacts, RequestsAssumption DEF TypeOK, KindInv, AtomicLabels,
       StockInv, ValidInv, ScarceInv, Enough, ReservingKeys, SameRequest
<1> QED
    BY <1>1, <1>2, <1>3, <1>4, <1>5, <1>6, <1>7, <1>8, <1>9, <1>10, <1>11

\* The first lookup: a stored row gives the answer, which is then true of it.
LEMMA FindExistingKeeps ==
    ASSUME OInv, NEW r \in Requests, FindExisting(r)
    PROVE  OInv'
<1> USE DEF OInv, FindExisting, Goto, tables, session, process, failures, Result,
       ResolveIdempotentOrder, Requests
<1>1. ClientInv'
    BY ClientsKept, RequestsAssumption DEF TypeOK, KindInv, HttpLabels, AtomicLabels,
       HasClient
<1>2. TypeOK'
    BY AnswerTypes DEF TypeOK, ValidInv, Labels, Codes
<1>3. KindInv'
    BY RequestsAssumption DEF TypeOK, KindInv, HttpLabels, AtomicLabels
<1>4. ValidInv'
    BY InputFixed DEF TypeOK, KindInv, HttpLabels, AtomicLabels, ValidInv
<1>5. SessionInv'
    BY RequestsAssumption DEF TypeOK, KindInv, HttpLabels, AtomicLabels, SessionInv
<1>6. LockInv'
    BY InputFixed, RequestsAssumption DEF TypeOK, KindInv, LockInv, NeedsRow, HttpLabels
<1>7. StockInv'
    BY InputFixed, RequestsAssumption DEF TypeOK, KindInv, HttpLabels, StockInv, Enough
<1>8. KeyInv'
    BY InputFixed DEF TypeOK, KeyInv
<1>9. RowInv' /\ AtomicVisibility' /\ StockConserved'
    BY TablesAlone
<1>10. AnswerInv'
    BY InputFixed, OwnRow DEF TypeOK, ValidInv, AnswerInv, Told, SameRequest, SessionInv
<1>11. ScarceInv'
    BY InputFixed, InputFacts, RequestsAssumption DEF TypeOK, KindInv, AtomicLabels,
       StockInv, ValidInv, ScarceInv, Enough, ReservingKeys, SameRequest
<1> QED
    BY <1>1, <1>2, <1>3, <1>4, <1>5, <1>6, <1>7, <1>8, <1>9, <1>10, <1>11

\* The advisory stock check of create-order.js tells no lie about stored orders.
LEMMA ReadProductKeeps ==
    ASSUME OInv, NEW r \in Requests, ReadProduct(r)
    PROVE  OInv'
<1> USE DEF OInv, ReadProduct, Goto, Result, tables, session, process, failures,
       Requests
<1>1. ClientInv'
    BY ClientsKept, RequestsAssumption DEF TypeOK, KindInv, HttpLabels, AtomicLabels,
       HasClient
<1>2. TypeOK'
    BY DEF TypeOK, Labels, Codes
<1>3. KindInv'
    BY RequestsAssumption DEF TypeOK, KindInv, HttpLabels, AtomicLabels
<1>4. ValidInv'
    BY InputFixed DEF TypeOK, KindInv, HttpLabels, AtomicLabels, ValidInv
<1>5. SessionInv'
    BY RequestsAssumption DEF TypeOK, KindInv, HttpLabels, AtomicLabels, SessionInv
<1>6. LockInv'
    BY InputFixed, RequestsAssumption DEF TypeOK, KindInv, LockInv, NeedsRow, HttpLabels
<1>7. StockInv'
    BY InputFixed, RequestsAssumption DEF TypeOK, KindInv, HttpLabels, StockInv, Enough
<1>8. KeyInv'
    BY InputFixed DEF TypeOK, KeyInv
<1>9. RowInv' /\ AtomicVisibility' /\ StockConserved'
    BY TablesAlone
<1>10. AnswerInv'
    BY InputFixed, OwnRow DEF TypeOK, ValidInv, AnswerInv, Told, SameRequest, SessionInv
<1>11. ScarceInv'
    BY InputFixed, InputFacts, RequestsAssumption DEF TypeOK, KindInv, AtomicLabels,
       StockInv, ValidInv, ScarceInv, Enough, ReservingKeys, SameRequest
<1> QED
    BY <1>1, <1>2, <1>3, <1>4, <1>5, <1>6, <1>7, <1>8, <1>9, <1>10, <1>11

\* createIdempotent takes a client and sends its INSERT.
LEMMA SendInsertKeeps ==
    ASSUME OInv, NEW r \in Requests, SendInsert(r)
    PROVE  OInv'
<1> USE DEF OInv, SendInsert, Goto, tables, failures, Requests
<1>1. ClientInv'
    BY ClientTaken, RequestsAssumption DEF TypeOK, KindInv, HttpLabels, AtomicLabels,
       HasClient
<1>2. TypeOK'
    BY PoolAssumption DEF TypeOK, PoolHasClient, Labels, Codes
<1>3. KindInv'
    BY RequestsAssumption DEF TypeOK, KindInv, HttpLabels, AtomicLabels
<1>4. ValidInv'
    BY InputFixed DEF TypeOK, KindInv, HttpLabels, AtomicLabels, ValidInv
<1>5. SessionInv'
    BY RequestsAssumption DEF TypeOK, KindInv, HttpLabels, AtomicLabels, SessionInv
<1>6. LockInv'
    BY InputFixed, RequestsAssumption DEF TypeOK, KindInv, LockInv, NeedsRow,
       HttpLabels, AtomicLabels
<1>7. StockInv'
    BY InputFixed, RequestsAssumption DEF TypeOK, KindInv, HttpLabels, StockInv, Enough
<1>8. KeyInv'
    BY InputFixed DEF TypeOK, KeyInv
<1>9. RowInv' /\ AtomicVisibility' /\ StockConserved'
    BY TablesAlone
<1>10. AnswerInv'
    BY InputFixed, OwnRow DEF TypeOK, ValidInv, AnswerInv, Told, SameRequest, SessionInv
<1>11. ScarceInv'
    BY InputFixed, InputFacts, RequestsAssumption DEF TypeOK, KindInv, AtomicLabels,
       StockInv, ValidInv, ScarceInv, Enough, ReservingKeys, SameRequest
<1> QED
    BY <1>1, <1>2, <1>3, <1>4, <1>5, <1>6, <1>7, <1>8, <1>9, <1>10, <1>11

\* The server inserts an uncommitted row under a key nobody else holds, or leaves
\* the winner for the refetch, which therefore finds one.
LEMMA InsertAutocommitKeeps ==
    ASSUME OInv, NEW r \in Requests, InsertAutocommit(r)
    PROVE  OInv'
<1> USE DEF OInv, InsertAutocommit, Goto, tables, failures, Requests
<1>1. ClientInv' /\ clients' \in 0..PoolMax
 <2>1. CASE pc[r] = "insert" /\ orders[KeyOf(r)] /= Null
    BY <2>1, ClientReturned, RequestsAssumption DEF TypeOK, KindInv, HttpLabels,
       AtomicLabels, HasClient, SessionInv
 <2>2. CASE ~(pc[r] = "insert" /\ orders[KeyOf(r)] /= Null)
    BY <2>2, ClientsKept, RequestsAssumption DEF TypeOK, KindInv, HttpLabels,
       AtomicLabels, HasClient
 <2> QED
    BY <2>1, <2>2
<1>2. TypeOK'
    BY <1>1 DEF TypeOK, Labels
<1>3. KindInv'
    BY RequestsAssumption DEF TypeOK, KindInv, SessionInv, HttpLabels, AtomicLabels
<1>4. ValidInv'
    BY InputFixed DEF TypeOK, KindInv, HttpLabels, AtomicLabels, ValidInv
<1>5. SessionInv'
    BY RequestsAssumption DEF TypeOK, KindInv, HttpLabels, AtomicLabels, SessionInv
<1>6. LockInv'
    BY InputFixed, RequestsAssumption DEF TypeOK, KindInv, LockInv, NeedsRow, HttpLabels
<1>7. StockInv'
    BY InputFixed, RequestsAssumption DEF TypeOK, KindInv, HttpLabels, StockInv, Enough
<1>8. KeyInv'
    BY InputFixed DEF TypeOK, KeyInv, KeyHeld
<1>9. RowInv' /\ AtomicVisibility' /\ StockConserved'
    BY TablesAlone
<1>10. AnswerInv'
    BY InputFixed, OwnRow DEF TypeOK, ValidInv, AnswerInv, Told, SameRequest, SessionInv
<1>11. ScarceInv'
    BY InputFixed, InputFacts, RequestsAssumption DEF TypeOK, KindInv, AtomicLabels,
       StockInv, ValidInv, ScarceInv, Enough, ReservingKeys, SameRequest
<1> QED
    BY <1>1, <1>2, <1>3, <1>4, <1>5, <1>6, <1>7, <1>8, <1>9, <1>10, <1>11

\* The loser of the insert answers with the committed winner.
LEMMA RefetchKeeps ==
    ASSUME OInv, NEW r \in Requests, Refetch(r)
    PROVE  OInv'
<1> USE DEF OInv, Refetch, Goto, tables, session, process, failures, Result,
       ResolveIdempotentOrder, Requests
<1>1. ClientInv'
    BY ClientsKept, RequestsAssumption DEF TypeOK, KindInv, HttpLabels, AtomicLabels,
       HasClient
<1>2. TypeOK'
    BY AnswerTypes DEF TypeOK, ValidInv, AnswerInv, Labels, Codes
<1>3. KindInv'
    BY RequestsAssumption DEF TypeOK, KindInv, HttpLabels, AtomicLabels
<1>4. ValidInv'
    BY InputFixed DEF TypeOK, KindInv, HttpLabels, AtomicLabels, ValidInv
<1>5. SessionInv'
    BY RequestsAssumption DEF TypeOK, KindInv, HttpLabels, AtomicLabels, SessionInv
<1>6. LockInv'
    BY InputFixed, RequestsAssumption DEF TypeOK, KindInv, LockInv, NeedsRow, HttpLabels
<1>7. StockInv'
    BY InputFixed, RequestsAssumption DEF TypeOK, KindInv, HttpLabels, StockInv, Enough
<1>8. KeyInv'
    BY InputFixed DEF TypeOK, KeyInv
<1>9. RowInv' /\ AtomicVisibility' /\ StockConserved'
    BY TablesAlone
<1>10. AnswerInv'
    BY InputFixed, OwnRow DEF TypeOK, ValidInv, AnswerInv, Told, SameRequest, SessionInv
<1>11. ScarceInv'
    BY InputFixed, InputFacts, RequestsAssumption DEF TypeOK, KindInv, AtomicLabels,
       StockInv, ValidInv, ScarceInv, Enough, ReservingKeys, SameRequest
<1> QED
    BY <1>1, <1>2, <1>3, <1>4, <1>5, <1>6, <1>7, <1>8, <1>9, <1>10, <1>11

\* The winner of the insert is answered and its event published: its row is stored.
LEMMA PublishKeeps ==
    ASSUME OInv, NEW r \in Requests, Publish(r)
    PROVE  OInv'
<1> USE DEF OInv, Publish, Goto, Result, tables, session, failures, Requests
<1>1. ClientInv'
    BY ClientsKept, RequestsAssumption DEF TypeOK, KindInv, HttpLabels, AtomicLabels,
       HasClient
<1>2. TypeOK'
    BY RequestsAssumption DEF TypeOK, KindInv, AtomicLabels, Labels, Codes
<1>3. KindInv'
    BY RequestsAssumption DEF TypeOK, KindInv, HttpLabels, AtomicLabels
<1>4. ValidInv'
    BY InputFixed DEF TypeOK, KindInv, HttpLabels, AtomicLabels, ValidInv
<1>5. SessionInv'
    BY RequestsAssumption DEF TypeOK, KindInv, HttpLabels, AtomicLabels, SessionInv
<1>6. LockInv'
    BY InputFixed, RequestsAssumption DEF TypeOK, KindInv, LockInv, NeedsRow, HttpLabels
<1>7. StockInv'
    BY InputFixed, RequestsAssumption DEF TypeOK, KindInv, HttpLabels, StockInv, Enough
<1>8. KeyInv'
    BY InputFixed DEF TypeOK, KeyInv
<1>9. RowInv' /\ AtomicVisibility' /\ StockConserved'
    BY TablesAlone
<1>10. AnswerInv'
    BY InputFixed, OwnRow DEF TypeOK, ValidInv, AnswerInv, Told, SameRequest, SessionInv
<1>11. ScarceInv'
    BY InputFixed, InputFacts, RequestsAssumption DEF TypeOK, KindInv, AtomicLabels,
       StockInv, ValidInv, ScarceInv, Enough, ReservingKeys, SameRequest
<1> QED
    BY <1>1, <1>2, <1>3, <1>4, <1>5, <1>6, <1>7, <1>8, <1>9, <1>10, <1>11

\* withTransaction takes a client of the pool.
LEMMA ConnectKeeps ==
    ASSUME OInv, NEW r \in Requests, Connect(r)
    PROVE  OInv'
<1> USE DEF OInv, Connect, Goto, tables, session, failures, Requests
<1>1. ClientInv'
    BY ClientTaken, RequestsAssumption DEF TypeOK, KindInv, HttpLabels, AtomicLabels,
       HasClient
<1>2. TypeOK'
    BY PoolAssumption DEF TypeOK, PoolHasClient, Labels, Codes
<1>3. KindInv'
    BY RequestsAssumption DEF TypeOK, KindInv, HttpLabels, AtomicLabels
<1>4. ValidInv'
    BY InputFixed DEF TypeOK, KindInv, HttpLabels, AtomicLabels, ValidInv
<1>5. SessionInv'
    BY RequestsAssumption DEF TypeOK, KindInv, HttpLabels, AtomicLabels, SessionInv
<1>6. LockInv'
    BY InputFixed, RequestsAssumption DEF TypeOK, KindInv, LockInv, NeedsRow, HttpLabels
<1>7. StockInv'
    BY InputFixed, RequestsAssumption DEF TypeOK, KindInv, HttpLabels, StockInv, Enough
<1>8. KeyInv'
    BY InputFixed DEF TypeOK, KeyInv
<1>9. RowInv' /\ AtomicVisibility' /\ StockConserved'
    BY TablesAlone
<1>10. AnswerInv'
    BY InputFixed, OwnRow DEF TypeOK, ValidInv, AnswerInv, Told, SameRequest, SessionInv
<1>11. ScarceInv'
    BY InputFixed, InputFacts, RequestsAssumption DEF TypeOK, KindInv, AtomicLabels,
       StockInv, ValidInv, ScarceInv, Enough, ReservingKeys, SameRequest
<1> QED
    BY <1>1, <1>2, <1>3, <1>4, <1>5, <1>6, <1>7, <1>8, <1>9, <1>10, <1>11

\* BEGIN opens a session that holds nothing yet.
LEMMA BeginKeeps ==
    ASSUME OInv, NEW r \in Requests, Begin(r)
    PROVE  OInv'
<1> USE DEF OInv, Begin, Goto, tables, process, failures, Requests
<1>1. ClientInv'
    BY ClientsKept, RequestsAssumption DEF TypeOK, KindInv, HttpLabels, AtomicLabels,
       HasClient
<1>2. TypeOK'
    BY DEF TypeOK, Labels, Codes
<1>3. KindInv'
    BY RequestsAssumption DEF TypeOK, KindInv, HttpLabels, AtomicLabels
<1>4. ValidInv'
    BY InputFixed DEF TypeOK, KindInv, HttpLabels, AtomicLabels, ValidInv
<1>5. SessionInv'
    BY RequestsAssumption DEF TypeOK, KindInv, HttpLabels, AtomicLabels, SessionInv
<1>6. LockInv'
    BY InputFixed, RequestsAssumption DEF TypeOK, KindInv, LockInv, NeedsRow, HttpLabels
<1>7. StockInv'
    BY InputFixed, RequestsAssumption DEF TypeOK, KindInv, HttpLabels, StockInv, Enough
<1>8. KeyInv'
    BY InputFixed DEF TypeOK, KeyInv
<1>9. RowInv' /\ AtomicVisibility' /\ StockConserved'
    BY TablesAlone
<1>10. AnswerInv'
    BY InputFixed, OwnRow DEF TypeOK, ValidInv, AnswerInv, Told, SameRequest, SessionInv
<1>11. ScarceInv'
    BY InputFixed, InputFacts, RequestsAssumption DEF TypeOK, KindInv, AtomicLabels,
       StockInv, ValidInv, ScarceInv, Enough, ReservingKeys, SameRequest
<1> QED
    BY <1>1, <1>2, <1>3, <1>4, <1>5, <1>6, <1>7, <1>8, <1>9, <1>10, <1>11

\* SELECT ... FOR UPDATE: the row was free or its own, so no other session relies
\* on it, and the stock that is read is the stock.
LEMMA FindByIdForUpdateKeeps ==
    ASSUME OInv, NEW r \in Requests, FindByIdForUpdate(r)
    PROVE  OInv'
<1> USE DEF OInv, FindByIdForUpdate, Goto, tables, process, failures, Requests
<1>1. ClientInv'
    BY ClientsKept, RequestsAssumption DEF TypeOK, KindInv, HttpLabels, AtomicLabels,
       HasClient
<1>2. TypeOK'
    BY InputFixed DEF TypeOK, KindInv, HttpLabels, Labels
<1>3. KindInv'
    BY RequestsAssumption DEF TypeOK, KindInv, HttpLabels, AtomicLabels
<1>4. ValidInv'
    BY InputFixed DEF TypeOK, KindInv, HttpLabels, AtomicLabels, ValidInv
<1>5. SessionInv'
    BY RequestsAssumption DEF TypeOK, KindInv, HttpLabels, AtomicLabels, SessionInv
<1>6. LockInv'
    BY InputFixed, RequestsAssumption DEF TypeOK, KindInv, LockInv, NeedsRow,
       HttpLabels, RowHeld, SessionInv
<1>7. StockInv'
    BY InputFixed, RequestsAssumption DEF TypeOK, KindInv, HttpLabels, StockInv, Enough
<1>8. KeyInv'
    BY InputFixed DEF TypeOK, KeyInv
<1>9. RowInv' /\ AtomicVisibility' /\ StockConserved'
    BY TablesAlone
<1>10. AnswerInv'
    BY InputFixed, OwnRow DEF TypeOK, ValidInv, AnswerInv, Told, SameRequest, SessionInv
<1>11. ScarceInv'
    BY InputFixed, InputFacts, RequestsAssumption DEF TypeOK, KindInv, AtomicLabels,
       StockInv, ValidInv, ScarceInv, Enough, ReservingKeys, SameRequest
<1> QED
    BY <1>1, <1>2, <1>3, <1>4, <1>5, <1>6, <1>7, <1>8, <1>9, <1>10, <1>11

\* The decisions under the row lock: what was read is still the stock, so a
\* refusal is genuine and who goes on to reserve can.
LEMMA RecheckKeeps ==
    ASSUME OInv, NEW r \in Requests, Recheck(r)
    PROVE  OInv'
<1> USE DEF OInv, Recheck, Goto, Result, tables, session, process, failures,
       ResolveIdempotentOrder, Requests
<1>1. ClientInv'
    BY ClientsKept, RequestsAssumption DEF TypeOK, KindInv, HttpLabels, AtomicLabels,
       HasClient
<1>2. TypeOK'
    BY AnswerTypes DEF TypeOK, ValidInv, Labels, Codes
<1>3. KindInv'
    BY RequestsAssumption DEF TypeOK, KindInv, HttpLabels, AtomicLabels
<1>4. ValidInv'
    BY InputFixed DEF TypeOK, KindInv, HttpLabels, AtomicLabels, ValidInv
<1>5. SessionInv'
    BY RequestsAssumption DEF TypeOK, KindInv, HttpLabels, AtomicLabels, SessionInv
<1>6. LockInv'
    BY InputFixed, RequestsAssumption DEF TypeOK, KindInv, LockInv, NeedsRow, HttpLabels
<1>7. StockInv'
    BY InputFixed, RequestsAssumption DEF TypeOK, KindInv, HttpLabels, StockInv, Enough
<1>8. KeyInv'
    BY InputFixed DEF TypeOK, KeyInv
<1>9. RowInv' /\ AtomicVisibility' /\ StockConserved'
    BY TablesAlone
<1>10. AnswerInv'
    BY InputFixed, OwnRow DEF TypeOK, ValidInv, AnswerInv, Told, SameRequest, SessionInv
<1>11. ScarceInv'
    BY InputFixed, InputFacts, RequestsAssumption DEF TypeOK, KindInv, AtomicLabels,
       StockInv, ValidInv, ScarceInv, Enough, ReservingKeys, SameRequest
<1> QED
    BY <1>1, <1>2, <1>3, <1>4, <1>5, <1>6, <1>7, <1>8, <1>9, <1>10, <1>11

\* The conditional UPDATE: the stock is there, the session only notes its write.
LEMMA ReserveLockedKeeps ==
    ASSUME OInv, NEW r \in Requests, ReserveLocked(r)
    PROVE  OInv'
<1> USE DEF OInv, ReserveLocked, Goto, Result, tables, process, failures, Requests
<1>1. ClientInv'
    BY ClientsKept, RequestsAssumption DEF TypeOK, KindInv, HttpLabels, AtomicLabels,
       HasClient
<1>2. TypeOK'
    BY DEF TypeOK, Labels, Codes
<1>3. KindInv'
    BY RequestsAssumption DEF TypeOK, KindInv, HttpLabels, AtomicLabels
<1>4. ValidInv'
    BY InputFixed DEF TypeOK, KindInv, HttpLabels, AtomicLabels, ValidInv
<1>5. SessionInv'
    BY RequestsAssumption DEF TypeOK, KindInv, HttpLabels, AtomicLabels, SessionInv
<1>6. LockInv'
    BY InputFixed, RequestsAssumption DEF TypeOK, KindInv, LockInv, NeedsRow, HttpLabels
<1>7. StockInv'
    BY InputFixed, RequestsAssumption DEF TypeOK, KindInv, HttpLabels, StockInv, Enough
<1>8. KeyInv'
    BY InputFixed DEF TypeOK, KeyInv
<1>9. RowInv' /\ AtomicVisibility' /\ StockConserved'
    BY TablesAlone
<1>10. AnswerInv'
    BY InputFixed, OwnRow DEF TypeOK, ValidInv, AnswerInv, Told, SameRequest, SessionInv
<1>11. ScarceInv'
    BY InputFixed, InputFacts, RequestsAssumption DEF TypeOK, KindInv, AtomicLabels,
       StockInv, ValidInv, ScarceInv, Enough, ReservingKeys, SameRequest
<1> QED
    BY <1>1, <1>2, <1>3, <1>4, <1>5, <1>6, <1>7, <1>8, <1>9, <1>10, <1>11

\* createIdempotent in the transaction: the key is free and nobody else inserts
\* it, or a committed winner is left for the refetch.
LEMMA InsertInTransactionKeeps ==
    ASSUME OInv, NEW r \in Requests, InsertInTransaction(r)
    PROVE  OInv'
<1> USE DEF OInv, InsertInTransaction, Goto, tables, process, failures, Requests
<1>1. ClientInv'
    BY ClientsKept, RequestsAssumption DEF TypeOK, KindInv, HttpLabels, AtomicLabels,
       HasClient
<1>2. TypeOK'
    BY DEF TypeOK, Labels, Codes
<1>3. KindInv'
    BY RequestsAssumption DEF TypeOK, KindInv, HttpLabels, AtomicLabels
<1>4. ValidInv'
    BY InputFixed DEF TypeOK, KindInv, HttpLabels, AtomicLabels, ValidInv
<1>5. SessionInv'
    BY RequestsAssumption DEF TypeOK, KindInv, HttpLabels, AtomicLabels, SessionInv
<1>6. LockInv'
    BY InputFixed, RequestsAssumption DEF TypeOK, KindInv, LockInv, NeedsRow, HttpLabels
<1>7. StockInv'
    BY InputFixed, RequestsAssumption DEF TypeOK, KindInv, HttpLabels, StockInv, Enough
<1>8. KeyInv'
    BY InputFixed DEF TypeOK, KeyInv, KeyHeld
<1>9. RowInv' /\ AtomicVisibility' /\ StockConserved'
    BY TablesAlone
<1>10. AnswerInv'
    BY InputFixed, OwnRow DEF TypeOK, ValidInv, AnswerInv, Told, SameRequest, SessionInv
<1>11. ScarceInv'
    BY InputFixed, InputFacts, RequestsAssumption DEF TypeOK, KindInv, AtomicLabels,
       StockInv, ValidInv, ScarceInv, Enough, ReservingKeys, SameRequest
<1> QED
    BY <1>1, <1>2, <1>3, <1>4, <1>5, <1>6, <1>7, <1>8, <1>9, <1>10, <1>11

\* IdempotentReplay: the committed winner gives the answer before the rollback.
LEMMA RefetchInTransactionKeeps ==
    ASSUME OInv, NEW r \in Requests, RefetchInTransaction(r)
    PROVE  OInv'
<1> USE DEF OInv, RefetchInTransaction, Goto, tables, session, process, failures,
       Result, ResolveIdempotentOrder, Requests
<1>1. ClientInv'
    BY ClientsKept, RequestsAssumption DEF TypeOK, KindInv, HttpLabels, AtomicLabels,
       HasClient
<1>2. TypeOK'
    BY AnswerTypes DEF TypeOK, ValidInv, AnswerInv, Labels, Codes
<1>3. KindInv'
    BY RequestsAssumption DEF TypeOK, KindInv, HttpLabels, AtomicLabels
<1>4. ValidInv'
    BY InputFixed DEF TypeOK, KindInv, HttpLabels, AtomicLabels, ValidInv
<1>5. SessionInv'
    BY RequestsAssumption DEF TypeOK, KindInv, HttpLabels, AtomicLabels, SessionInv
<1>6. LockInv'
    BY InputFixed, RequestsAssumption DEF TypeOK, KindInv, LockInv, NeedsRow, HttpLabels
<1>7. StockInv'
    BY InputFixed, RequestsAssumption DEF TypeOK, KindInv, HttpLabels, StockInv, Enough
<1>8. KeyInv'
    BY InputFixed DEF TypeOK, KeyInv
<1>9. RowInv' /\ AtomicVisibility' /\ StockConserved'
    BY TablesAlone
<1>10. AnswerInv'
    BY InputFixed, OwnRow DEF TypeOK, ValidInv, AnswerInv, Told, SameRequest, SessionInv
<1>11. ScarceInv'
    BY InputFixed, InputFacts, RequestsAssumption DEF TypeOK, KindInv, AtomicLabels,
       StockInv, ValidInv, ScarceInv, Enough, ReservingKeys, SameRequest
<1> QED
    BY <1>1, <1>2, <1>3, <1>4, <1>5, <1>6, <1>7, <1>8, <1>9, <1>10, <1>11

\* The processing record completes the three writes; the answer waits for COMMIT.
LEMMA CreateProcessingKeeps ==
    ASSUME OInv, NEW r \in Requests, CreateProcessing(r)
    PROVE  OInv'
<1> USE DEF OInv, CreateProcessing, Goto, Result, tables, process, failures, Whole,
       Requests
<1>1. ClientInv'
    BY ClientsKept, RequestsAssumption DEF TypeOK, KindInv, HttpLabels, AtomicLabels,
       HasClient
<1>2. TypeOK'
    BY DEF TypeOK, Labels, Codes
<1>3. KindInv'
    BY RequestsAssumption DEF TypeOK, KindInv, HttpLabels, AtomicLabels
<1>4. ValidInv'
    BY InputFixed DEF TypeOK, KindInv, HttpLabels, AtomicLabels, ValidInv
<1>5. SessionInv'
    BY RequestsAssumption DEF TypeOK, KindInv, HttpLabels, AtomicLabels, SessionInv
<1>6. LockInv'
    BY InputFixed, RequestsAssumption DEF TypeOK, KindInv, LockInv, NeedsRow, HttpLabels
<1>7. StockInv'
    BY InputFixed, RequestsAssumption DEF TypeOK, KindInv, HttpLabels, StockInv, Enough
<1>8. KeyInv'
    BY InputFixed DEF TypeOK, KeyInv
<1>9. RowInv' /\ AtomicVisibility' /\ StockConserved'
    BY TablesAlone
<1>10. AnswerInv'
    BY InputFixed, OwnRow DEF TypeOK, ValidInv, AnswerInv, Told, SameRequest,
       SessionInv, KindInv, HttpLabels
<1>11. ScarceInv'
    BY InputFixed, InputFacts, RequestsAssumption DEF TypeOK, KindInv, AtomicLabels,
       StockInv, ValidInv, ScarceInv, Enough, ReservingKeys, SameRequest
<1> QED
    BY <1>1, <1>2, <1>3, <1>4, <1>5, <1>6, <1>7, <1>8, <1>9, <1>10, <1>11

\* ROLLBACK: the writes are dropped and the row is released.
LEMMA RollbackKeeps ==
    ASSUME OInv, NEW r \in Requests, Rollback(r)
    PROVE  OInv'
<1> USE DEF OInv, Rollback, Goto, tables, process, failures, EndSession, Requests
<1>1. ClientInv'
    BY ClientsKept, RequestsAssumption DEF TypeOK, KindInv, HttpLabels, AtomicLabels,
       HasClient
<1>2. TypeOK'
    BY DEF TypeOK, Labels, Codes
<1>3. KindInv'
    BY RequestsAssumption DEF TypeOK, KindInv, HttpLabels, AtomicLabels
<1>4. ValidInv'
    BY InputFixed DEF TypeOK, KindInv, HttpLabels, AtomicLabels, ValidInv
<1>5. SessionInv'
    BY RequestsAssumption DEF TypeOK, KindInv, HttpLabels, AtomicLabels, SessionInv
<1>6. LockInv'
    BY InputFixed, RequestsAssumption DEF TypeOK, KindInv, LockInv, NeedsRow, HttpLabels
<1>7. StockInv'
    BY InputFixed, RequestsAssumption DEF TypeOK, KindInv, HttpLabels, StockInv, Enough
<1>8. KeyInv'
    BY InputFixed DEF TypeOK, KeyInv
<1>9. RowInv' /\ AtomicVisibility' /\ StockConserved'
    BY TablesAlone
<1>10. AnswerInv'
    BY InputFixed, OwnRow DEF TypeOK, ValidInv, AnswerInv, Told, SameRequest, SessionInv
<1>11. ScarceInv'
    BY InputFixed, InputFacts, RequestsAssumption DEF TypeOK, KindInv, AtomicLabels,
       StockInv, ValidInv, ScarceInv, Enough, ReservingKeys, SameRequest
<1> QED
    BY <1>1, <1>2, <1>3, <1>4, <1>5, <1>6, <1>7, <1>8, <1>9, <1>10, <1>11

\* The finally block gives the client back.
LEMMA ReleaseKeeps ==
    ASSUME OInv, NEW r \in Requests, Release(r)
    PROVE  OInv'
<1> USE DEF OInv, Release, Goto, tables, session, failures, Requests
<1>1. ClientInv' /\ clients' \in 0..PoolMax
    BY ClientReturned, RequestsAssumption DEF TypeOK, KindInv, HttpLabels,
       AtomicLabels, HasClient
<1>2. TypeOK'
    BY <1>1 DEF TypeOK, Labels
<1>3. KindInv'
    BY RequestsAssumption DEF TypeOK, KindInv, HttpLabels, AtomicLabels
<1>4. ValidInv'
    BY InputFixed DEF TypeOK, KindInv, HttpLabels, AtomicLabels, ValidInv
<1>5. SessionInv'
    BY RequestsAssumption DEF TypeOK, KindInv, HttpLabels, AtomicLabels, SessionInv
<1>6. LockInv'
    BY InputFixed, RequestsAssumption DEF TypeOK, KindInv, LockInv, NeedsRow, HttpLabels
<1>7. StockInv'
    BY InputFixed, RequestsAssumption DEF TypeOK, KindInv, HttpLabels, StockInv, Enough
<1>8. KeyInv'
    BY InputFixed DEF TypeOK, KeyInv
<1>9. RowInv' /\ AtomicVisibility' /\ StockConserved'
    BY TablesAlone
<1>10. AnswerInv'
    BY InputFixed, OwnRow DEF TypeOK, ValidInv, AnswerInv, Told, SameRequest, SessionInv
<1>11. ScarceInv'
    BY InputFixed, InputFacts, RequestsAssumption DEF TypeOK, KindInv, AtomicLabels,
       StockInv, ValidInv, ScarceInv, Enough, ReservingKeys, SameRequest
<1> QED
    BY <1>1, <1>2, <1>3, <1>4, <1>5, <1>6, <1>7, <1>8, <1>9, <1>10, <1>11

\* A pool query fails: the call is answered with the error, nothing was written.
LEMMA PoolQueryFailsKeeps ==
    ASSUME OInv, NEW r \in Requests, NEW c \in DatabaseError, PoolQueryFails(r, c)
    PROVE  OInv'
<1> USE DEF OInv, PoolQueryFails, Goto, Result, tables, session, process, Fault,
       DatabaseError, Requests
<1>1. ClientInv'
    BY ClientsKept, RequestsAssumption DEF TypeOK, KindInv, HttpLabels, AtomicLabels,
       HasClient
<1>2. TypeOK'
    BY DEF TypeOK, Labels, Codes
<1>3. KindInv'
    BY RequestsAssumption DEF TypeOK, KindInv, HttpLabels, AtomicLabels
<1>4. ValidInv'
    BY InputFixed DEF TypeOK, KindInv, HttpLabels, AtomicLabels, ValidInv
<1>5. SessionInv'
    BY RequestsAssumption DEF TypeOK, KindInv, HttpLabels, AtomicLabels, SessionInv
<1>6. LockInv'
    BY InputFixed, RequestsAssumption DEF TypeOK, KindInv, LockInv, NeedsRow, HttpLabels
<1>7. StockInv'
    BY InputFixed, RequestsAssumption DEF TypeOK, KindInv, HttpLabels, StockInv, Enough
<1>8. KeyInv'
    BY InputFixed DEF TypeOK, KeyInv
<1>9. RowInv' /\ AtomicVisibility' /\ StockConserved'
    BY TablesAlone
<1>10. AnswerInv'
    BY InputFixed, OwnRow DEF TypeOK, ValidInv, AnswerInv, Told, SameRequest, SessionInv
<1>11. ScarceInv'
    BY InputFixed, InputFacts, RequestsAssumption DEF TypeOK, KindInv, AtomicLabels,
       StockInv, ValidInv, ScarceInv, Enough, ReservingKeys, SameRequest
<1> QED
    BY <1>1, <1>2, <1>3, <1>4, <1>5, <1>6, <1>7, <1>8, <1>9, <1>10, <1>11

\* The connection of the autocommit INSERT is lost; its session lives on.
LEMMA InsertConnectionLostKeeps ==
    ASSUME OInv, NEW r \in Requests, InsertConnectionLost(r)
    PROVE  OInv'
<1> USE DEF OInv, InsertConnectionLost, Goto, Result, tables, session, Fault, Requests
<1>1. ClientInv' /\ clients' \in 0..PoolMax
    BY ClientReturned, RequestsAssumption DEF TypeOK, KindInv, HttpLabels,
       AtomicLabels, HasClient
<1>2. TypeOK'
    BY <1>1 DEF TypeOK, Labels, Codes
<1>3. KindInv'
    BY RequestsAssumption DEF TypeOK, KindInv, HttpLabels, AtomicLabels
<1>4. ValidInv'
    BY InputFixed DEF TypeOK, KindInv, HttpLabels, AtomicLabels, ValidInv
<1>5. SessionInv'
    BY RequestsAssumption DEF TypeOK, KindInv, HttpLabels, AtomicLabels, SessionInv
<1>6. LockInv'
    BY InputFixed, RequestsAssumption DEF TypeOK, KindInv, LockInv, NeedsRow, HttpLabels
<1>7. StockInv'
    BY InputFixed, RequestsAssumption DEF TypeOK, KindInv, HttpLabels, StockInv, Enough
<1>8. KeyInv'
    BY InputFixed DEF TypeOK, KeyInv
<1>9. RowInv' /\ AtomicVisibility' /\ StockConserved'
    BY TablesAlone
<1>10. AnswerInv'
    BY InputFixed, OwnRow DEF TypeOK, ValidInv, AnswerInv, Told, SameRequest, SessionInv
<1>11. ScarceInv'
    BY InputFixed, InputFacts, RequestsAssumption DEF TypeOK, KindInv, AtomicLabels,
       StockInv, ValidInv, ScarceInv, Enough, ReservingKeys, SameRequest
<1> QED
    BY <1>1, <1>2, <1>3, <1>4, <1>5, <1>6, <1>7, <1>8, <1>9, <1>10, <1>11

\* BEGIN fails: there is no session to roll back.
LEMMA BeginFailsKeeps ==
    ASSUME OInv, NEW r \in Requests, NEW c \in DatabaseError, BeginFails(r, c)
    PROVE  OInv'
<1> USE DEF OInv, BeginFails, Goto, Result, tables, session, process, Fault,
       DatabaseError, Requests
<1>1. ClientInv'
    BY ClientsKept, RequestsAssumption DEF TypeOK, KindInv, HttpLabels, AtomicLabels,
       HasClient
<1>2. TypeOK'
    BY DEF TypeOK, Labels, Codes
<1>3. KindInv'
    BY RequestsAssumption DEF TypeOK, KindInv, HttpLabels, AtomicLabels
<1>4. ValidInv'
    BY InputFixed DEF TypeOK, KindInv, HttpLabels, AtomicLabels, ValidInv
<1>5. SessionInv'
    BY RequestsAssumption DEF TypeOK, KindInv, HttpLabels, AtomicLabels, SessionInv
<1>6. LockInv'
    BY InputFixed, RequestsAssumption DEF TypeOK, KindInv, LockInv, NeedsRow, HttpLabels
<1>7. StockInv'
    BY InputFixed, RequestsAssumption DEF TypeOK, KindInv, HttpLabels, StockInv, Enough
<1>8. KeyInv'
    BY InputFixed DEF TypeOK, KeyInv
<1>9. RowInv' /\ AtomicVisibility' /\ StockConserved'
    BY TablesAlone
<1>10. AnswerInv'
    BY InputFixed, OwnRow DEF TypeOK, ValidInv, AnswerInv, Told, SameRequest, SessionInv
<1>11. ScarceInv'
    BY InputFixed, InputFacts, RequestsAssumption DEF TypeOK, KindInv, AtomicLabels,
       StockInv, ValidInv, ScarceInv, Enough, ReservingKeys, SameRequest
<1> QED
    BY <1>1, <1>2, <1>3, <1>4, <1>5, <1>6, <1>7, <1>8, <1>9, <1>10, <1>11

\* A statement fails: the server aborts the session, or loses sight of its client.
LEMMA StatementFailsKeeps ==
    ASSUME OInv, NEW r \in Requests, NEW c \in DatabaseError, StatementFails(r, c)
    PROVE  OInv'
<1> USE DEF OInv, StatementFails, Goto, Result, tables, session, process, Fault,
       DatabaseError, EndSession, Requests
<1>1. ClientInv'
    BY ClientsKept, RequestsAssumption DEF TypeOK, KindInv, HttpLabels, AtomicLabels,
       HasClient
<1>2. TypeOK'
    BY DEF TypeOK, Labels, Codes
<1>3. KindInv'
    BY RequestsAssumption DEF TypeOK, KindInv, HttpLabels, AtomicLabels
<1>4. ValidInv'
    BY InputFixed DEF TypeOK, KindInv, HttpLabels, AtomicLabels, ValidInv
<1>5. SessionInv'
    BY RequestsAssumption DEF TypeOK, KindInv, HttpLabels, AtomicLabels, SessionInv
<1>6. LockInv'
    BY InputFixed, RequestsAssumption DEF TypeOK, KindInv, LockInv, NeedsRow, HttpLabels
<1>7. StockInv'
    BY InputFixed, RequestsAssumption DEF TypeOK, KindInv, HttpLabels, StockInv, Enough
<1>8. KeyInv'
    BY InputFixed DEF TypeOK, KeyInv
<1>9. RowInv' /\ AtomicVisibility' /\ StockConserved'
    BY TablesAlone
<1>10. AnswerInv'
    BY InputFixed, OwnRow DEF TypeOK, ValidInv, AnswerInv, Told, SameRequest, SessionInv
<1>11. ScarceInv'
    BY InputFixed, InputFacts, RequestsAssumption DEF TypeOK, KindInv, AtomicLabels,
       StockInv, ValidInv, ScarceInv, Enough, ReservingKeys, SameRequest
<1> QED
    BY <1>1, <1>2, <1>3, <1>4, <1>5, <1>6, <1>7, <1>8, <1>9, <1>10, <1>11

\* COMMIT is on its way and its sender answers DATABASE_UNAVAILABLE.
LEMMA CommitConnectionLostKeeps ==
    ASSUME OInv, NEW r \in Requests, CommitConnectionLost(r)
    PROVE  OInv'
<1> USE DEF OInv, CommitConnectionLost, Goto, Result, tables, process, Fault, Requests
<1>1. ClientInv'
    BY ClientsKept, RequestsAssumption DEF TypeOK, KindInv, HttpLabels, AtomicLabels,
       HasClient
<1>2. TypeOK'
    BY DEF TypeOK, Labels, Codes
<1>3. KindInv'
    BY RequestsAssumption DEF TypeOK, KindInv, HttpLabels, AtomicLabels
<1>4. ValidInv'
    BY InputFixed DEF TypeOK, KindInv, HttpLabels, AtomicLabels, ValidInv
<1>5. SessionInv'
    BY RequestsAssumption DEF TypeOK, KindInv, HttpLabels, AtomicLabels, SessionInv
<1>6. LockInv'
    BY InputFixed, RequestsAssumption DEF TypeOK, KindInv, LockInv, NeedsRow, HttpLabels
<1>7. StockInv'
    BY InputFixed, RequestsAssumption DEF TypeOK, KindInv, HttpLabels, StockInv, Enough
<1>8. KeyInv'
    BY InputFixed DEF TypeOK, KeyInv
<1>9. RowInv' /\ AtomicVisibility' /\ StockConserved'
    BY TablesAlone
<1>10. AnswerInv'
    BY InputFixed, OwnRow DEF TypeOK, ValidInv, AnswerInv, Told, SameRequest, SessionInv
<1>11. ScarceInv'
    BY InputFixed, InputFacts, RequestsAssumption DEF TypeOK, KindInv, AtomicLabels,
       StockInv, ValidInv, ScarceInv, Enough, ReservingKeys, SameRequest
<1> QED
    BY <1>1, <1>2, <1>3, <1>4, <1>5, <1>6, <1>7, <1>8, <1>9, <1>10, <1>11

\* ROLLBACK fails: the client is discarded, the session is left to the server.
LEMMA RollbackFailsKeeps ==
    ASSUME OInv, NEW r \in Requests, RollbackFails(r)
    PROVE  OInv'
<1> USE DEF OInv, RollbackFails, Goto, tables, session, process, failures, Fault,
       Requests
<1>1. ClientInv'
    BY ClientsKept, RequestsAssumption DEF TypeOK, KindInv, HttpLabels, AtomicLabels,
       HasClient
<1>2. TypeOK'
    BY DEF TypeOK, Labels, Codes
<1>3. KindInv'
    BY RequestsAssumption DEF TypeOK, KindInv, HttpLabels, AtomicLabels
<1>4. ValidInv'
    BY InputFixed DEF TypeOK, KindInv, HttpLabels, AtomicLabels, ValidInv
<1>5. SessionInv'
    BY RequestsAssumption DEF TypeOK, KindInv, HttpLabels, AtomicLabels, SessionInv
<1>6. LockInv'
    BY InputFixed, RequestsAssumption DEF TypeOK, KindInv, LockInv, NeedsRow, HttpLabels
<1>7. StockInv'
    BY InputFixed, RequestsAssumption DEF TypeOK, KindInv, HttpLabels, StockInv, Enough
<1>8. KeyInv'
    BY InputFixed DEF TypeOK, KeyInv
<1>9. RowInv' /\ AtomicVisibility' /\ StockConserved'
    BY TablesAlone
<1>10. AnswerInv'
    BY InputFixed, OwnRow DEF TypeOK, ValidInv, AnswerInv, Told, SameRequest, SessionInv
<1>11. ScarceInv'
    BY InputFixed, InputFacts, RequestsAssumption DEF TypeOK, KindInv, AtomicLabels,
       StockInv, ValidInv, ScarceInv, Enough, ReservingKeys, SameRequest
<1> QED
    BY <1>1, <1>2, <1>3, <1>4, <1>5, <1>6, <1>7, <1>8, <1>9, <1>10, <1>11

\* The server drops a session nobody is connected to.
LEMMA ServerAbortKeeps ==
    ASSUME OInv, NEW r \in Requests, ServerAbort(r)
    PROVE  OInv'
<1> USE DEF OInv, ServerAbort, tables, process, failures, call, EndSession, Requests
<1>1. ClientInv'
    BY ClientsKept, RequestsAssumption DEF TypeOK, KindInv, HttpLabels, AtomicLabels,
       HasClient
<1>2. TypeOK'
    BY DEF TypeOK, Labels, Codes
<1>3. KindInv'
    BY RequestsAssumption DEF TypeOK, KindInv, HttpLabels, AtomicLabels
<1>4. ValidInv'
    BY InputFixed DEF TypeOK, KindInv, HttpLabels, AtomicLabels, ValidInv
<1>5. SessionInv'
    BY RequestsAssumption DEF TypeOK, KindInv, HttpLabels, AtomicLabels, SessionInv
<1>6. LockInv'
    BY InputFixed, RequestsAssumption DEF TypeOK, KindInv, LockInv, NeedsRow, HttpLabels
<1>7. StockInv'
    BY InputFixed, RequestsAssumption DEF TypeOK, KindInv, HttpLabels, StockInv, Enough
<1>8. KeyInv'
    BY InputFixed DEF TypeOK, KeyInv
<1>9. RowInv' /\ AtomicVisibility' /\ StockConserved'
    BY TablesAlone
<1>10. AnswerInv'
    BY InputFixed, OwnRow DEF TypeOK, ValidInv, AnswerInv, Told, SameRequest, SessionInv
<1>11. ScarceInv'
    BY InputFixed, InputFacts, RequestsAssumption DEF TypeOK, KindInv, AtomicLabels,
       StockInv, ValidInv, ScarceInv, Enough, ReservingKeys, SameRequest
<1> QED
    BY <1>1, <1>2, <1>3, <1>4, <1>5, <1>6, <1>7, <1>8, <1>9, <1>10, <1>11

\* Who is the victim of a deadlock waits for a row, a key or a foreign key.
LEMMA VictimWaits ==
    ASSUME NEW r \in Requests, Deadlocked(r)
    PROVE  pc[r] = "lock" \/ tx[r] \in {"checking", "sent"} \/ (r \in AtomicRequests /\ pc[r] = "insert")
    BY DEF Deadlocked, WaitsFor

\* The victim of a deadlock loses its session and its call, if it still waits.
LEMMA DeadlockVictimKeeps ==
    ASSUME OInv, NEW r \in Requests, DeadlockVictim(r)
    PROVE  OInv'
<1> USE DEF OInv, DeadlockVictim, Goto, Result, tables, failures, EndSession, Requests
<1>1. ClientInv' /\ clients' \in 0..PoolMax
 <2>1. CASE pc[r] = "insert" /\ r \in HttpRequests
    BY <2>1, ClientReturned, RequestsAssumption DEF TypeOK, KindInv, HttpLabels,
       AtomicLabels, HasClient
 <2>2. CASE ~(pc[r] = "insert" /\ r \in HttpRequests)
    BY <2>2, ClientsKept, RequestsAssumption DEF TypeOK, KindInv, HttpLabels,
       AtomicLabels, HasClient
 <2> QED
    BY <2>1, <2>2
<1>2. TypeOK'
    BY <1>1 DEF TypeOK, Labels, Codes
<1>3. KindInv'
    BY RequestsAssumption DEF TypeOK, KindInv, HttpLabels, AtomicLabels
<1>4. ValidInv'
    BY InputFixed DEF TypeOK, KindInv, HttpLabels, AtomicLabels, ValidInv
<1>5. SessionInv'
    BY VictimWaits, RequestsAssumption DEF TypeOK, KindInv, HttpLabels, AtomicLabels,
       SessionInv
<1>6. LockInv'
    BY VictimWaits, InputFixed, RequestsAssumption DEF TypeOK, KindInv, LockInv,
       NeedsRow, HttpLabels
<1>7. StockInv'
    BY InputFixed, RequestsAssumption DEF TypeOK, KindInv, HttpLabels, StockInv, Enough
<1>8. KeyInv'
    BY InputFixed DEF TypeOK, KeyInv
<1>9. RowInv' /\ AtomicVisibility' /\ StockConserved'
    BY TablesAlone
<1>10. AnswerInv'
    BY VictimWaits, InputFixed, OwnRow DEF TypeOK, ValidInv, AnswerInv, Told,
       SameRequest, SessionInv, KindInv, HttpLabels, AtomicLabels
<1>11. ScarceInv'
    BY InputFixed, InputFacts, RequestsAssumption DEF TypeOK, KindInv, AtomicLabels,
       StockInv, ValidInv, ScarceInv, Enough, ReservingKeys, SameRequest
<1> QED
    BY <1>1, <1>2, <1>3, <1>4, <1>5, <1>6, <1>7, <1>8, <1>9, <1>10, <1>11

\* What a session leaves when its writes become visible: nothing new, an order of
\* the HTTP service, or the three writes of the atomic one under a free key.
LEMMA ApplyCases ==
    ASSUME OInv, NEW r \in Requests, Apply(r),
           tx[r] \in {"checking", "committing"} \/ pc[r] = "commit"
    PROVE  \/ writes[r] = {} /\ UNCHANGED <<stock, version, orders, processing>>
           \/ /\ r \in HttpRequests
              /\ writes[r] = {"order"}
              /\ Valid(input[r]) /\ KeyOf(r) \in Keys /\ orders[KeyOf(r)] = Null
              /\ orders' = [orders EXCEPT ![KeyOf(r)] = Row(r)]
              /\ UNCHANGED <<stock, version, processing>>
           \/ /\ r \in AtomicRequests
              /\ writes[r] = Whole
              /\ Valid(input[r]) /\ KeyOf(r) \in Keys /\ orders[KeyOf(r)] = Null
              /\ Enough(r)
              /\ orders' = [orders EXCEPT ![KeyOf(r)] = Row(r)]
              /\ stock' = [stock EXCEPT ![ProductOf(r)] = @ - input[r].quantity]
              /\ version' = [version EXCEPT ![ProductOf(r)] = @ + 1]
              /\ processing' = processing \cup {r}
<1>1. CASE writes[r] = {}
    BY <1>1 DEF Apply
<1>2. CASE r \in HttpRequests /\ writes[r] /= {}
  <2>1. writes[r] = {"order"}
    BY <1>2, RequestsAssumption DEF OInv, KindInv, SessionInv, HttpLabels, Requests
  <2>2. Valid(input[r]) /\ KeyOf(r) \in Keys /\ orders[KeyOf(r)] = Null
    BY <2>1, InputFacts DEF OInv, ValidInv, KeyInv, SessionInv
  <2> QED
    BY <1>2, <2>1, <2>2 DEF Apply
<1>3. CASE r \in AtomicRequests /\ writes[r] /= {}
  <2>1. writes[r] = Whole
    BY <1>3, RequestsAssumption DEF OInv, KindInv, SessionInv, AtomicLabels, Requests
  <2>2. Valid(input[r]) /\ KeyOf(r) \in Keys /\ orders[KeyOf(r)] = Null /\ Enough(r)
    BY <1>3, <2>1, InputFacts DEF OInv, ValidInv, KeyInv, SessionInv, StockInv, Whole
  <2> QED
    BY <1>3, <2>1, <2>2 DEF Apply, Whole
<1> QED
    BY <1>1, <1>2, <1>3 DEF Requests

\* What CheckForeignKey, Commit and ServerCommit have in common: the writes of r
\* become visible, its session ends, and at most its own call goes on.
Settle(r) ==
    /\ tx[r] \in {"checking", "committing"} \/ pc[r] = "commit"
    /\ Apply(r)
    /\ EndSession(r)
    /\ \/ pc' = pc
       \/ pc[r] = "insert" /\ r \in HttpRequests /\ writes[r] = {"order"} /\ Goto(r, "publish")
       \/ pc[r] = "commit" /\ Goto(r, "release")
    /\ UNCHANGED <<input, seen, code, answer, events>>

\* A stored row is never changed.
LEMMA RowsStay ==
    ASSUME OInv, NEW r \in Requests, Settle(r)
    PROVE  /\ \A k \in Keys : orders[k] /= Null => orders'[k] = orders[k]
           /\ \A k \in Keys : orders'[k] /= orders[k] =>
                k = KeyOf(r) /\ orders'[k] = Row(r) /\ Valid(input[r])
<1>1. orders \in [Keys -> NewRows \cup {Orders0[k] : k \in Keys} \cup {Null}]
    BY DEF OInv, TypeOK
<1> QED
    BY <1>1, ApplyCases DEF Settle

\* Whoever else relies on a product row relies on another one than r.
LEMMA OtherRow ==
    ASSUME OInv, NEW r \in AtomicRequests, writes[r] = Whole,
           NEW q \in AtomicRequests, q /= r, NeedsRow(q)
    PROVE  ProductOf(q) /= ProductOf(r) \/ ProductOf(r) \notin Products
    BY DEF OInv, LockInv, NeedsRow, Whole

\* The tables and the sessions keep their types; the stock never goes below zero.
LEMMA SettleTypes ==
    ASSUME OInv, NEW r \in Requests, Settle(r)
    PROVE  /\ stock' \in [Products -> Nat]
           /\ version' \in [Products -> Nat \ {0}]
           /\ orders' \in [Keys -> NewRows \cup {Orders0[k] : k \in Keys} \cup {Null}]
           /\ processing' \subseteq AtomicRequests
           /\ tx' \in [Requests -> {"none", "sent", "checking", "open", "committing"}]
           /\ writes' \in [Requests -> SUBSET {"reservation", "order", "processing"}]
           /\ rowLock' \in [Products -> AtomicRequests \cup {Null}]
           /\ pc' \in [Requests -> Labels]
<1>1. stock' \in [Products -> Nat] /\ version' \in [Products -> Nat \ {0}]
    BY ApplyCases, InputFacts DEF OInv, TypeOK, Settle, Enough
<1>2. orders' \in [Keys -> NewRows \cup {Orders0[k] : k \in Keys} \cup {Null}]
    BY ApplyCases, OwnRow DEF OInv, TypeOK, Settle
<1>3. processing' \subseteq AtomicRequests
    BY ApplyCases DEF OInv, TypeOK, Settle
<1>4. /\ tx' \in [Requests -> {"none", "sent", "checking", "open", "committing"}]
      /\ writes' \in [Requests -> SUBSET {"reservation", "order", "processing"}]
      /\ rowLock' \in [Products -> AtomicRequests \cup {Null}]
    BY DEF OInv, TypeOK, Settle, EndSession
<1>5. pc' \in [Requests -> Labels]
    BY DEF OInv, TypeOK, Settle, Goto, Labels
<1> QED
    BY <1>1, <1>2, <1>3, <1>4, <1>5

\* Whoever read or reserved stock under its lock still finds it.
LEMMA SettleStock ==
    ASSUME OInv, NEW r \in Requests, Settle(r)
    PROVE  StockInv'
<1> SUFFICES ASSUME NEW q \in AtomicRequests
             PROVE  /\ pc'[q] = "recheck" =>
                         seen[q] = IF ProductOf(q) \in Products THEN stock'[ProductOf(q)] ELSE Null
                    /\ pc'[q] = "reserve" \/ "reservation" \in writes'[q] => Enough(q)'
    BY InputFixed DEF StockInv, Requests, Settle
<1> USE DEF Requests
<1>1. q = r => pc'[q] \notin {"recheck", "reserve"} /\ writes'[q] = {}
    BY DEF Settle, OInv, TypeOK, SessionInv, EndSession, Goto, KindInv
<1>2. q /= r => pc'[q] = pc[q] /\ writes'[q] = writes[q]
    BY DEF Settle, EndSession, Goto, OInv, TypeOK
<1>3. ASSUME q /= r, NeedsRow(q), ProductOf(q) \in Products
      PROVE  stock'[ProductOf(q)] = stock[ProductOf(q)]
    BY <1>3, ApplyCases, OtherRow DEF Settle, OInv, TypeOK
<1>4. ProductOf(q)' = ProductOf(q) /\ input' = input
    BY InputFixed DEF Settle
<1> QED
    BY <1>1, <1>2, <1>3, <1>4 DEF OInv, StockInv, NeedsRow, Enough

\* The other uncommitted keys are still free.
LEMMA SettleKeys ==
    ASSUME OInv, NEW r \in Requests, Settle(r)
    PROVE  KeyInv'
<1>1. \A q \in Requests : "order" \in writes'[q] => q /= r /\ "order" \in writes[q]
    BY DEF Settle, EndSession, OInv, TypeOK
<1>2. ASSUME NEW q \in Requests, "order" \in writes[q]
      PROVE  KeyOf(q) \in Keys
    BY <1>2, InputFacts DEF OInv, ValidInv, SessionInv
<1>3. ASSUME NEW q \in Requests, "order" \in writes'[q]
      PROVE  orders'[KeyOf(q)] = Null
  <2>1. q /= r /\ "order" \in writes[q] /\ orders[KeyOf(q)] = Null
    BY <1>1, <1>3 DEF OInv, KeyInv
  <2>2. CASE writes[r] = {}
    BY <2>1, <2>2, ApplyCases DEF Settle, Whole
  <2>3. CASE "order" \in writes[r]
    <3>1. KeyOf(q) /= KeyOf(r)
        BY <2>1, <2>3 DEF OInv, KeyInv
    <3> QED
        BY <2>1, <3>1, <1>2, RowsStay
  <2> QED
    BY <2>2, <2>3, ApplyCases DEF Settle, Whole
<1> QED
    BY <1>1, <1>3, InputFixed DEF KeyInv, OInv, Settle

\* Every row is an old one or that of a request.
LEMMA SettleRows ==
    ASSUME OInv, NEW r \in Requests, Settle(r)
    PROVE  RowInv'
<1>1. input' = input
    BY DEF Settle
<1> QED
    BY <1>1, RowsStay, InputFixed DEF OInv, RowInv

\* An order, its processing record and its version appear together.
LEMMA SettleVisibility ==
    ASSUME OInv, NEW r \in Requests, Settle(r)
    PROVE  AtomicVisibility'
<1> USE DEF Requests
<1>1. orders \in [Keys -> NewRows \cup {Orders0[k] : k \in Keys} \cup {Null}]
    BY DEF OInv, TypeOK
<1>2. CASE writes[r] = {}
  <2>1. UNCHANGED <<stock, version, orders, processing, input>>
    BY <1>2, ApplyCases DEF Settle, Whole
  <2> QED
    BY <2>1, TablesAlone
<1>3. CASE r \in HttpRequests /\ writes[r] /= {}
  <2>1. /\ orders' = [orders EXCEPT ![KeyOf(r)] = Row(r)]
        /\ UNCHANGED <<version, processing>>
        /\ KeyOf(r) \in Keys /\ orders[KeyOf(r)] = Null
    BY <1>3, ApplyCases, RequestsAssumption DEF Settle
  <2>2. Row(r).id \notin AtomicRequests
    BY <1>3, OwnRow, RequestsAssumption DEF OInv
  <2>3. ReservingKeys' = ReservingKeys /\ \A k \in ReservingKeys : orders'[k] = orders[k]
    BY <1>1, <2>1, <2>2 DEF ReservingKeys
  <2>4. {orders'[k].id : k \in ReservingKeys} = {orders[k].id : k \in ReservingKeys}
    BY <2>3
  <2>5. ASSUME NEW p \in Products
        PROVE  {k \in ReservingKeys : orders'[k].productId = p} = {k \in ReservingKeys : orders[k].productId = p}
    BY <2>3
  <2> QED
    BY <2>1, <2>3, <2>4, <2>5 DEF OInv, AtomicVisibility
<1>4. CASE r \in AtomicRequests /\ writes[r] /= {}
  <2>1. /\ orders' = [orders EXCEPT ![KeyOf(r)] = Row(r)]
        /\ version' = [version EXCEPT ![ProductOf(r)] = @ + 1]
        /\ processing' = processing \cup {r}
        /\ KeyOf(r) \in Keys /\ orders[KeyOf(r)] = Null
        /\ ProductOf(r) \in Products
    BY <1>4, ApplyCases, RequestsAssumption DEF Settle, Enough
  <2>2. Row(r) /= Null /\ Row(r).id = r /\ Row(r).productId = ProductOf(r)
    BY OwnRow DEF OInv, Row, RowFor, ProductOf
  <2>3. /\ ReservingKeys' = ReservingKeys \cup {KeyOf(r)}
        /\ KeyOf(r) \notin ReservingKeys
        /\ \A k \in ReservingKeys : orders'[k] = orders[k]
        /\ orders'[KeyOf(r)] = Row(r)
    BY <1>1, <1>4, <2>1, <2>2 DEF ReservingKeys
  <2>4. processing' = {orders'[k].id : k \in ReservingKeys'}
    <3>1. {orders'[k].id : k \in ReservingKeys \cup {KeyOf(r)}}
            = {orders[k].id : k \in ReservingKeys} \cup {r}
        BY <2>2, <2>3
    <3> QED
        BY <3>1, <2>1, <2>3 DEF OInv, AtomicVisibility
  <2>5. ASSUME NEW p \in Products
        PROVE  version'[p] = 1 + Cardinality({k \in ReservingKeys' : orders'[k].productId = p})
    <3> DEFINE Sold == {k \in ReservingKeys : orders[k].productId = p}
    <3>1. version[p] = 1 + Cardinality(Sold) /\ version[p] \in Nat
        BY DEF OInv, AtomicVisibility, TypeOK
    <3>2. IsFiniteSet(Sold)
      <4>1. Sold \subseteq Keys
        BY DEF ReservingKeys
      <4> QED
        BY <4>1, FS_Subset, TablesAssumption
    <3>3. CASE p = ProductOf(r)
      <4>1. {k \in ReservingKeys' : orders'[k].productId = p} = Sold \cup {KeyOf(r)}
        BY <2>2, <2>3, <3>3
      <4>2. Cardinality(Sold \cup {KeyOf(r)}) = Cardinality(Sold) + 1
        BY <2>3, <3>2, FS_AddElement
      <4>3. version'[p] = version[p] + 1
        BY <2>1, <3>3 DEF OInv, TypeOK
      <4>4. Cardinality(Sold) \in Nat
        BY <3>2, FS_CardinalityType
      <4>5. version'[p] = 1 + Cardinality(Sold \cup {KeyOf(r)})
        <5> HIDE DEF Sold
        <5> QED
            BY <3>1, <4>2, <4>3, <4>4
      <4> QED
        BY <4>1, <4>5
    <3>4. CASE p /= ProductOf(r)
      <4>1. {k \in ReservingKeys' : orders'[k].productId = p} = Sold
        BY <2>2, <2>3, <3>4
      <4>2. version'[p] = version[p]
        BY <2>1, <3>4 DEF OInv, TypeOK
      <4> QED
        BY <3>1, <4>1, <4>2
    <3> QED
        BY <3>3, <3>4
  <2> QED
    BY <2>4, <2>5 DEF AtomicVisibility
<1> QED
    BY <1>2, <1>3, <1>4

\* The stored quantity of an order of the atomic service is a number.
LEMMA ReservedQuantities ==
    ASSUME OInv
    PROVE  \A k \in ReservingKeys : orders[k].quantity \in Nat
<1> SUFFICES ASSUME NEW k \in ReservingKeys PROVE orders[k].quantity \in Nat
    OBVIOUS
<1>1. k \in Keys /\ orders[k] /= Null /\ orders[k] /= Orders0[k]
    BY TablesAssumption DEF ReservingKeys, Requests
<1>2. PICK r \in Requests : orders[k] = Row(r)
    BY <1>1 DEF OInv, RowInv
<1> QED
    BY <1>2, InputFacts DEF OInv, Row, RowFor

\* The stock an order takes is the quantity that becomes visible with it.
LEMMA SettleConserves ==
    ASSUME OInv, NEW r \in Requests, Settle(r)
    PROVE  StockConserved'
<1> USE DEF Requests
<1>1. orders \in [Keys -> NewRows \cup {Orders0[k] : k \in Keys} \cup {Null}]
    BY DEF OInv, TypeOK
<1>2. CASE writes[r] = {}
  <2>1. UNCHANGED <<stock, version, orders, processing, input>>
    BY <1>2, ApplyCases DEF Settle, Whole
  <2> QED
    BY <2>1, TablesAlone
<1>3. CASE r \in HttpRequests /\ writes[r] /= {}
  <2>1. /\ orders' = [orders EXCEPT ![KeyOf(r)] = Row(r)]
        /\ UNCHANGED stock
        /\ KeyOf(r) \in Keys /\ orders[KeyOf(r)] = Null
    BY <1>3, ApplyCases, RequestsAssumption DEF Settle
  <2>2. Row(r).id \notin AtomicRequests
    BY <1>3, OwnRow, RequestsAssumption DEF OInv
  <2>3. ReservingKeys' = ReservingKeys /\ \A k \in ReservingKeys : orders'[k] = orders[k]
    BY <1>1, <2>1, <2>2 DEF ReservingKeys
  <2>4. ASSUME NEW p \in Products PROVE Reserved(p)' = Reserved(p)
    <3>1. {k \in ReservingKeys : orders'[k].productId = p} =
            {k \in ReservingKeys : orders[k].productId = p}
        BY <2>3
    <3>2. [k \in ReservingKeys |-> orders'[k].quantity] =
            [k \in ReservingKeys |-> orders[k].quantity]
        BY <2>3
    <3> QED
        BY <2>3, <3>1, <3>2 DEF Reserved
  <2> QED
    BY <2>1, <2>4 DEF OInv, StockConserved
<1>4. CASE r \in AtomicRequests /\ writes[r] /= {}
  <2>1. /\ orders' = [orders EXCEPT ![KeyOf(r)] = Row(r)]
        /\ stock' = [stock EXCEPT ![ProductOf(r)] = @ - input[r].quantity]
        /\ KeyOf(r) \in Keys /\ orders[KeyOf(r)] = Null
    BY <1>4, ApplyCases, RequestsAssumption DEF Settle
  <2>2. /\ Row(r) /= Null /\ Row(r).id = r /\ Row(r).productId = ProductOf(r)
        /\ Row(r).quantity = input[r].quantity /\ input[r].quantity \in Nat
    BY OwnRow, InputFacts DEF OInv, Row, RowFor, ProductOf
  <2>3. /\ ReservingKeys' = ReservingKeys \cup {KeyOf(r)}
        /\ KeyOf(r) \notin ReservingKeys
        /\ \A k \in ReservingKeys : orders'[k] = orders[k]
        /\ orders'[KeyOf(r)] = Row(r)
    BY <1>1, <1>4, <2>1, <2>2 DEF ReservingKeys
  <2> SUFFICES ASSUME NEW p \in Products
               PROVE  stock'[p] + Reserved(p)' = Stock0[p]
    BY DEF StockConserved
  <2> DEFINE Sold == {k \in ReservingKeys : orders[k].productId = p}
             F == [k \in ReservingKeys |-> orders[k].quantity]
             G == [k \in ReservingKeys' |-> orders'[k].quantity]
  <2>4. /\ stock[p] + Total(F, Sold) = Stock0[p]
        /\ stock[p] \in Nat /\ Stock0[p] \in Nat
    BY TablesAssumption DEF OInv, StockConserved, Reserved, TypeOK
  <2>5. IsFiniteSet(Sold)
    <3>1. Sold \subseteq Keys
        BY DEF ReservingKeys
    <3> QED
        BY <3>1, FS_Subset, TablesAssumption
  <2>6. /\ \A k \in Sold : F[k] \in Nat
        /\ \A k \in Sold : G[k] = F[k]
        /\ G[KeyOf(r)] = input[r].quantity
    BY <2>2, <2>3, ReservedQuantities
  <2>7. Total(G, Sold) = Total(F, Sold) /\ Total(F, Sold) \in Nat
    <3> HIDE DEF Sold, F, G
    <3> QED
        BY <2>5, <2>6, TotalDepends, UnitsFinite
  <2>8. CASE p = ProductOf(r)
    <3>1. {k \in ReservingKeys' : orders'[k].productId = p} = Sold \cup {KeyOf(r)}
        BY <2>2, <2>3, <2>8
    <3>2. KeyOf(r) \notin Sold
        BY <2>3
    <3>3. Reserved(p)' = Total(G, Sold \cup {KeyOf(r)})
        BY <3>1 DEF Reserved
    <3>4. Total(G, Sold \cup {KeyOf(r)}) = Total(G, Sold) + input[r].quantity
        <4>1. \A k \in Sold \cup {KeyOf(r)} : G[k] \in Nat
            BY <2>2, <2>6
        <4> HIDE DEF Sold, F, G
        <4>2. Total(G, Sold \cup {KeyOf(r)}) = Total(G, Sold) + G[KeyOf(r)]
            BY <2>5, <3>2, <4>1, TotalOfOneMore, Zenon
        <4> QED
            BY <2>6, <4>2
    <3>5. stock'[p] = stock[p] - input[r].quantity
        BY <2>1, <2>8 DEF OInv, TypeOK
    <3> HIDE DEF Sold, F, G
    <3> QED
        BY <2>2, <2>4, <2>7, <3>3, <3>4, <3>5
  <2>9. CASE p /= ProductOf(r)
    <3>1. {k \in ReservingKeys' : orders'[k].productId = p} = Sold
        BY <2>2, <2>3, <2>9
    <3>2. Reserved(p)' = Total(G, Sold)
        BY <3>1 DEF Reserved
    <3>3. stock'[p] = stock[p]
        BY <2>1, <2>9 DEF OInv, TypeOK
    <3> HIDE DEF Sold, F, G
    <3> QED
        BY <2>4, <2>7, <3>2, <3>3
  <2> QED
    BY <2>8, <2>9
<1> QED
    BY <1>2, <1>3, <1>4

\* Answers stay true, and a COMMIT makes the one that waited for it true.
LEMMA SettleAnswers ==
    ASSUME OInv, NEW r \in Requests, Settle(r)
    PROVE  AnswerInv'
<1> USE DEF OInv
<1>1. \A q \in Requests : Valid(input[q]) => KeyOf(q) \in Keys
    BY InputFacts
<1>2. input' = input /\ code' = code /\ answer' = answer /\ events' = events
    BY DEF Settle
<1>3. ASSUME NEW q \in Requests, Valid(input[q]), orders[KeyOf(q)] /= Null
      PROVE  orders'[KeyOf(q)] = orders[KeyOf(q)]
    BY <1>1, <1>3, RowsStay
<1>4. ASSUME NEW q \in Requests, ~Valid(input[q])
      PROVE  pc[q] \in {"new", "done"} /\ code[q] \in {"none", "VALIDATION_ERROR"} /\ q /= r
    BY <1>4 DEF ValidInv, Settle
<1>5. \A q \in Requests : q /= r => pc'[q] = pc[q] /\ writes'[q] = writes[q]
    BY DEF Settle, EndSession, Goto, TypeOK
<1>6. Valid(input[r])
    BY <1>4
<1>7. ASSUME pc'[r] = "publish"
      PROVE  orders'[KeyOf(r)] = Row(r)
  <2>1. CASE pc[r] = "publish"
    BY <1>3, <1>6, <2>1, OwnRow DEF AnswerInv
  <2>2. CASE pc[r] /= "publish"
    <3>1. r \in HttpRequests /\ writes[r] = {"order"}
        BY <1>7, <2>2 DEF Settle, Goto, TypeOK
    <3>2. KeyOf(r) \in Keys /\ orders' = [orders EXCEPT ![KeyOf(r)] = Row(r)]
        BY <3>1, ApplyCases, RequestsAssumption DEF Settle
    <3> QED
        BY <3>2 DEF TypeOK
  <2> QED
    BY <2>1, <2>2
<1>8. ASSUME pc'[r] = "refetch"
      PROVE  orders'[KeyOf(r)] /= Null
    BY <1>3, <1>6, <1>8 DEF Settle, Goto, TypeOK, AnswerInv
<1>9. ASSUME code[r] = "ok"
      PROVE  pc'[r] = "crashed" \/ Told(r)'
  <2>1. CASE pc[r] = "crashed"
    BY <2>1 DEF Settle, Goto
  <2>2. CASE Told(r)
    BY <1>2, <1>3, <1>6, <2>2, InputFixed DEF Told, SameRequest
  <2>3. CASE pc[r] = "commit" /\ writes[r] = Whole /\ answer[r] = r
    <3>1. KeyOf(r) \in Keys /\ orders' = [orders EXCEPT ![KeyOf(r)] = Row(r)]
        BY <2>3, ApplyCases DEF Settle, Whole
    <3>2. orders'[KeyOf(r)] = Row(r)
        BY <3>1 DEF TypeOK
    <3> QED
        BY <1>2, <2>3, <3>2, OwnRow, InputFixed DEF Told, SameRequest
  <2> QED
    BY <1>9, <2>1, <2>2, <2>3 DEF AnswerInv
<1>10. ASSUME code[r] = "IDEMPOTENCY_KEY_REUSED"
       PROVE  orders'[KeyOf(r)] /= Null /\ ~SameRequest(orders[KeyOf(r)], r)'
    BY <1>2, <1>3, <1>6, <1>10, InputFixed DEF AnswerInv, SameRequest
<1>11. ASSUME NEW q \in Requests, q /= r
       PROVE  /\ pc'[q] = "refetch" => orders'[KeyOf(q)] /= Null
              /\ pc'[q] = "publish" => orders'[KeyOf(q)] = Row(q)
              /\ code'[q] = "ok" =>
                   \/ pc'[q] = "crashed"
                   \/ pc'[q] = "commit" /\ writes'[q] = Whole /\ answer'[q] = q
                   \/ Told(q)'
              /\ code'[q] = "IDEMPOTENCY_KEY_REUSED" =>
                   orders'[KeyOf(q)] /= Null /\ ~SameRequest(orders[KeyOf(q)], q)'
    BY <1>2, <1>3, <1>4, <1>5, <1>11, OwnRow, InputFixed DEF AnswerInv, Told,
       SameRequest
<1>12. ASSUME NEW q \in events
       PROVE  Valid(input[q]) /\ orders'[KeyOf(q)] = Row(q)
    BY <1>3, <1>12, OwnRow DEF AnswerInv, TypeOK, Requests
<1> QED
    BY <1>2, <1>7, <1>8, <1>9, <1>10, <1>11, <1>12, InputFixed DEF AnswerInv, TypeOK,
       Requests

\* Stock only falls, and a twin of a refused request cannot have reserved any.
LEMMA SettleScarce ==
    ASSUME OInv, NEW r \in Requests, Settle(r)
    PROVE  ScarceInv'
<1> USE DEF OInv, Requests
<1> SUFFICES ASSUME NEW q \in AtomicRequests, code[q] = "INSUFFICIENT_INVENTORY"
             PROVE  /\ Valid(input[q])
                    /\ ~Enough(q)'
                    /\ ~(KeyOf(q) \in ReservingKeys' /\ SameRequest(orders[KeyOf(q)], q)')
    BY InputFixed DEF ScarceInv, Settle
<1>1. /\ Valid(input[q]) /\ ~Enough(q) /\ KeyOf(q) \in Keys /\ input' = input
      /\ ~(KeyOf(q) \in ReservingKeys /\ SameRequest(orders[KeyOf(q)], q))
    BY InputFacts DEF ScarceInv, Settle
<1>2. ~Enough(q)'
  <2>1. \A p \in Products : stock'[p] <= stock[p]
    BY ApplyCases, InputFacts DEF Settle, TypeOK
  <2>2. /\ stock' \in [Products -> Nat] /\ stock \in [Products -> Nat]
        /\ input[q].quantity \in Nat
    BY SettleTypes, InputFacts DEF TypeOK
  <2> QED
    BY <1>1, <2>1, <2>2, InputFixed DEF Enough
<1>3. CASE orders'[KeyOf(q)] = orders[KeyOf(q)]
    BY <1>1, <1>2, <1>3, InputFixed DEF ReservingKeys, SameRequest
<1>4. CASE orders'[KeyOf(q)] /= orders[KeyOf(q)]
  <2>1. orders'[KeyOf(q)] = Row(r)
    BY <1>1, <1>4, RowsStay
  <2>2. SUFFICES ASSUME r \in AtomicRequests, SameRequest(Row(r), q)
                 PROVE  FALSE
    BY <1>1, <1>2, <2>1, OwnRow, InputFixed DEF ReservingKeys, SameRequest
  <2>3. ProductOf(r) = ProductOf(q) /\ input[r].quantity = input[q].quantity
    BY <2>2, OwnRow DEF SameRequest, StoredFingerprint, fingerprintOrderRequest,
       ProductOf
  <2>4. Enough(r)
    BY <1>4, <2>2, ApplyCases, RequestsAssumption DEF Settle
  <2> QED
    BY <1>1, <2>3, <2>4 DEF Enough
<1> QED
    BY <1>2, <1>3, <1>4

\* The foreign key check of the autocommit INSERT makes its one row visible.
LEMMA CheckForeignKeySettles ==
    ASSUME OInv, NEW r \in Requests, CheckForeignKey(r)
    PROVE  Settle(r)
    BY RequestsAssumption DEF OInv, CheckForeignKey, call, process, Requests, Settle,
       TypeOK, SessionInv, KindInv,
       HttpLabels, AtomicLabels

\* The autocommit INSERT commits: one order of the HTTP service becomes visible.
LEMMA CheckForeignKeyKeeps ==
    ASSUME OInv, NEW r \in Requests, CheckForeignKey(r)
    PROVE  OInv'
<1> USE DEF OInv, CheckForeignKey, Goto, failures, EndSession, Requests
<1>0. Settle(r)
    BY CheckForeignKeySettles
<1>1. ClientInv' /\ clients' \in 0..PoolMax
 <2>1. CASE pc[r] = "insert"
    BY <2>1, ClientReturned, RequestsAssumption DEF TypeOK, KindInv, HttpLabels,
       AtomicLabels, HasClient, SessionInv
 <2>2. CASE ~(pc[r] = "insert")
    BY <2>2, ClientsKept, RequestsAssumption DEF TypeOK, KindInv, HttpLabels,
       AtomicLabels, HasClient
 <2> QED
    BY <2>1, <2>2
<1>2. TypeOK'
    BY <1>0, <1>1, SettleTypes DEF TypeOK
<1>3. KindInv'
    BY RequestsAssumption DEF TypeOK, KindInv, HttpLabels, AtomicLabels, EndSession
<1>4. ValidInv'
    BY InputFixed DEF TypeOK, KindInv, HttpLabels, AtomicLabels, ValidInv, EndSession
<1>5. SessionInv'
    BY RequestsAssumption DEF TypeOK, KindInv, HttpLabels, AtomicLabels, SessionInv,
       EndSession
<1>6. LockInv'
    BY InputFixed, RequestsAssumption DEF TypeOK, KindInv, LockInv, NeedsRow,
       HttpLabels, EndSession
<1>7. StockInv'
    BY <1>0, SettleStock
<1>8. KeyInv'
    BY <1>0, SettleKeys
<1>9. RowInv' /\ AtomicVisibility' /\ StockConserved'
    BY <1>0, SettleRows, SettleVisibility, SettleConserves
<1>10. AnswerInv'
    BY <1>0, SettleAnswers
<1>11. ScarceInv'
    BY <1>0, SettleScarce
<1> QED
    BY <1>1, <1>2, <1>3, <1>4, <1>5, <1>6, <1>7, <1>8, <1>9, <1>10, <1>11

\* COMMIT makes the writes of its session visible.
LEMMA CommitSettles ==
    ASSUME OInv, NEW r \in Requests, Commit(r)
    PROVE  Settle(r)
    BY RequestsAssumption DEF OInv, Commit, call, process, Requests, Settle, TypeOK,
       SessionInv, KindInv,
       HttpLabels, AtomicLabels

\* COMMIT: all three writes become visible, or none were made (a replay).
LEMMA CommitKeeps ==
    ASSUME OInv, NEW r \in Requests, Commit(r)
    PROVE  OInv'
<1> USE DEF OInv, Commit, Goto, process, failures, EndSession, Requests
<1>0. Settle(r)
    BY CommitSettles
<1>1. ClientInv'
    BY ClientsKept, RequestsAssumption DEF TypeOK, KindInv, HttpLabels, AtomicLabels,
       HasClient
<1>2. TypeOK'
    BY <1>0, <1>1, SettleTypes DEF TypeOK
<1>3. KindInv'
    BY RequestsAssumption DEF TypeOK, KindInv, HttpLabels, AtomicLabels, EndSession
<1>4. ValidInv'
    BY InputFixed DEF TypeOK, KindInv, HttpLabels, AtomicLabels, ValidInv, EndSession
<1>5. SessionInv'
    BY RequestsAssumption DEF TypeOK, KindInv, HttpLabels, AtomicLabels, SessionInv,
       EndSession
<1>6. LockInv'
    BY InputFixed, RequestsAssumption DEF TypeOK, KindInv, LockInv, NeedsRow,
       HttpLabels, EndSession
<1>7. StockInv'
    BY <1>0, SettleStock
<1>8. KeyInv'
    BY <1>0, SettleKeys
<1>9. RowInv' /\ AtomicVisibility' /\ StockConserved'
    BY <1>0, SettleRows, SettleVisibility, SettleConserves
<1>10. AnswerInv'
    BY <1>0, SettleAnswers
<1>11. ScarceInv'
    BY <1>0, SettleScarce
<1> QED
    BY <1>1, <1>2, <1>3, <1>4, <1>5, <1>6, <1>7, <1>8, <1>9, <1>10, <1>11

\* So does the COMMIT of a sender that is gone.
LEMMA ServerCommitSettles ==
    ASSUME OInv, NEW r \in Requests, ServerCommit(r)
    PROVE  Settle(r)
    BY RequestsAssumption DEF OInv, ServerCommit, call, process, Requests, Settle,
       TypeOK, SessionInv, KindInv,
       HttpLabels, AtomicLabels

\* A COMMIT whose sender is gone still makes all three writes visible, or none.
LEMMA ServerCommitKeeps ==
    ASSUME OInv, NEW r \in Requests, ServerCommit(r)
    PROVE  OInv'
<1> USE DEF OInv, ServerCommit, process, failures, call, EndSession, Requests
<1>0. Settle(r)
    BY ServerCommitSettles
<1>1. ClientInv'
    BY ClientsKept, RequestsAssumption DEF TypeOK, KindInv, HttpLabels, AtomicLabels,
       HasClient
<1>2. TypeOK'
    BY <1>0, <1>1, SettleTypes DEF TypeOK
<1>3. KindInv'
    BY RequestsAssumption DEF TypeOK, KindInv, HttpLabels, AtomicLabels, EndSession
<1>4. ValidInv'
    BY InputFixed DEF TypeOK, KindInv, HttpLabels, AtomicLabels, ValidInv, EndSession
<1>5. SessionInv'
    BY RequestsAssumption DEF TypeOK, KindInv, HttpLabels, AtomicLabels, SessionInv,
       EndSession
<1>6. LockInv'
    BY InputFixed, RequestsAssumption DEF TypeOK, KindInv, LockInv, NeedsRow,
       HttpLabels, EndSession, SessionInv
<1>7. StockInv'
    BY <1>0, SettleStock
<1>8. KeyInv'
    BY <1>0, SettleKeys
<1>9. RowInv' /\ AtomicVisibility' /\ StockConserved'
    BY <1>0, SettleRows, SettleVisibility, SettleConserves
<1>10. AnswerInv'
    BY <1>0, SettleAnswers
<1>11. ScarceInv'
    BY <1>0, SettleScarce
<1> QED
    BY <1>1, <1>2, <1>3, <1>4, <1>5, <1>6, <1>7, <1>8, <1>9, <1>10, <1>11

\* A crash of the API process forgets the calls, the clients and the queue, and
\* leaves the sessions of the database as they are.
LEMMA CrashApiKeeps ==
    ASSUME OInv, CrashApi
    PROVE  OInv'
<1> USE DEF OInv, CrashApi, tables, Requests
<1>1. ClientInv' /\ clients' \in 0..PoolMax
  <2>1. Holders' = {}
    BY DEF Holders, HasClient, TypeOK
  <2> QED
    BY <2>1, FS_EmptySet, PoolAssumption DEF ClientInv
<1>2. TypeOK'
    BY <1>1 DEF TypeOK, Labels
<1>3. KindInv'
    BY RequestsAssumption DEF TypeOK, KindInv, HttpLabels, AtomicLabels
<1>4. ValidInv'
    BY InputFixed DEF TypeOK, ValidInv
<1>5. SessionInv'
    BY RequestsAssumption DEF TypeOK, KindInv, HttpLabels, AtomicLabels, SessionInv
<1>6. LockInv'
    BY InputFixed, RequestsAssumption DEF TypeOK, LockInv, NeedsRow
<1>7. StockInv'
    BY InputFixed DEF TypeOK, StockInv, Enough
<1>8. KeyInv'
    BY InputFixed DEF TypeOK, KeyInv
<1>9. RowInv' /\ AtomicVisibility' /\ StockConserved'
    BY TablesAlone
<1>10. AnswerInv'
    BY InputFixed DEF TypeOK, ValidInv, AnswerInv, Told, SameRequest
<1>11. ScarceInv'
    BY InputFixed DEF TypeOK, ScarceInv, Enough, ReservingKeys, SameRequest
<1> QED
    BY <1>1, <1>2, <1>3, <1>4, <1>5, <1>6, <1>7, <1>8, <1>9, <1>10, <1>11

\* A step that changes nothing.
LEMMA StutterKeeps ==
    ASSUME OInv, UNCHANGED vars
    PROVE  OInv'
<1> USE DEF OInv, vars
<1>1. TypeOK' /\ KindInv' /\ ValidInv' /\ SessionInv'
    BY DEF TypeOK, KindInv, ValidInv, SessionInv
<1>2. LockInv' /\ StockInv' /\ KeyInv'
    BY InputFixed DEF LockInv, NeedsRow, StockInv, Enough, KeyInv, Requests
<1>3. RowInv' /\ AtomicVisibility' /\ StockConserved'
    BY TablesAlone
<1>4. ScarceInv'
    BY InputFixed DEF ScarceInv, ReservingKeys, Enough, SameRequest, Requests
<1>5. AnswerInv'
    BY InputFixed DEF AnswerInv, Told, SameRequest, TypeOK, Requests
<1>6. ClientInv'
    BY ClientsKept DEF HasClient
<1> QED
    BY <1>1, <1>2, <1>3, <1>4, <1>5, <1>6

\* Before the first call: no session, no answer, and the rows the table starts with.
LEMMA InitEstablishes == Init => OInv
<1> SUFFICES ASSUME Init PROVE OInv
    OBVIOUS
<1> USE DEF Init, Requests
<1>1. TypeOK
  <2>1. orders \in [Keys -> NewRows \cup {Orders0[k] : k \in Keys} \cup {Null}]
    BY TablesAssumption
  <2> QED
    BY <2>1, TablesAssumption, PoolAssumption DEF TypeOK, Labels, Codes
<1>2. KindInv /\ ValidInv /\ SessionInv
    BY DEF KindInv, ValidInv, SessionInv, HttpLabels, AtomicLabels
<1>3. LockInv /\ StockInv /\ KeyInv
    BY RequestsAssumption DEF LockInv, NeedsRow, StockInv, KeyInv
<1>4. RowInv /\ AnswerInv /\ ScarceInv
    BY DEF RowInv, AnswerInv, ScarceInv
<1>5. ReservingKeys = {}
    BY TablesAssumption DEF ReservingKeys
<1>6. AtomicVisibility /\ StockConserved
  <2>1. \A p \in Products : {k \in ReservingKeys : orders[k].productId = p} = {}
    BY <1>5
  <2>2. AtomicVisibility
    BY <1>5, <2>1, FS_EmptySet DEF AtomicVisibility
  <2>3. \A p \in Products : Reserved(p) = 0
    BY <2>1, TotalOfNothing DEF Reserved
  <2> QED
    BY <2>2, <2>3, TablesAssumption DEF StockConserved
<1>7. ClientInv
  <2>1. Holders = {}
    BY DEF Holders, HasClient
  <2> QED
    BY <2>1, FS_EmptySet DEF ClientInv
<1> QED
    BY <1>1, <1>2, <1>3, <1>4, <1>6, <1>7 DEF OInv

\* What a call and its session do keeps the invariant, with or without a failure.
LEMMA StepKeeps ==
    ASSUME OInv, NEW r \in Requests, Step(r) \/ Recovery(r) \/ Failure(r) \/ DeadlockVictim(r)
    PROVE  OInv'
<1>1. CASE Step(r)
    BY <1>1, ReceiveKeeps, FindExistingKeeps, ReadProductKeeps, SendInsertKeeps,
       InsertAutocommitKeeps, CheckForeignKeyKeeps, RefetchKeeps, PublishKeeps, ConnectKeeps,
       BeginKeeps, FindByIdForUpdateKeeps, RecheckKeeps, ReserveLockedKeeps,
       InsertInTransactionKeeps, RefetchInTransactionKeeps, CreateProcessingKeeps, CommitKeeps,
       RollbackKeeps, ReleaseKeeps DEF Step
<1>2. CASE Recovery(r)
    BY <1>2, RollbackFailsKeeps, ServerAbortKeeps, ServerCommitKeeps DEF Recovery
<1>3. CASE Failure(r)
    BY <1>3, PoolQueryFailsKeeps, BeginFailsKeeps, StatementFailsKeeps,
       InsertConnectionLostKeeps, CommitConnectionLostKeeps DEF Failure
<1>4. CASE DeadlockVictim(r)
    BY <1>4, DeadlockVictimKeeps
<1> QED
    BY <1>1, <1>2, <1>3, <1>4

\* The invariant is inductive: whatever calls of the two services, lost
\* connections, deadlocks, late COMMITs and crashes interleave, every step keeps it.
THEOREM OrdersInvariant == Spec => []OInv
<1>1. Init => OInv
    BY InitEstablishes
<1>2. OInv /\ [Next]_vars => OInv'
    BY StepKeeps, CrashApiKeeps, StutterKeeps DEF Next
<1> QED
    BY <1>1, <1>2, PTL DEF Spec

-----------------------------------------------------------------------------
(* The properties.                                                         *)

\* Every variable keeps its type; in particular no product's stock goes below
\* zero and the pool never hands out more clients than it has.
THEOREM TypesHold == Spec => []TypeOK
<1>1. OInv => TypeOK
    BY DEF OInv
<1> QED
    BY <1>1, OrdersInvariant, PTL

\* The three writes of the atomic service's transaction become visible together
\* or not at all, and the product's version counts them.
THEOREM WritesAreAtomic == Spec => []AtomicVisibility
<1>1. OInv => AtomicVisibility
    BY DEF OInv
<1> QED
    BY <1>1, OrdersInvariant, PTL

\* Stock is neither lost nor invented: what is left and what the visible orders of
\* the atomic service took is the initial stock.
THEOREM StockIsConserved == Spec => []StockConserved
<1>1. OInv => StockConserved
    BY DEF OInv
<1> QED
    BY <1>1, OrdersInvariant, PTL

\* A caller told "201", a caller told IDEMPOTENCY_KEY_REUSED and a consumer of an
\* ORDER_CREATED event are all told the truth about the stored order.
THEOREM AnswersAreTruthful == Spec => []AnswerTruthful
<1>1. OInv => AnswerTruthful
  <2> SUFFICES ASSUME OInv PROVE AnswerTruthful
    OBVIOUS
  <2>1. \A r \in events : orders[KeyOf(r)] /= Null /\ orders[KeyOf(r)].id = r
    BY OwnRow DEF OInv, AnswerInv, TypeOK, Requests
  <2> QED
    BY <2>1 DEF OInv, AnswerInv, Told, AnswerTruthful
<1> QED
    BY <1>1, OrdersInvariant, PTL

\* Nobody is refused for want of the stock its own earlier attempt reserved.
THEOREM RefusalsAreGenuine == Spec => []NoSpuriousInsufficient
<1>1. OInv => NoSpuriousInsufficient
    BY DEF OInv, ScarceInv, NoSpuriousInsufficient
<1> QED
    BY <1>1, OrdersInvariant, PTL

-----------------------------------------------------------------------------
(* The refinement of OrderLedger.                                          *)

\* An order that is about to be stored has no processing record yet.
LEMMA NotYetProcessing ==
    ASSUME OInv, NEW r \in AtomicRequests, orders[KeyOf(r)] = Null
    PROVE  r \notin processing
<1> SUFFICES ASSUME r \in processing PROVE FALSE
    OBVIOUS
<1>1. PICK k \in ReservingKeys : orders[k].id = r
    BY DEF OInv, AtomicVisibility
<1>2. k \in Keys /\ orders[k] /= Null
    BY DEF ReservingKeys
<1>3. orders[k] /= Orders0[k]
    BY <1>1, <1>2, TablesAssumption DEF Requests
<1>4. PICK q \in Requests : KeyOf(q) = k /\ orders[k] = Row(q)
    BY <1>2, <1>3 DEF OInv, RowInv
<1>5. q = r
    BY <1>1, <1>4, OwnRow DEF OInv
<1> QED
    BY <1>2, <1>4, <1>5

\* Writes that become visible are one step of the ledger, or nothing.
LEMMA SettleRefines ==
    ASSUME OInv, NEW r \in Requests, Settle(r)
    PROVE  [Ledger!Next]_(Ledger!vars)
<1>1. Row(r) \in NewRows /\ Row(r).id = r /\ Row(r).productId = ProductOf(r)
      /\ Row(r).quantity = input[r].quantity
    BY OwnRow DEF OInv, Row, RowFor, ProductOf
<1>2. CASE writes[r] = {}
    BY <1>2, ApplyCases DEF Settle, Whole, Ledger!vars
<1>3. CASE r \in HttpRequests /\ writes[r] /= {}
  <2>1. KeyOf(r) \in Keys /\ Ledger!Accept(KeyOf(r), Row(r))
    BY <1>3, ApplyCases, RequestsAssumption DEF Settle, Ledger!Accept
  <2> QED
    BY <1>1, <2>1 DEF Ledger!Next
<1>4. CASE r \in AtomicRequests /\ writes[r] /= {}
  <2>1. /\ KeyOf(r) \in Keys /\ orders[KeyOf(r)] = Null /\ Enough(r)
        /\ orders' = [orders EXCEPT ![KeyOf(r)] = Row(r)]
        /\ stock' = [stock EXCEPT ![ProductOf(r)] = @ - input[r].quantity]
        /\ version' = [version EXCEPT ![ProductOf(r)] = @ + 1]
        /\ processing' = processing \cup {r}
    BY <1>4, ApplyCases, RequestsAssumption DEF Settle
  <2>2. Ledger!AcceptReserved(KeyOf(r), Row(r))
    BY <1>1, <1>4, <2>1, NotYetProcessing DEF Ledger!AcceptReserved, Enough
  <2> QED
    BY <1>1, <2>1, <2>2 DEF Ledger!Next
<1> QED
    BY <1>2, <1>3, <1>4 DEF Requests

\* What a call and its session do is a step of the ledger, or nothing it sees.
LEMMA StepRefines ==
    ASSUME OInv, NEW r \in Requests, Step(r) \/ Recovery(r) \/ Failure(r) \/ DeadlockVictim(r)
    PROVE  [Ledger!Next]_(Ledger!vars)
<1>1. CASE CheckForeignKey(r)
    BY <1>1, CheckForeignKeySettles, SettleRefines
<1>2. CASE Commit(r)
    BY <1>2, CommitSettles, SettleRefines
<1>3. CASE ServerCommit(r)
    BY <1>3, ServerCommitSettles, SettleRefines
<1>4. CASE ~(CheckForeignKey(r) \/ Commit(r) \/ ServerCommit(r))
  <2>1. CASE Step(r)
    BY <1>4, <2>1 DEF Step, Receive, FindExisting, ReadProduct, SendInsert,
       InsertAutocommit,
       Refetch, Publish, Connect, Begin, FindByIdForUpdate, Recheck, ReserveLocked,
       InsertInTransaction, RefetchInTransaction, CreateProcessing, Rollback, Release, tables,
       Ledger!vars
  <2>2. CASE Recovery(r)
    BY <1>4, <2>2 DEF Recovery, RollbackFails, ServerAbort, tables, Ledger!vars
  <2>3. CASE Failure(r)
    BY <2>3 DEF Failure, PoolQueryFails, BeginFails, StatementFails,
       InsertConnectionLost,
       CommitConnectionLost, tables, Ledger!vars
  <2>4. CASE DeadlockVictim(r)
    BY <2>4 DEF DeadlockVictim, tables, Ledger!vars
  <2> QED
    BY <2>1, <2>2, <2>3, <2>4
<1> QED
    BY <1>1, <1>2, <1>3, <1>4

\* The two services implement the ledger: their readers see nothing but whole
\* orders being accepted, one per key.
THEOREM ServicesImplementLedger == Spec => ImplementsLedger
<1>1. Init => Ledger!Init
    BY DEF Init, Ledger!Init
<1>2. OInv /\ [Next]_vars => [Ledger!Next]_(Ledger!vars)
  <2>1. ASSUME CrashApi PROVE UNCHANGED Ledger!vars
    BY <2>1 DEF CrashApi, tables, Ledger!vars
  <2>2. ASSUME UNCHANGED vars PROVE UNCHANGED Ledger!vars
    BY <2>2 DEF vars, Ledger!vars
  <2> QED
    BY <2>1, <2>2, StepRefines DEF Next
<1> QED
    BY <1>1, <1>2, OrdersInvariant, PTL DEF Spec, ImplementsLedger, Ledger!Spec

============================================================================
