------------------------- MODULE MessageDedupProofs -------------------------
(***************************************************************************)
(* TLAPS proofs about MessageDedup, for every set of messages and workers  *)
(* and any number of failures.                                             *)
(***************************************************************************)
EXTENDS MessageDedup, TotalsProofs

Labels == {"idle", "claim", "handle", "commit", "rollback"}

\* The types of what the three stores and the deliveries keep.
TypeOK ==
    /\ store \in {"postgres", "redis", "memory"}
    /\ claims \subseteq Messages
    /\ holder \in [Messages -> Workers \cup {None, "lost", "committing"}]
    /\ effects \in [Messages -> Nat]
    /\ excuses \in [Messages -> Nat]
    /\ hidden \in [Messages -> Nat]
    /\ acked \subseteq Messages
    /\ message \in [Workers -> Messages \cup {None}]
    /\ pc \in [Workers -> Labels]
    /\ result \in [Workers -> {None, "PROCESSED", "DUPLICATE"}]
    /\ faults \in Nat

\* A worker has a message while it works, and only a transaction commits or
\* rolls back.
WorkerInv ==
    \A w \in Workers :
        /\ pc[w] /= "idle" => message[w] \in Messages
        /\ pc[w] = "idle" => message[w] = None
        /\ pc[w] \in {"commit", "rollback"} => store = "postgres"
        /\ pc[w] = "commit" => result[w] \in {"PROCESSED", "DUPLICATE"}

\* An uncommitted marker belongs to the one worker that is handling the message,
\* or to a session that worker lost, and there is no committed one.
HolderInv ==
    /\ \A m \in Messages : holder[m] /= None => store = "postgres" /\ m \notin claims
    /\ \A m \in Messages, w \in Workers : holder[m] = w =>
         /\ message[w] = m
         /\ pc[w] \in {"handle", "rollback", "commit"}
         /\ pc[w] = "commit" => result[w] = "PROCESSED"
    /\ store = "postgres" =>
         \A w \in Workers : pc[w] \in {"handle", "rollback"} => holder[message[w]] = w

\* Marker and effect are committed together, and what a worker is about to
\* answer is true once its COMMIT is carried out.
CommitInv ==
    store = "postgres" =>
        /\ \A m \in Messages : effects[m] = IF m \in claims THEN 1 ELSE 0
        /\ \A w \in Workers : pc[w] = "commit" =>
             IF result[w] = "DUPLICATE" THEN message[w] \in claims
                                        ELSE holder[message[w]] = w \/ hidden[message[w]] > 0

\* The deliveries that may still bring about the effect of m.
Handling(m) == {w \in Workers : store /= "postgres" /\ pc[w] = "handle" /\ message[w] = m}

\* Effects made and under way are paid for by the claim and by the excuses.
BudgetInv ==
    \A m \in Messages :
        effects[m] + Cardinality(Handling(m)) <= excuses[m] + (IF m \in claims THEN 1 ELSE 0)

\* The inductive invariant.
DedupInv ==
    /\ TypeOK
    /\ WorkerInv
    /\ HolderInv
    /\ CommitInv
    /\ BudgetInv
    /\ AcknowledgedMeansCommitted
    /\ ClaimBacked

-----------------------------------------------------------------------------
(* The budget of effects.                                                  *)

\* The deliveries under way are finitely many.
LEMMA HandlingCard ==
    ASSUME NEW m \in Messages
    PROVE  IsFiniteSet(Handling(m)) /\ Cardinality(Handling(m)) \in Nat
<1>1. Handling(m) \subseteq Workers
    BY DEF Handling
<1> QED
    BY <1>1, WorkersAssumption, FS_Subset, FS_CardinalityType

\* The same of the next state.
LEMMA HandlingCardNext ==
    ASSUME NEW m \in Messages
    PROVE  IsFiniteSet(Handling(m)') /\ Cardinality(Handling(m)') \in Nat
<1>1. Handling(m)' \subseteq Workers
    BY DEF Handling
<1> QED
    BY <1>1, WorkersAssumption, FS_Subset, FS_CardinalityType

\* With PostgreSQL nothing is under way outside a transaction.
LEMMA BudgetOfTransactions ==
    ASSUME TypeOK', CommitInv', store' = "postgres"
    PROVE  BudgetInv'
<1> SUFFICES ASSUME NEW m \in Messages
             PROVE  effects'[m] + Cardinality(Handling(m)') <=
                      excuses'[m] + (IF m \in claims' THEN 1 ELSE 0)
    BY DEF BudgetInv
<1>1. Handling(m)' = {}
    BY DEF Handling
<1> QED
    BY <1>1, FS_EmptySet DEF TypeOK, CommitInv

\* A step that makes no effect, begins none and gives up no claim.
LEMMA BudgetKept ==
    ASSUME DedupInv, UNCHANGED <<effects, excuses>>, claims \subseteq claims',
           \A m \in Messages : Handling(m)' \subseteq Handling(m)
    PROVE  BudgetInv'
<1> SUFFICES ASSUME NEW m \in Messages
             PROVE  effects[m] + Cardinality(Handling(m)') <=
                      excuses[m] + (IF m \in claims' THEN 1 ELSE 0)
    BY DEF BudgetInv
<1>1. Cardinality(Handling(m)') <= Cardinality(Handling(m))
    BY HandlingCard, FS_Subset
<1>2. effects[m] + Cardinality(Handling(m)) <= excuses[m] + (IF m \in claims THEN 1 ELSE 0)
    BY DEF DedupInv, BudgetInv
<1> QED
    BY <1>1, <1>2, HandlingCard, HandlingCardNext DEF DedupInv, TypeOK

\* A delivery ends: the effect of its message, if it was made, was under way.
LEMMA BudgetOfEffect ==
    ASSUME DedupInv, NEW w \in Workers, NEW done \in BOOLEAN,
           store /= "postgres", pc[w] = "handle", pc' = [pc EXCEPT ![w] = "idle"],
           \A v \in Workers \ {w} : message'[v] = message[v], store' = store,
           effects' = IF done THEN Count(effects, message[w]) ELSE effects,
           \/ UNCHANGED <<claims, excuses>>
           \/ /\ claims' = claims \ {message[w]}
              /\ excuses' = IF done THEN Count(excuses, message[w]) ELSE excuses
    PROVE  BudgetInv'
<1> SUFFICES ASSUME NEW m \in Messages
             PROVE  effects'[m] + Cardinality(Handling(m)') <=
                      excuses'[m] + (IF m \in claims' THEN 1 ELSE 0)
    BY DEF BudgetInv
<1>1. /\ effects[m] + Cardinality(Handling(m)) <= excuses[m] + (IF m \in claims THEN 1 ELSE 0)
      /\ effects \in [Messages -> Nat] /\ excuses \in [Messages -> Nat]
      /\ Cardinality(Handling(m)) \in Nat
    BY HandlingCard DEF DedupInv, BudgetInv, TypeOK
<1>2. CASE m = message[w]
  <2>1. w \in Handling(m) /\ Handling(m)' = Handling(m) \ {w}
    BY <1>2 DEF Handling, DedupInv, TypeOK
  <2>2. Cardinality(Handling(m)') = Cardinality(Handling(m)) - 1
    BY <2>1, HandlingCard, FS_RemoveElement
  <2>3. Cardinality(Handling(m)') \in Nat
    BY HandlingCardNext
  <2> QED
    BY <1>1, <1>2, <2>2, <2>3 DEF Count
<1>3. CASE m /= message[w]
  <2>1. Handling(m)' = Handling(m)
    BY <1>3 DEF Handling, DedupInv, TypeOK
  <2> QED
    BY <1>1, <1>3, <2>1 DEF Count
<1> QED
    BY <1>2, <1>3

-----------------------------------------------------------------------------
(* Every action keeps the invariant.                                       *)

\* A delivery begins, also of a message another worker is at.
LEMMA ReceiveKeeps ==
    ASSUME DedupInv, NEW w \in Workers, NEW m \in Messages, Receive(w, m)
    PROVE  DedupInv'
<1> USE DEF DedupInv, Receive
<1>1. TypeOK'
    BY DEF TypeOK, WorkerInv, Labels
<1>2. WorkerInv'
    BY DEF TypeOK, WorkerInv, Labels
<1>3. HolderInv'
    BY NoneAssumption, WorkersAssumption DEF TypeOK, WorkerInv, HolderInv
<1>4. CommitInv'
    BY NoneAssumption, WorkersAssumption DEF TypeOK, WorkerInv, HolderInv, CommitInv
<1>5. BudgetInv'
    BY BudgetKept DEF Handling, TypeOK
<1>6. AcknowledgedMeansCommitted'
    BY DEF TypeOK, WorkerInv, HolderInv, CommitInv, AcknowledgedMeansCommitted
<1>7. ClaimBacked'
    BY DEF TypeOK, WorkerInv, CommitInv, ClaimBacked
<1> QED
    BY <1>1, <1>2, <1>3, <1>4, <1>5, <1>6, <1>7

\* The marker is inserted under no other uncommitted one, or the committed one is
\* found.
LEMMA TryCreateKeeps ==
    ASSUME DedupInv, NEW w \in Workers, TryCreate(w)
    PROVE  DedupInv'
<1> USE DEF DedupInv, TryCreate, Goto, ToCommit
<1>1. TypeOK'
    BY DEF TypeOK, WorkerInv, Labels
<1>2. WorkerInv'
    BY DEF TypeOK, WorkerInv, Labels
<1>3. HolderInv'
    BY NoneAssumption, WorkersAssumption DEF TypeOK, WorkerInv, HolderInv
<1>4. CommitInv'
    BY NoneAssumption, WorkersAssumption DEF TypeOK, WorkerInv, HolderInv, CommitInv
<1>5. BudgetInv'
    BY <1>1, <1>4, BudgetOfTransactions DEF WorkerInv, HolderInv
<1>6. AcknowledgedMeansCommitted'
    BY DEF TypeOK, WorkerInv, HolderInv, CommitInv, AcknowledgedMeansCommitted
<1>7. ClaimBacked'
    BY DEF TypeOK, WorkerInv, CommitInv, ClaimBacked
<1> QED
    BY <1>1, <1>2, <1>3, <1>4, <1>5, <1>6, <1>7

\* The handler succeeds: the result waits for COMMIT.
LEMMA HandlerResolvesKeeps ==
    ASSUME DedupInv, NEW w \in Workers, HandlerResolves(w)
    PROVE  DedupInv'
<1> USE DEF DedupInv, HandlerResolves, ToCommit
<1>1. TypeOK'
    BY DEF TypeOK, WorkerInv, Labels
<1>2. WorkerInv'
    BY DEF TypeOK, WorkerInv, Labels
<1>3. HolderInv'
    BY NoneAssumption, WorkersAssumption DEF TypeOK, WorkerInv, HolderInv
<1>4. CommitInv'
    BY NoneAssumption, WorkersAssumption DEF TypeOK, WorkerInv, HolderInv, CommitInv
<1>5. BudgetInv'
    BY <1>1, <1>4, BudgetOfTransactions DEF WorkerInv, HolderInv
<1>6. AcknowledgedMeansCommitted'
    BY DEF TypeOK, WorkerInv, HolderInv, CommitInv, AcknowledgedMeansCommitted
<1>7. ClaimBacked'
    BY DEF TypeOK, WorkerInv, CommitInv, ClaimBacked
<1> QED
    BY <1>1, <1>2, <1>3, <1>4, <1>5, <1>6, <1>7

\* A handler hides a failed statement: the transaction is gone, which is noted.
LEMMA HandlerSwallowsKeeps ==
    ASSUME DedupInv, NEW w \in Workers, HandlerSwallows(w)
    PROVE  DedupInv'
<1> USE DEF DedupInv, HandlerSwallows, ToCommit, Fault, Count
<1>1. TypeOK'
    BY DEF TypeOK, WorkerInv, Labels
<1>2. WorkerInv'
    BY DEF TypeOK, WorkerInv, Labels
<1>3. HolderInv'
    BY NoneAssumption, WorkersAssumption DEF TypeOK, WorkerInv, HolderInv
<1>4. CommitInv'
    BY NoneAssumption, WorkersAssumption DEF TypeOK, WorkerInv, HolderInv, CommitInv
<1>5. BudgetInv'
    BY <1>1, <1>4, BudgetOfTransactions DEF WorkerInv, HolderInv
<1>6. AcknowledgedMeansCommitted'
    BY DEF TypeOK, WorkerInv, HolderInv, CommitInv, AcknowledgedMeansCommitted
<1>7. ClaimBacked'
    BY DEF TypeOK, WorkerInv, CommitInv, ClaimBacked
<1> QED
    BY <1>1, <1>2, <1>3, <1>4, <1>5, <1>6, <1>7

\* The handler rejects: its transaction is to be rolled back.
LEMMA HandlerRejectsKeeps ==
    ASSUME DedupInv, NEW w \in Workers, HandlerRejects(w)
    PROVE  DedupInv'
<1> USE DEF DedupInv, HandlerRejects, Goto, Fault
<1>1. TypeOK'
    BY DEF TypeOK, WorkerInv, Labels
<1>2. WorkerInv'
    BY DEF TypeOK, WorkerInv, Labels
<1>3. HolderInv'
    BY NoneAssumption, WorkersAssumption DEF TypeOK, WorkerInv, HolderInv
<1>4. CommitInv'
    BY NoneAssumption, WorkersAssumption DEF TypeOK, WorkerInv, HolderInv, CommitInv
<1>5. BudgetInv'
    BY <1>1, <1>4, BudgetOfTransactions DEF WorkerInv, HolderInv
<1>6. AcknowledgedMeansCommitted'
    BY DEF TypeOK, WorkerInv, HolderInv, CommitInv, AcknowledgedMeansCommitted
<1>7. ClaimBacked'
    BY DEF TypeOK, WorkerInv, CommitInv, ClaimBacked
<1> QED
    BY <1>1, <1>2, <1>3, <1>4, <1>5, <1>6, <1>7

\* ROLLBACK frees the marker; the delivery failed.
LEMMA RollbackKeeps ==
    ASSUME DedupInv, NEW w \in Workers, Rollback(w)
    PROVE  DedupInv'
<1> USE DEF DedupInv, Rollback, Answer
<1>1. TypeOK'
    BY DEF TypeOK, WorkerInv, Labels
<1>2. WorkerInv'
    BY DEF TypeOK, WorkerInv, Labels
<1>3. HolderInv'
    BY NoneAssumption, WorkersAssumption DEF TypeOK, WorkerInv, HolderInv
<1>4. CommitInv'
    BY NoneAssumption, WorkersAssumption DEF TypeOK, WorkerInv, HolderInv, CommitInv
<1>5. BudgetInv'
    BY <1>1, <1>4, BudgetOfTransactions DEF WorkerInv, HolderInv
<1>6. AcknowledgedMeansCommitted'
    BY DEF TypeOK, WorkerInv, HolderInv, CommitInv, AcknowledgedMeansCommitted
<1>7. ClaimBacked'
    BY DEF TypeOK, WorkerInv, CommitInv, ClaimBacked
<1> QED
    BY <1>1, <1>2, <1>3, <1>4, <1>5, <1>6, <1>7

\* COMMIT makes marker and effect visible, or finds nothing to make visible.
LEMMA CommitKeeps ==
    ASSUME DedupInv, NEW w \in Workers, Commit(w)
    PROVE  DedupInv'
<1> USE DEF DedupInv, Commit, Answer, MakeVisible, Count
<1>1. TypeOK'
    BY DEF TypeOK, WorkerInv, Labels
<1>2. WorkerInv'
    BY DEF TypeOK, WorkerInv, Labels
<1>3. HolderInv'
    BY NoneAssumption, WorkersAssumption DEF TypeOK, WorkerInv, HolderInv
<1>4. CommitInv'
    BY NoneAssumption, WorkersAssumption DEF TypeOK, WorkerInv, HolderInv, CommitInv
<1>5. BudgetInv'
    BY <1>1, <1>4, BudgetOfTransactions DEF WorkerInv, HolderInv
<1>6. AcknowledgedMeansCommitted'
    BY <1>1, <1>4, NoneAssumption, WorkersAssumption DEF TypeOK, WorkerInv, HolderInv,
       CommitInv, AcknowledgedMeansCommitted
<1>7. ClaimBacked'
    BY DEF TypeOK, WorkerInv, CommitInv, ClaimBacked
<1> QED
    BY <1>1, <1>2, <1>3, <1>4, <1>5, <1>6, <1>7

\* The connection is lost: the session lives on without its client.
LEMMA ConnectionLostKeeps ==
    ASSUME DedupInv, NEW w \in Workers, ConnectionLost(w)
    PROVE  DedupInv'
<1> USE DEF DedupInv, ConnectionLost, Answer, Fault, Orphaned
<1>1. TypeOK'
    BY DEF TypeOK, WorkerInv, Labels
<1>2. WorkerInv'
    BY DEF TypeOK, WorkerInv, Labels
<1>3. HolderInv'
    BY NoneAssumption, WorkersAssumption DEF TypeOK, WorkerInv, HolderInv
<1>4. CommitInv'
    BY NoneAssumption, WorkersAssumption DEF TypeOK, WorkerInv, HolderInv, CommitInv
<1>5. BudgetInv'
    BY <1>1, <1>4, BudgetOfTransactions DEF WorkerInv, HolderInv
<1>6. AcknowledgedMeansCommitted'
    BY DEF TypeOK, WorkerInv, HolderInv, CommitInv, AcknowledgedMeansCommitted
<1>7. ClaimBacked'
    BY DEF TypeOK, WorkerInv, CommitInv, ClaimBacked
<1> QED
    BY <1>1, <1>2, <1>3, <1>4, <1>5, <1>6, <1>7

\* The server drops a session nobody is connected to.
LEMMA ServerAbortsKeeps ==
    ASSUME DedupInv, NEW m \in Messages, ServerAborts(m)
    PROVE  DedupInv'
<1> USE DEF DedupInv, ServerAborts, delivery
<1>1. TypeOK'
    BY DEF TypeOK, WorkerInv, Labels
<1>2. WorkerInv'
    BY DEF TypeOK, WorkerInv, Labels
<1>3. HolderInv'
    BY NoneAssumption, WorkersAssumption DEF TypeOK, WorkerInv, HolderInv
<1>4. CommitInv'
    BY NoneAssumption, WorkersAssumption DEF TypeOK, WorkerInv, HolderInv, CommitInv
<1>5. BudgetInv'
    BY <1>1, <1>4, WorkersAssumption, BudgetOfTransactions DEF WorkerInv, HolderInv
<1>6. AcknowledgedMeansCommitted'
    BY DEF TypeOK, WorkerInv, HolderInv, CommitInv, AcknowledgedMeansCommitted
<1>7. ClaimBacked'
    BY DEF TypeOK, WorkerInv, CommitInv, ClaimBacked
<1> QED
    BY <1>1, <1>2, <1>3, <1>4, <1>5, <1>6, <1>7

\* A COMMIT whose sender is gone makes marker and effect visible.
LEMMA ServerCommitsKeeps ==
    ASSUME DedupInv, NEW m \in Messages, ServerCommits(m)
    PROVE  DedupInv'
<1> USE DEF DedupInv, ServerCommits, MakeVisible, delivery, Count
<1>1. TypeOK'
    BY DEF TypeOK, WorkerInv, Labels
<1>2. WorkerInv'
    BY DEF TypeOK, WorkerInv, Labels
<1>3. HolderInv'
    BY NoneAssumption, WorkersAssumption DEF TypeOK, WorkerInv, HolderInv
<1>4. CommitInv'
    BY NoneAssumption, WorkersAssumption DEF TypeOK, WorkerInv, HolderInv, CommitInv
<1>5. BudgetInv'
    BY <1>1, <1>4, WorkersAssumption, BudgetOfTransactions DEF WorkerInv, HolderInv
<1>6. AcknowledgedMeansCommitted'
    BY <1>1, <1>4, NoneAssumption, WorkersAssumption DEF TypeOK, WorkerInv, HolderInv,
       CommitInv, AcknowledgedMeansCommitted
<1>7. ClaimBacked'
    BY DEF TypeOK, WorkerInv, CommitInv, ClaimBacked
<1> QED
    BY <1>1, <1>2, <1>3, <1>4, <1>5, <1>6, <1>7

\* A claim pays for the effect of the delivery that made it.
LEMMA ClaimKeeps ==
    ASSUME DedupInv, NEW w \in Workers, Claim(w)
    PROVE  DedupInv'
<1> USE DEF DedupInv, Claim, Goto, Answer
<1>1. TypeOK'
    BY DEF TypeOK, WorkerInv, Labels
<1>2. WorkerInv'
    BY DEF TypeOK, WorkerInv, Labels
<1>3. HolderInv'
    BY NoneAssumption, WorkersAssumption DEF TypeOK, WorkerInv, HolderInv
<1>4. CommitInv'
    BY NoneAssumption, WorkersAssumption DEF TypeOK, WorkerInv, HolderInv, CommitInv
<1>5. BudgetInv'
  <2>1. CASE message[w] \in claims
    BY <2>1, BudgetKept DEF Handling, TypeOK
  <2>2. CASE message[w] \notin claims
    <3> SUFFICES ASSUME NEW m \in Messages
                 PROVE  effects[m] + Cardinality(Handling(m)') <=
                          excuses[m] + (IF m \in claims' THEN 1 ELSE 0)
        BY DEF BudgetInv
    <3>1. /\ effects[m] + Cardinality(Handling(m)) <= excuses[m] + (IF m \in claims THEN 1 ELSE 0)
          /\ effects \in [Messages -> Nat] /\ excuses \in [Messages -> Nat]
          /\ Cardinality(Handling(m)) \in Nat
        BY HandlingCard DEF BudgetInv, TypeOK
    <3>2. CASE m = message[w]
      <4>1. w \notin Handling(m) /\ Handling(m)' = Handling(m) \cup {w}
        BY <2>2, <3>2 DEF Handling, TypeOK
      <4>2. Cardinality(Handling(m)') = Cardinality(Handling(m)) + 1
        BY <4>1, HandlingCard, FS_AddElement
      <4> QED
        BY <2>2, <3>1, <3>2, <4>2
    <3>3. CASE m /= message[w]
      <4>1. Handling(m)' = Handling(m)
        BY <2>2, <3>3 DEF Handling, TypeOK
      <4> QED
        BY <2>2, <3>1, <3>3, <4>1
    <3> QED
        BY <3>2, <3>3
  <2> QED
    BY <2>1, <2>2
<1>6. AcknowledgedMeansCommitted'
    BY DEF TypeOK, WorkerInv, HolderInv, CommitInv, AcknowledgedMeansCommitted
<1>7. ClaimBacked'
    BY DEF TypeOK, WorkerInv, CommitInv, ClaimBacked
<1> QED
    BY <1>1, <1>2, <1>3, <1>4, <1>5, <1>6, <1>7

\* A message that is no event is refused before it is claimed.
LEMMA InvalidEventKeeps ==
    ASSUME DedupInv, NEW w \in Workers, InvalidEvent(w)
    PROVE  DedupInv'
<1> USE DEF DedupInv, InvalidEvent, Answer, Fault
<1>1. TypeOK'
    BY DEF TypeOK, WorkerInv, Labels
<1>2. WorkerInv'
    BY DEF TypeOK, WorkerInv, Labels
<1>3. HolderInv'
    BY NoneAssumption, WorkersAssumption DEF TypeOK, WorkerInv, HolderInv
<1>4. CommitInv'
    BY NoneAssumption, WorkersAssumption DEF TypeOK, WorkerInv, HolderInv, CommitInv
<1>5. BudgetInv'
    BY BudgetKept DEF Handling, TypeOK
<1>6. AcknowledgedMeansCommitted'
    BY DEF TypeOK, WorkerInv, HolderInv, CommitInv, AcknowledgedMeansCommitted
<1>7. ClaimBacked'
    BY DEF TypeOK, WorkerInv, CommitInv, ClaimBacked
<1> QED
    BY <1>1, <1>2, <1>3, <1>4, <1>5, <1>6, <1>7

\* A claim nobody knows of pays for nothing.
LEMMA ClaimFailsKeeps ==
    ASSUME DedupInv, NEW w \in Workers, ClaimFails(w)
    PROVE  DedupInv'
<1> USE DEF DedupInv, ClaimFails, Answer, Fault
<1>1. TypeOK'
    BY DEF TypeOK, WorkerInv, Labels
<1>2. WorkerInv'
    BY DEF TypeOK, WorkerInv, Labels
<1>3. HolderInv'
    BY NoneAssumption, WorkersAssumption DEF TypeOK, WorkerInv, HolderInv
<1>4. CommitInv'
    BY NoneAssumption, WorkersAssumption DEF TypeOK, WorkerInv, HolderInv, CommitInv
<1>5. BudgetInv'
    BY BudgetKept DEF Handling, TypeOK
<1>6. AcknowledgedMeansCommitted'
    BY DEF TypeOK, WorkerInv, HolderInv, CommitInv, AcknowledgedMeansCommitted
<1>7. ClaimBacked'
    BY DEF TypeOK, WorkerInv, CommitInv, ClaimBacked
<1> QED
    BY <1>1, <1>2, <1>3, <1>4, <1>5, <1>6, <1>7

\* The effect was under way and is made.
LEMMA EffectSucceedsKeeps ==
    ASSUME DedupInv, NEW w \in Workers, EffectSucceeds(w)
    PROVE  DedupInv'
<1> USE DEF DedupInv, EffectSucceeds, Answer, Count
<1>1. TypeOK'
    BY DEF TypeOK, WorkerInv, Labels
<1>2. WorkerInv'
    BY DEF TypeOK, WorkerInv, Labels
<1>3. HolderInv'
    BY NoneAssumption, WorkersAssumption DEF TypeOK, WorkerInv, HolderInv
<1>4. CommitInv'
    BY NoneAssumption, WorkersAssumption DEF TypeOK, WorkerInv, HolderInv, CommitInv
<1>5. BudgetInv'
    BY BudgetOfEffect DEF TypeOK
<1>6. AcknowledgedMeansCommitted'
    BY DEF TypeOK, WorkerInv, HolderInv, CommitInv, AcknowledgedMeansCommitted
<1>7. ClaimBacked'
    BY DEF TypeOK, WorkerInv, CommitInv, ClaimBacked
<1> QED
    BY <1>1, <1>2, <1>3, <1>4, <1>5, <1>6, <1>7

\* The effect fails before or after it was made; the analytics consumer gives its
\* claim up, and a repetition of what was made is excused.
LEMMA EffectFailsKeeps ==
    ASSUME DedupInv, NEW w \in Workers, NEW done \in BOOLEAN, EffectFails(w, done)
    PROVE  DedupInv'
<1> USE DEF DedupInv, EffectFails, Answer, Fault, Count
<1>1. TypeOK'
    BY DEF TypeOK, WorkerInv, Labels
<1>2. WorkerInv'
    BY DEF TypeOK, WorkerInv, Labels
<1>3. HolderInv'
    BY NoneAssumption, WorkersAssumption DEF TypeOK, WorkerInv, HolderInv
<1>4. CommitInv'
    BY NoneAssumption, WorkersAssumption DEF TypeOK, WorkerInv, HolderInv, CommitInv
<1>5. BudgetInv'
    BY BudgetOfEffect DEF TypeOK
<1>6. AcknowledgedMeansCommitted'
    BY DEF TypeOK, WorkerInv, HolderInv, CommitInv, AcknowledgedMeansCommitted
<1>7. ClaimBacked'
    BY DEF TypeOK, WorkerInv, CommitInv, ClaimBacked
<1> QED
    BY <1>1, <1>2, <1>3, <1>4, <1>5, <1>6, <1>7

\* A claim expires: one more effect is excused.
LEMMA ExpireKeeps ==
    ASSUME DedupInv, NEW m \in Messages, Expire(m)
    PROVE  DedupInv'
<1> USE DEF DedupInv, Expire, Fault, Count, delivery
<1>1. TypeOK'
    BY DEF TypeOK, WorkerInv, Labels
<1>2. WorkerInv'
    BY DEF TypeOK, WorkerInv, Labels
<1>3. HolderInv'
    BY NoneAssumption, WorkersAssumption DEF TypeOK, WorkerInv, HolderInv
<1>4. CommitInv'
    BY NoneAssumption, WorkersAssumption DEF TypeOK, WorkerInv, HolderInv, CommitInv
<1>5. BudgetInv'
  <2> SUFFICES ASSUME NEW n \in Messages
               PROVE  effects[n] + Cardinality(Handling(n)') <=
                        excuses'[n] + (IF n \in claims' THEN 1 ELSE 0)
    BY DEF BudgetInv
  <2>1. /\ effects[n] + Cardinality(Handling(n)) <= excuses[n] + (IF n \in claims THEN 1 ELSE 0)
        /\ effects \in [Messages -> Nat] /\ excuses \in [Messages -> Nat]
        /\ Cardinality(Handling(n)) \in Nat
    BY HandlingCard DEF BudgetInv, TypeOK
  <2>2. Handling(n)' = Handling(n)
    BY DEF Handling
  <2> QED
    BY <2>1, <2>2
<1>6. AcknowledgedMeansCommitted'
    BY DEF TypeOK, WorkerInv, HolderInv, CommitInv, AcknowledgedMeansCommitted
<1>7. ClaimBacked'
    BY DEF TypeOK, WorkerInv, CommitInv, ClaimBacked
<1> QED
    BY <1>1, <1>2, <1>3, <1>4, <1>5, <1>6, <1>7

\* The writes that were on their way when the process died are finitely many.
LEMMA LateCard ==
    ASSUME NEW late \in SUBSET Workers, NEW m \in Messages
    PROVE  Cardinality({w \in late : message[w] = m}) \in Nat
<1>1. {w \in late : message[w] = m} \subseteq Workers
    OBVIOUS
<1> QED
    BY <1>1, WorkersAssumption, FS_Subset, FS_CardinalityType

\* A crash makes at most the effects that were on their way, and none with PostgreSQL.
LEMMA CrashEffects ==
    ASSUME DedupInv, NEW late \in SUBSET Workers, Crash(late)
    PROVE  /\ effects' \in [Messages -> Nat]
           /\ \A m \in Messages : effects'[m] >= effects[m]
           /\ store = "postgres" => effects' = effects
<1> DEFINE Late(m) == Cardinality({w \in late : message[w] = m})
<1>1. \A m \in Messages : Late(m) \in Nat
    BY LateCard
<1>2. effects' = [m \in Messages |-> effects[m] + Late(m)] /\ effects \in [Messages -> Nat]
    BY DEF Crash, DedupInv, TypeOK
<1>3. ASSUME store = "postgres", NEW m \in Messages PROVE Late(m) = 0
  <2>1. {w \in late : message[w] = m} = {}
    BY <1>3 DEF Crash
  <2> QED
    BY <2>1, FS_EmptySet
<1> HIDE DEF Late
<1> QED
    BY <1>1, <1>2, <1>3

\* The process dies: what was under way may have been done, and an emptied
\* claimedMessageIds excuses one more effect.
LEMMA CrashKeeps ==
    ASSUME DedupInv, NEW late \in SUBSET Workers, Crash(late)
    PROVE  DedupInv'
<1> USE DEF DedupInv, Crash, Fault, Orphaned
<1>1. TypeOK'
  <2>1. effects' \in [Messages -> Nat]
    BY CrashEffects
  <2>2. holder' \in [Messages -> Workers \cup {None, "lost", "committing"}]
    BY DEF TypeOK
  <2>3. excuses' \in [Messages -> Nat] /\ claims' \subseteq Messages
    BY DEF TypeOK
  <2> QED
    BY <2>1, <2>2, <2>3 DEF TypeOK, Labels
<1>2. WorkerInv'
    BY DEF TypeOK, WorkerInv, Labels
<1>3. HolderInv'
    BY NoneAssumption, WorkersAssumption DEF TypeOK, WorkerInv, HolderInv
<1>4. CommitInv'
    BY CrashEffects DEF TypeOK, CommitInv
<1>5. BudgetInv'
  <2> SUFFICES ASSUME NEW m \in Messages
               PROVE  effects'[m] + Cardinality(Handling(m)') <=
                        excuses'[m] + (IF m \in claims' THEN 1 ELSE 0)
    BY DEF BudgetInv
  <2>1. /\ effects[m] + Cardinality(Handling(m)) <= excuses[m] + (IF m \in claims THEN 1 ELSE 0)
        /\ effects \in [Messages -> Nat] /\ excuses \in [Messages -> Nat]
        /\ Cardinality(Handling(m)) \in Nat
    BY HandlingCard DEF BudgetInv, TypeOK
  <2>2. Handling(m)' = {} /\ Cardinality(Handling(m)') = 0
    BY FS_EmptySet DEF Handling
  <2>3. Cardinality({w \in late : message[w] = m}) <= Cardinality(Handling(m))
    <3>1. {w \in late : message[w] = m} \subseteq Handling(m)
        BY DEF Handling
    <3> QED
        BY <3>1, HandlingCard, FS_Subset
  <2>4. Cardinality({w \in late : message[w] = m}) \in Nat
    BY LateCard
  <2> QED
    BY <2>1, <2>2, <2>3, <2>4
<1>6. AcknowledgedMeansCommitted'
    BY CrashEffects DEF TypeOK, AcknowledgedMeansCommitted
<1>7. ClaimBacked'
  <2>1. CASE store = "postgres"
    BY <1>1, <1>4, <2>1 DEF ClaimBacked, CommitInv, TypeOK
  <2>2. CASE store = "memory"
    BY <2>2 DEF ClaimBacked
  <2> QED
    BY <2>1, <2>2 DEF ClaimBacked, TypeOK
<1> QED
    BY <1>1, <1>2, <1>3, <1>4, <1>5, <1>6, <1>7

\* A step that changes nothing of the stores and the deliveries.
LEMMA StutterKeeps ==
    ASSUME DedupInv, UNCHANGED vars
    PROVE  DedupInv'
<1> USE DEF DedupInv, vars, delivery
<1>1. TypeOK' /\ WorkerInv' /\ HolderInv' /\ CommitInv'
    BY DEF TypeOK, WorkerInv, HolderInv, CommitInv
<1>2. BudgetInv'
    BY BudgetKept DEF Handling
<1>3. AcknowledgedMeansCommitted' /\ ClaimBacked'
    BY DEF AcknowledgedMeansCommitted, ClaimBacked
<1> QED
    BY <1>1, <1>2, <1>3

\* Before the first delivery: no marker, no claim, no effect.
LEMMA InitEstablishes == Init => DedupInv
<1> SUFFICES ASSUME Init PROVE DedupInv
    OBVIOUS
<1> USE DEF Init
<1>1. TypeOK /\ WorkerInv
    BY DEF TypeOK, WorkerInv, Labels
<1>2. HolderInv /\ CommitInv
    BY NoneAssumption DEF HolderInv, CommitInv
<1>3. BudgetInv
  <2>1. \A m \in Messages : Handling(m) = {}
    BY DEF Handling
  <2> QED
    BY <2>1, FS_EmptySet DEF BudgetInv
<1>4. AcknowledgedMeansCommitted /\ ClaimBacked
    BY DEF AcknowledgedMeansCommitted, ClaimBacked
<1> QED
    BY <1>1, <1>2, <1>3, <1>4 DEF DedupInv

\* The invariant is inductive: whatever deliveries, failures, expiries, late
\* COMMITs and crashes interleave, every step keeps it.
THEOREM DedupInvariant == Spec => []DedupInv
<1>1. Init => DedupInv
    BY InitEstablishes
<1>2. DedupInv /\ [Next]_vars => DedupInv'
  <2> SUFFICES ASSUME DedupInv, [Next]_vars PROVE DedupInv'
    OBVIOUS
  <2>1. ASSUME NEW w \in Workers, NEW m \in Messages, Receive(w, m) PROVE DedupInv'
    BY <2>1, ReceiveKeeps
  <2>2. ASSUME NEW w \in Workers, Work(w) PROVE DedupInv'
    BY <2>2, TryCreateKeeps, HandlerResolvesKeeps, RollbackKeeps, CommitKeeps,
       ClaimKeeps,
       EffectSucceedsKeeps DEF Work
  <2>3. ASSUME NEW w \in Workers, Fails(w) PROVE DedupInv'
    BY <2>3, HandlerRejectsKeeps, HandlerSwallowsKeeps, ConnectionLostKeeps,
       InvalidEventKeeps,
       ClaimFailsKeeps, EffectFailsKeeps DEF Fails
  <2>4. ASSUME NEW m \in Messages, ServerAborts(m) \/ ServerCommits(m) \/ Expire(m)
        PROVE  DedupInv'
    BY <2>4, ServerAbortsKeeps, ServerCommitsKeeps, ExpireKeeps
  <2>5. ASSUME NEW late \in SUBSET Workers, Crash(late) PROVE DedupInv'
    BY <2>5, CrashKeeps
  <2>6. CASE UNCHANGED vars
    BY <2>6, StutterKeeps
  <2> QED
    BY <2>1, <2>2, <2>3, <2>4, <2>5, <2>6 DEF Next
<1> QED
    BY <1>1, <1>2, PTL DEF Spec

-----------------------------------------------------------------------------

\* With all three stores a message takes effect at most once more than there were
\* expiries, failures after the write and restarts that excuse a repetition.
THEOREM RepeatsAreExplained == Spec => []NoUnexplainedRepeat
<1>1. DedupInv => NoUnexplainedRepeat
  <2> SUFFICES ASSUME DedupInv, NEW m \in Messages
               PROVE  effects[m] <= 1 + excuses[m]
    BY DEF NoUnexplainedRepeat
  <2>1. effects[m] + Cardinality(Handling(m)) <= excuses[m] + (IF m \in claims THEN 1 ELSE 0)
    BY DEF DedupInv, BudgetInv
  <2>2. effects[m] \in Nat /\ excuses[m] \in Nat /\ Cardinality(Handling(m)) \in Nat
    BY HandlingCard DEF DedupInv, TypeOK
  <2> QED
    BY <2>1, <2>2
<1> QED
    BY <1>1, DedupInvariant, PTL

\* What the PostgreSQL processor answered PROCESSED or DUPLICATE is committed, with
\* its effect, unless a handler hid a failed statement.
THEOREM AcknowledgedIsCommitted == Spec => []AcknowledgedMeansCommitted
<1>1. DedupInv => AcknowledgedMeansCommitted
    BY DEF DedupInv
<1> QED
    BY <1>1, DedupInvariant, PTL

\* No failed delivery leaves a marker row or an entry of claimedMessageIds behind
\* that would keep the message from being processed.
THEOREM ClaimsAreBacked == Spec => []ClaimBacked
<1>1. DedupInv => ClaimBacked
    BY DEF DedupInv
<1> QED
    BY <1>1, DedupInvariant, PTL

-----------------------------------------------------------------------------
(* The metrics.                                                            *)

Names == Telemetry!counterNames

\* The types of the registry and of the operations.
TelemetryOK ==
    /\ counters \in [Names -> Nat]
    /\ durations \in Nat
    /\ operation \in [Workers -> {"none", "open", "finished"}]

\* The workers that are about to answer PROCESSED without a transaction.
Swallowers ==
    {w \in Workers : pc[w] = "commit" /\ result[w] = "PROCESSED" /\ holder[message[w]] /= w}

\* What is counted as completed, or will be by a worker whose handler hid a
\* failure, was made visible or hidden.
CompletedInv ==
    counters["orders_completed_total"] + Cardinality(Swallowers) <= Sum(effects) + Sum(hidden)

DurationsInv == durations <= Sum(counters)

MetricsInv == TelemetryOK /\ CompletedInv /\ DurationsInv

Completed == counters["orders_completed_total"]

\* The counters are six.
LEMMA NamesFinite == IsFiniteSet(Names) /\ "orders_completed_total" \in Names
<1> DEFINE A == {"orders_created_total"} \cup {"orders_completed_total"}
           B == A \cup {"orders_failed_total"} \cup {"retry_count"}
           C == B \cup {"deduplication_count"} \cup {"concurrency_conflicts"}
<1>1. IsFiniteSet(A)
    BY FS_Singleton, FS_AddElement
<1>2. IsFiniteSet(B)
    BY <1>1, FS_AddElement
<1>3. IsFiniteSet(C)
    BY <1>2, FS_AddElement
<1>4. Names = C
    BY DEF Names, Telemetry!counterNames
<1> QED
    BY <1>3, <1>4

\* Sums over the messages are numbers, and grow with their summands.
LEMMA SumsOverMessages ==
    ASSUME NEW f \in [Messages -> Nat]
    PROVE  /\ Sum(f) = Total(f, Messages) /\ Sum(f) \in Nat
           /\ \A g \in [Messages -> Nat] :
                (\A m \in Messages : f[m] <= g[m]) => Sum(f) <= Sum(g)
           /\ \A m \in Messages : Sum(Count(f, m)) = Sum(f) + 1
<1>1. Sum(f) = Total(f, Messages) /\ \A g \in [Messages -> Nat] : Sum(g) = Total(g, Messages)
    BY DEF Sum
<1>2. Sum(f) \in Nat
    BY <1>1, MessagesAssumption, UnitsFinite
<1>3. ASSUME NEW g \in [Messages -> Nat], \A m \in Messages : f[m] <= g[m]
      PROVE  Sum(f) <= Sum(g)
    BY <1>1, <1>3, MessagesAssumption, TotalMonotone
<1>4. ASSUME NEW m \in Messages PROVE Sum(Count(f, m)) = Sum(f) + 1
  <2>1. /\ Count(f, m) \in [Messages -> Nat]
        /\ Count(f, m)[m] = f[m] + 1
        /\ \A n \in Messages \ {m} : Count(f, m)[n] = f[n]
    BY DEF Count
  <2>2. Total(Count(f, m), Messages) = Total(f, Messages) + 1
    BY <2>1, MessagesAssumption, TotalGrows
  <2> QED
    BY <1>1, <2>1, <2>2
<1> QED
    BY <1>1, <1>2, <1>3, <1>4

\* Telemetry counts one name at most once per call, and observes no duration
\* without it.
LEMMA IncrementCounts ==
    ASSUME TelemetryOK, NEW n \in Names, Telemetry!Increment({n})
    PROVE  /\ counters' \in [Names -> Nat]
           /\ Sum(counters') = Sum(counters) + 1
           /\ Completed' = Completed + (IF n = "orders_completed_total" THEN 1 ELSE 0)
<1>1. counters' = [c \in Names |-> counters[c] + (IF c \in {n} THEN 1 ELSE 0)]
    BY DEF Telemetry!Increment, Names
<1>2. /\ counters' \in [Names -> Nat] /\ counters \in [Names -> Nat]
      /\ counters'[n] = counters[n] + 1
      /\ \A c \in Names \ {n} : counters'[c] = counters[c]
    BY <1>1 DEF TelemetryOK
<1>3. Total(counters', Names) = Total(counters, Names) + 1
    BY <1>2, NamesFinite, TotalGrows
<1>4. Sum(counters') = Total(counters', Names) /\ Sum(counters) = Total(counters, Names)
    BY <1>2 DEF Sum
<1> QED
    BY <1>2, <1>3, <1>4, NamesFinite DEF Completed

\* An answer is observed, or could not be: either way nothing is counted as
\* completed but PROCESSED, and no duration without an outcome.
LEMMA AnswerCounts ==
    ASSUME TelemetryOK, DurationsInv, NEW w \in Workers,
           NEW status \in {"PROCESSED", "DUPLICATE", "FAILED"}, Answer(w, status)
    PROVE  /\ TelemetryOK' /\ DurationsInv'
           /\ Completed' <= Completed + (IF status = "PROCESSED" THEN 1 ELSE 0)
<1>1. PICK n \in Names : /\ Counter(status) = {n}
                         /\ n = "orders_completed_total" => status = "PROCESSED"
    BY DEF Counter, Names, Telemetry!counterNames
<1>2. /\ UNCHANGED counters \/ Telemetry!Increment({n})
      /\ \/ UNCHANGED durations
         \/ durations' = durations + 1 /\ Telemetry!Increment({n})
      /\ operation' \in [Workers -> {"none", "open", "finished"}]
    BY <1>1 DEF Answer, Telemetry!finish, Telemetry!FinishFails, TelemetryOK
<1>3. Sum(counters) \in Nat /\ Completed \in Nat
  <2>1. DOMAIN counters = Names /\ \A c \in Names : counters[c] \in Nat
    BY DEF TelemetryOK
  <2> QED
    BY <2>1, NamesFinite, UnitsFinite DEF Sum, Completed
<1>4. CASE UNCHANGED counters
    BY <1>1, <1>2, <1>3, <1>4, IncrementCounts DEF TelemetryOK, DurationsInv, Completed
<1>5. CASE Telemetry!Increment({n})
    BY <1>1, <1>2, <1>3, <1>5, IncrementCounts DEF TelemetryOK, DurationsInv
<1> QED
    BY <1>2, <1>4, <1>5

\* There are finitely many workers.
LEMMA SwallowersFinite == IsFiniteSet(Swallowers) /\ IsFiniteSet(Swallowers')
<1>1. Swallowers \subseteq Workers /\ Swallowers' \subseteq Workers
    BY DEF Swallowers
<1> QED
    BY <1>1, WorkersAssumption, FS_Subset

\* A step that counts nothing as completed and after which nobody new is about to
\* answer without a transaction.
LEMMA CompletedKept ==
    ASSUME DedupInv, DedupInv', TelemetryOK, TelemetryOK', CompletedInv,
           Completed' <= Completed, Swallowers' \subseteq Swallowers,
           \A m \in Messages : effects[m] <= effects'[m] /\ hidden[m] <= hidden'[m]
    PROVE  CompletedInv'
<1>1. /\ effects \in [Messages -> Nat] /\ hidden \in [Messages -> Nat]
      /\ effects' \in [Messages -> Nat] /\ hidden' \in [Messages -> Nat]
    BY DEF DedupInv, TypeOK
<1>2. /\ Sum(effects) \in Nat /\ Sum(hidden) \in Nat
      /\ Sum(effects') \in Nat /\ Sum(hidden') \in Nat
      /\ Sum(effects) <= Sum(effects') /\ Sum(hidden) <= Sum(hidden')
    BY <1>1, SumsOverMessages
<1>3. Completed \in Nat /\ Completed' \in Nat
    BY NamesFinite DEF TelemetryOK, Completed
<1>4. Completed + Cardinality(Swallowers) <= Sum(effects) + Sum(hidden)
    BY DEF CompletedInv, Completed
<1>5. /\ Cardinality(Swallowers') <= Cardinality(Swallowers)
      /\ Cardinality(Swallowers) \in Nat /\ Cardinality(Swallowers') \in Nat
    BY SwallowersFinite, FS_Subset, FS_CardinalityType
<1>6. Completed' + Cardinality(Swallowers') <= Sum(effects') + Sum(hidden')
    BY <1>2, <1>3, <1>4, <1>5
<1> QED
    BY <1>6 DEF CompletedInv, Completed

\* A step that leaves the registry alone and lets nobody new answer without a
\* transaction.
LEMMA UncountedKeeps ==
    ASSUME DedupInv, DedupInv', MetricsInv, UNCHANGED <<counters, durations>>,
           operation' \in [Workers -> {"none", "open", "finished"}],
           Swallowers' \subseteq Swallowers,
           \A m \in Messages : effects[m] <= effects'[m] /\ hidden[m] <= hidden'[m]
    PROVE  MetricsInv'
<1>1. TelemetryOK' /\ DurationsInv'
    BY DEF MetricsInv, TelemetryOK, DurationsInv
<1>2. Completed' <= Completed
    BY NamesFinite DEF MetricsInv, TelemetryOK, Completed
<1> QED
    BY <1>1, <1>2, CompletedKept DEF MetricsInv

\* A delivery that is answered FAILED or DUPLICATE.
LEMMA AnswerKeeps ==
    ASSUME DedupInv, DedupInv', MetricsInv, NEW w \in Workers,
           NEW status \in {"DUPLICATE", "FAILED"}, Answer(w, status),
           Swallowers' \subseteq Swallowers,
           \A m \in Messages : effects[m] <= effects'[m] /\ hidden[m] <= hidden'[m]
    PROVE  MetricsInv'
<1>1. TelemetryOK' /\ DurationsInv' /\ Completed' <= Completed + 0
    BY AnswerCounts DEF MetricsInv
<1>2. Completed' <= Completed
    BY <1>1, NamesFinite DEF MetricsInv, TelemetryOK, Completed
<1> QED
    BY <1>1, <1>2, CompletedKept DEF MetricsInv

\* A delivery that is answered PROCESSED, with the effect that becomes visible.
LEMMA ProcessedKeeps ==
    ASSUME DedupInv, DedupInv', MetricsInv, NEW w \in Workers, Answer(w, "PROCESSED"),
           UNCHANGED hidden,
           \/ /\ message[w] \in Messages /\ effects' = Count(effects, message[w])
              /\ Swallowers' \subseteq Swallowers
           \/ UNCHANGED effects /\ w \in Swallowers /\ Swallowers' \subseteq Swallowers \ {w}
    PROVE  MetricsInv'
<1>1. TelemetryOK' /\ DurationsInv' /\ Completed' <= Completed + 1
    BY AnswerCounts DEF MetricsInv
<1>2. Completed \in Nat /\ Completed' \in Nat
    BY <1>1, NamesFinite DEF MetricsInv, TelemetryOK, Completed
<1>3. effects \in [Messages -> Nat] /\ hidden \in [Messages -> Nat]
    BY DEF DedupInv, TypeOK
<1>4. Sum(effects) \in Nat /\ Sum(hidden) \in Nat
    BY <1>3, SumsOverMessages
<1>5. Completed + Cardinality(Swallowers) <= Sum(effects) + Sum(hidden)
    BY DEF MetricsInv, CompletedInv, Completed
<1>6. Cardinality(Swallowers) \in Nat /\ Cardinality(Swallowers') \in Nat
    BY SwallowersFinite, FS_CardinalityType
<1>7. CASE /\ message[w] \in Messages /\ effects' = Count(effects, message[w])
           /\ Swallowers' \subseteq Swallowers
  <2>1. Cardinality(Swallowers') <= Cardinality(Swallowers)
    BY <1>7, SwallowersFinite, FS_Subset
  <2>2. Sum(effects') = Sum(effects) + 1
    BY <1>3, <1>7, SumsOverMessages
  <2>3. Completed' + Cardinality(Swallowers') <= Sum(effects') + Sum(hidden)
    BY <1>1, <1>2, <1>4, <1>5, <1>6, <2>1, <2>2
  <2> QED
    BY <1>1, <2>3 DEF MetricsInv, CompletedInv, Completed
<1>8. CASE UNCHANGED effects /\ w \in Swallowers /\ Swallowers' \subseteq Swallowers \ {w}
  <2>1. Cardinality(Swallowers \ {w}) = Cardinality(Swallowers) - 1
    BY <1>8, SwallowersFinite, FS_RemoveElement
  <2>2. Cardinality(Swallowers') <= Cardinality(Swallowers \ {w})
    BY <1>8, SwallowersFinite, FS_RemoveElement, FS_Subset
  <2>3. Completed' + Cardinality(Swallowers') <= Sum(effects) + Sum(hidden)
    BY <1>1, <1>2, <1>4, <1>5, <1>6, <2>1, <2>2
  <2> QED
    BY <1>1, <1>8, <2>3 DEF MetricsInv, CompletedInv, Completed
<1> QED
    BY <1>7, <1>8

\* A handler that hides a failure is counted as hidden when it is about to be
\* answered.
LEMMA SwallowsCounts ==
    ASSUME DedupInv, DedupInv', MetricsInv, NEW w \in Workers, HandlerSwallows(w)
    PROVE  MetricsInv'
<1>1. TelemetryOK' /\ DurationsInv' /\ Completed' = Completed
    BY DEF HandlerSwallows, telemetry, MetricsInv, TelemetryOK, DurationsInv, Completed
<1>2. Swallowers' \subseteq Swallowers \cup {w}
    BY NoneAssumption DEF HandlerSwallows, ToCommit, Swallowers, DedupInv, TypeOK,
       WorkerInv, HolderInv
<1>3. message[w] \in Messages /\ effects \in [Messages -> Nat] /\ hidden \in [Messages -> Nat]
    BY DEF HandlerSwallows, DedupInv, TypeOK, WorkerInv
<1>4. Sum(hidden') = Sum(hidden) + 1 /\ Sum(effects') = Sum(effects)
    BY <1>3, SumsOverMessages DEF HandlerSwallows
<1>5. Sum(effects) \in Nat /\ Sum(hidden) \in Nat
    BY <1>3, SumsOverMessages
<1>6. /\ Cardinality(Swallowers') <= Cardinality(Swallowers \cup {w})
      /\ Cardinality(Swallowers \cup {w}) <= Cardinality(Swallowers) + 1
      /\ Cardinality(Swallowers) \in Nat /\ Cardinality(Swallowers') \in Nat
      /\ Cardinality(Swallowers \cup {w}) \in Nat
  <2>1. IsFiniteSet(Swallowers \cup {w})
    BY SwallowersFinite, FS_AddElement
  <2>2. Cardinality(Swallowers') <= Cardinality(Swallowers \cup {w})
    BY <1>2, <2>1, FS_Subset
  <2>3. Cardinality(Swallowers) \in Nat /\ Cardinality(Swallowers') \in Nat
        /\ Cardinality(Swallowers \cup {w}) \in Nat
    BY <2>1, SwallowersFinite, FS_CardinalityType
  <2>4. Cardinality(Swallowers \cup {w}) <= Cardinality(Swallowers) + 1
    BY <2>3, SwallowersFinite, FS_AddElement
  <2> QED
    BY <2>2, <2>3, <2>4
<1>7. Completed + Cardinality(Swallowers) <= Sum(effects) + Sum(hidden) /\ Completed \in Nat
    BY NamesFinite DEF MetricsInv, CompletedInv, TelemetryOK, Completed
<1>8. Completed + Cardinality(Swallowers') <= Sum(effects) + Sum(hidden) + 1
    BY <1>5, <1>6, <1>7
<1> QED
    BY <1>1, <1>4, <1>5, <1>8 DEF MetricsInv, CompletedInv, Completed

\* What a worker does keeps the registry truthful.
LEMMA WorkCounts ==
    ASSUME DedupInv, DedupInv', MetricsInv, NEW w \in Workers, Work(w)
    PROVE  MetricsInv'
<1> USE NoneAssumption DEF DedupInv, TypeOK, WorkerInv, HolderInv, Swallowers
<1>1. CASE TryCreate(w) \/ HandlerResolves(w)
  <2>1. /\ UNCHANGED <<counters, durations, operation, effects, hidden>>
        /\ Swallowers' \subseteq Swallowers
    BY <1>1 DEF TryCreate, HandlerResolves, ToCommit, Goto, telemetry
  <2>2. operation' \in [Workers -> {"none", "open", "finished"}]
    BY <2>1 DEF MetricsInv, TelemetryOK
  <2> HIDE DEF DedupInv, Swallowers
  <2> QED
    BY <2>1, <2>2, UncountedKeeps DEF DedupInv
<1>2. CASE Rollback(w)
  <2>1. Answer(w, "FAILED") /\ UNCHANGED <<effects, hidden>> /\ Swallowers' \subseteq Swallowers
    BY <1>2 DEF Rollback, Answer
  <2> HIDE DEF DedupInv, Swallowers
  <2> QED
    BY <2>1, AnswerKeeps DEF DedupInv
<1>3. CASE Commit(w)
  <2>1. message[w] \in Messages /\ result[w] \in {"PROCESSED", "DUPLICATE"} /\ UNCHANGED hidden
    BY <1>3 DEF Commit
  <2>2. CASE result[w] = "DUPLICATE"
    <3>1. Answer(w, "DUPLICATE") /\ UNCHANGED effects /\ Swallowers' \subseteq Swallowers
        BY <1>3, <2>1, <2>2 DEF Commit, Answer
    <3> HIDE DEF DedupInv, Swallowers
    <3> QED
        BY <2>1, <3>1, AnswerKeeps DEF DedupInv
  <2>3. CASE result[w] = "PROCESSED" /\ holder[message[w]] = w
    <3>1. /\ Answer(w, "PROCESSED") /\ effects' = Count(effects, message[w])
          /\ Swallowers' \subseteq Swallowers
        BY <1>3, <2>1, <2>3 DEF Commit, Answer, MakeVisible
    <3> HIDE DEF DedupInv, Swallowers
    <3> QED
        BY <2>1, <3>1, ProcessedKeeps
  <2>4. CASE result[w] = "PROCESSED" /\ holder[message[w]] /= w
    <3>1. /\ Answer(w, "PROCESSED") /\ UNCHANGED effects
          /\ w \in Swallowers /\ Swallowers' \subseteq Swallowers \ {w}
        BY <1>3, <2>1, <2>4 DEF Commit, Answer
    <3> HIDE DEF DedupInv, Swallowers
    <3> QED
        BY <2>1, <3>1, ProcessedKeeps
  <2> QED
    BY <2>1, <2>2, <2>3, <2>4
<1>4. CASE Claim(w)
  <2>1. UNCHANGED <<effects, hidden>> /\ Swallowers' \subseteq Swallowers
    BY <1>4 DEF Claim, Answer, Goto
  <2>2. CASE Answer(w, "DUPLICATE")
    <3> HIDE DEF DedupInv, Swallowers
    <3> QED
        BY <2>1, <2>2, AnswerKeeps DEF DedupInv
  <2>3. CASE UNCHANGED telemetry
    <3>1. /\ UNCHANGED <<counters, durations>>
          /\ operation' \in [Workers -> {"none", "open", "finished"}]
        BY <2>3 DEF telemetry, MetricsInv, TelemetryOK
    <3> HIDE DEF DedupInv, Swallowers
    <3> QED
        BY <2>1, <3>1, UncountedKeeps DEF DedupInv
  <2> QED
    BY <1>4, <2>2, <2>3 DEF Claim
<1>5. CASE EffectSucceeds(w)
  <2>1. /\ Answer(w, "PROCESSED") /\ UNCHANGED hidden /\ effects' = Count(effects, message[w])
        /\ message[w] \in Messages /\ Swallowers' \subseteq Swallowers
    BY <1>5 DEF EffectSucceeds, Answer
  <2> HIDE DEF DedupInv, Swallowers
  <2> QED
    BY <2>1, ProcessedKeeps
<1> QED
    BY <1>1, <1>2, <1>3, <1>4, <1>5 DEF Work

\* A failing delivery keeps the registry truthful.
LEMMA FailsCounts ==
    ASSUME DedupInv, DedupInv', MetricsInv, NEW w \in Workers, Fails(w)
    PROVE  MetricsInv'
<1> USE NoneAssumption DEF DedupInv, TypeOK, WorkerInv, HolderInv, Swallowers
<1>1. CASE HandlerRejects(w)
  <2>1. /\ UNCHANGED <<counters, durations, operation, effects, hidden>>
        /\ Swallowers' \subseteq Swallowers
    BY <1>1 DEF HandlerRejects, Goto, telemetry
  <2>2. operation' \in [Workers -> {"none", "open", "finished"}]
    BY <2>1 DEF MetricsInv, TelemetryOK
  <2> HIDE DEF DedupInv, Swallowers
  <2> QED
    BY <2>1, <2>2, UncountedKeeps DEF DedupInv
<1>2. CASE HandlerSwallows(w)
    BY <1>2, SwallowsCounts
<1>3. CASE ConnectionLost(w)
  <2>1. Answer(w, "FAILED") /\ UNCHANGED <<effects, hidden>> /\ Swallowers' \subseteq Swallowers
    BY <1>3, WorkersAssumption DEF ConnectionLost, Answer, Orphaned
  <2> HIDE DEF DedupInv, Swallowers
  <2> QED
    BY <2>1, AnswerKeeps DEF DedupInv
<1>4. CASE InvalidEvent(w) \/ ClaimFails(w)
  <2>1. Answer(w, "FAILED") /\ UNCHANGED <<effects, hidden>> /\ Swallowers' \subseteq Swallowers
    BY <1>4 DEF InvalidEvent, ClaimFails, Answer
  <2> HIDE DEF DedupInv, Swallowers
  <2> QED
    BY <2>1, AnswerKeeps DEF DedupInv
<1>5. ASSUME NEW done \in BOOLEAN, EffectFails(w, done) PROVE MetricsInv'
  <2>1. Answer(w, "FAILED") /\ UNCHANGED hidden /\ Swallowers' \subseteq Swallowers
    BY <1>5 DEF EffectFails, Answer
  <2>2. \A m \in Messages : effects[m] <= effects'[m]
    BY <1>5 DEF EffectFails, Count
  <2> HIDE DEF DedupInv, Swallowers
  <2> QED
    BY <2>1, <2>2, AnswerKeeps DEF DedupInv
<1> QED
    BY <1>1, <1>2, <1>3, <1>4, <1>5 DEF Fails

\* So do the server and the TTL of Redis.
LEMMA ServerCounts ==
    ASSUME DedupInv, DedupInv', MetricsInv, NEW m \in Messages,
           ServerAborts(m) \/ ServerCommits(m) \/ Expire(m)
    PROVE  MetricsInv'
<1>1. /\ UNCHANGED <<counters, durations, operation, hidden>>
      /\ \A n \in Messages : effects[n] <= effects'[n]
    BY DEF ServerAborts, ServerCommits, Expire, MakeVisible, Count, telemetry,
       DedupInv, TypeOK
<1>2. Swallowers' \subseteq Swallowers
    BY WorkersAssumption DEF ServerAborts, ServerCommits, Expire, MakeVisible, delivery,
       DedupInv, TypeOK, WorkerInv, HolderInv, Swallowers
<1>3. operation' \in [Workers -> {"none", "open", "finished"}]
    BY <1>1 DEF MetricsInv, TelemetryOK
<1> QED
    BY <1>1, <1>2, <1>3, UncountedKeeps DEF DedupInv, TypeOK

\* A delivery that begins, and telemetry that cannot start.
LEMMA ReceiveCounts ==
    ASSUME DedupInv, DedupInv', MetricsInv, NEW w \in Workers, NEW m \in Messages, Receive(w, m)
    PROVE  MetricsInv'
<1>1. UNCHANGED <<counters, durations, effects, hidden>> /\ Swallowers' \subseteq Swallowers
    BY DEF Receive, Telemetry!startOperation, Telemetry!StartFails, DedupInv, TypeOK,
       Swallowers
<1>2. operation' \in [Workers -> {"none", "open", "finished"}]
    BY DEF Receive, Telemetry!startOperation, Telemetry!StartFails, MetricsInv,
       TelemetryOK
<1> QED
    BY <1>1, <1>2, UncountedKeeps DEF DedupInv, TypeOK

\* An empty registry claims nothing.
LEMMA EmptyRegistry ==
    ASSUME NEW f \in [Messages -> Nat], NEW g \in [Messages -> Nat],
           NEW registry, registry = [c \in Names |-> 0]
    PROVE  /\ registry["orders_completed_total"] + Cardinality({}) <= Sum(f) + Sum(g)
           /\ 0 <= Sum(registry)
<1>1. Sum(f) \in Nat /\ Sum(g) \in Nat
    BY SumsOverMessages
<1>2. Total(registry, Names) \in Nat
    BY NamesFinite, UnitsFinite
<1>3. Sum(registry) = Total(registry, Names)
    BY DEF Sum
<1> QED
    BY <1>1, <1>2, <1>3, NamesFinite, FS_EmptySet

\* The registry of a new process is empty, and so are its workers.
LEMMA CrashCounts ==
    ASSUME DedupInv, DedupInv', MetricsInv, NEW late \in SUBSET Workers, Crash(late)
    PROVE  MetricsInv'
<1>1. /\ counters' = [c \in Names |-> 0] /\ durations' = 0
      /\ operation' = [o \in Workers |-> "none"] /\ Swallowers' = {}
    BY DEF Crash, Telemetry!Reset, Names, Swallowers
<1>2. effects' \in [Messages -> Nat] /\ hidden' \in [Messages -> Nat]
    BY DEF DedupInv, TypeOK
<1> QED
    BY <1>1, <1>2, EmptyRegistry DEF MetricsInv, TelemetryOK, CompletedInv, DurationsInv

\* Every operation that was started is under way or counted, but for those whose
\* finish threw before it counted.
DueInv == Sum(counters) + Cardinality(Observed) = due

\* What is counted and what is under way are numbers.
LEMMA ObservedFinite ==
    ASSUME TelemetryOK
    PROVE  IsFiniteSet(Observed) /\ Cardinality(Observed) \in Nat /\ Sum(counters) \in Nat
<1>1. IsFiniteSet(Observed)
  <2>1. Observed \subseteq Workers
    BY DEF Observed
  <2> QED
    BY <2>1, WorkersAssumption, FS_Subset
<1>2. Sum(counters) \in Nat
  <2>1. DOMAIN counters = Names /\ \A c \in Names : counters[c] \in Nat
    BY DEF TelemetryOK
  <2> QED
    BY <2>1, NamesFinite, UnitsFinite DEF Sum
<1> QED
    BY <1>1, <1>2, FS_CardinalityType

\* A delivery begins: its operation is under way, or there is none.
LEMMA ReceiveKeepsDue ==
    ASSUME DedupInv, TelemetryOK, DueInv, NEW w \in Workers, NEW m \in Messages, Receive(w, m)
    PROVE  DueInv'
<1>1. w \notin Observed /\ UNCHANGED counters
    BY DEF Receive, Observed, Telemetry!startOperation, Telemetry!StartFails
<1>2. CASE Telemetry!startOperation(w)
  <2>1. Observed' = Observed \cup {w} /\ due' = due + 1
    BY <1>2 DEF Receive, Observed, Telemetry!startOperation, DedupInv, TypeOK, TelemetryOK
  <2>2. Cardinality(Observed') = Cardinality(Observed) + 1
    BY <1>1, <2>1, ObservedFinite, FS_AddElement
  <2> QED
    BY <1>1, <2>1, <2>2, ObservedFinite DEF DueInv
<1>3. CASE Telemetry!StartFails(w)
  <2>1. Observed' = Observed /\ due' = due
    BY <1>1, <1>3 DEF Receive, Observed, Telemetry!StartFails, DedupInv, TypeOK, TelemetryOK
  <2> QED
    BY <1>1, <2>1 DEF DueInv
<1> QED
    BY <1>2, <1>3 DEF Receive

\* A delivery is answered: its operation is counted, or finish threw.
LEMMA AnswerKeepsDue ==
    ASSUME DedupInv, TelemetryOK, DueInv, NEW w \in Workers, pc[w] /= "idle",
           NEW status \in {"PROCESSED", "DUPLICATE", "FAILED"}, Answer(w, status)
    PROVE  DueInv'
<1>1. PICK n \in Names : Counter(status) = {n}
    BY DEF Counter, Names, Telemetry!counterNames
<1>2. CASE operation[w] = "open"
  <2>1. w \in Observed /\ Observed' = Observed \ {w}
    BY <1>2 DEF Answer, Observed, Telemetry!finish, Telemetry!FinishFails, DedupInv,
       TypeOK, TelemetryOK
  <2>2. Cardinality(Observed') = Cardinality(Observed) - 1
    BY <2>1, ObservedFinite, FS_RemoveElement
  <2>3. \/ UNCHANGED counters /\ due' = due - 1
        \/ Telemetry!Increment({n}) /\ due' = due
    BY <1>1, <1>2 DEF Answer, Telemetry!finish, Telemetry!FinishFails
  <2>4. \/ Sum(counters') = Sum(counters) /\ due' = due - 1
        \/ Sum(counters') = Sum(counters) + 1 /\ due' = due
    BY <2>3, IncrementCounts
  <2> QED
    BY <2>2, <2>4, ObservedFinite DEF DueInv
<1>3. CASE operation[w] /= "open"
  <2>1. UNCHANGED <<counters, operation, due>>
    BY <1>3 DEF Answer, Telemetry!finish, Telemetry!FinishFails
  <2>2. Observed' = Observed
    BY <1>3, <2>1 DEF Answer, Observed, DedupInv, TypeOK
  <2> QED
    BY <2>1, <2>2 DEF DueInv
<1> QED
    BY <1>2, <1>3

\* Everything else leaves the telemetry alone, and who is at work.
LEMMA OthersKeepDue ==
    ASSUME DueInv, UNCHANGED telemetry,
           \A w \in Workers : pc'[w] = "idle" <=> pc[w] = "idle"
    PROVE  DueInv'
<1>1. UNCHANGED <<counters, operation, due>>
    BY DEF telemetry
<1>2. Observed' = Observed
    BY <1>1 DEF Observed
<1> QED
    BY <1>1, <1>2 DEF DueInv

\* What a worker does, with success or without.
LEMMA WorkKeepsDue ==
    ASSUME DedupInv, TelemetryOK, DueInv, NEW w \in Workers, Work(w) \/ Fails(w)
    PROVE  DueInv'
<1>1. CASE \/ TryCreate(w) \/ HandlerResolves(w) \/ HandlerRejects(w) \/ HandlerSwallows(w)
  <2>1. UNCHANGED telemetry /\ \A v \in Workers : pc'[v] = "idle" <=> pc[v] = "idle"
    BY <1>1 DEF TryCreate, HandlerResolves, HandlerRejects, HandlerSwallows, ToCommit, Goto,
       DedupInv, TypeOK
  <2> QED
    BY <2>1, OthersKeepDue
<1>2. CASE Rollback(w) \/ ConnectionLost(w) \/ InvalidEvent(w) \/ ClaimFails(w)
    BY <1>2, AnswerKeepsDue DEF Rollback, ConnectionLost, InvalidEvent, ClaimFails
<1>3. CASE Commit(w)
  <2>1. result[w] \in {"PROCESSED", "DUPLICATE"}
    BY <1>3 DEF Commit, DedupInv, WorkerInv
  <2> QED
    BY <1>3, <2>1, AnswerKeepsDue DEF Commit
<1>4. CASE Claim(w)
  <2>1. CASE Answer(w, "DUPLICATE")
    BY <1>4, <2>1, AnswerKeepsDue DEF Claim
  <2>2. CASE Goto(w, "handle") /\ UNCHANGED telemetry
    <3>1. \A v \in Workers : pc'[v] = "idle" <=> pc[v] = "idle"
        BY <1>4, <2>2 DEF Claim, Goto, DedupInv, TypeOK
    <3> QED
        BY <2>2, <3>1, OthersKeepDue
  <2> QED
    BY <1>4, <2>1, <2>2 DEF Claim
<1>5. CASE EffectSucceeds(w) \/ \E done \in BOOLEAN : EffectFails(w, done)
    BY <1>5, AnswerKeepsDue DEF EffectSucceeds, EffectFails
<1> QED
    BY <1>1, <1>2, <1>3, <1>4, <1>5 DEF Work, Fails

\* A registry that is empty, with nobody at work.
LEMMA NothingDue ==
    ASSUME NEW registry, registry = [c \in Names |-> 0]
    PROVE  Sum(registry) + Cardinality({}) = 0
<1>1. \A c \in Names : registry[c] = 0 /\ DOMAIN registry = Names
    OBVIOUS
<1>2. Total(registry, Names) = 0
    BY <1>1, TotalOfZeros
<1> QED
    BY <1>1, <1>2, FS_EmptySet DEF Sum

\* No step leaves an operation out of the count.
LEMMA NextKeepsDue ==
    ASSUME DedupInv, TelemetryOK, DueInv, [Next]_vars
    PROVE  DueInv'
<1>1. ASSUME NEW w \in Workers, NEW m \in Messages, Receive(w, m) PROVE DueInv'
    BY <1>1, ReceiveKeepsDue
<1>2. ASSUME NEW w \in Workers, Work(w) \/ Fails(w) PROVE DueInv'
    BY <1>2, WorkKeepsDue
<1>3. ASSUME NEW m \in Messages, ServerAborts(m) \/ ServerCommits(m) \/ Expire(m) PROVE DueInv'
  <2>1. UNCHANGED telemetry /\ UNCHANGED pc
    BY <1>3 DEF ServerAborts, ServerCommits, Expire, delivery
  <2> QED
    BY <2>1, OthersKeepDue
<1>4. ASSUME NEW late \in SUBSET Workers, Crash(late) PROVE DueInv'
  <2>1. counters' = [c \in Names |-> 0] /\ due' = 0 /\ Observed' = {}
    BY <1>4 DEF Crash, Telemetry!Reset, Names, Observed
  <2> QED
    BY <2>1, NothingDue DEF DueInv
<1>5. CASE UNCHANGED vars
  <2>1. UNCHANGED telemetry /\ UNCHANGED pc
    BY <1>5 DEF vars, delivery
  <2> QED
    BY <2>1, OthersKeepDue
<1> QED
    BY <1>1, <1>2, <1>3, <1>4, <1>5 DEF Next

\* orders_completed_total never claims more than was made visible or hidden, no
\* duration is observed without an outcome, and every started operation is under way
\* or counted exactly once unless finish threw before it counted.
THEOREM MetricsAreTruthful == Spec => []MetricsTruthful
<1>1. Init => MetricsInv /\ DueInv
  <2> SUFFICES ASSUME Init PROVE MetricsInv /\ DueInv
    OBVIOUS
  <2>1. /\ counters = [c \in Names |-> 0] /\ durations = 0
        /\ operation = [o \in Workers |-> "none"] /\ Swallowers = {}
        /\ due = 0 /\ Observed = {}
    BY DEF Init, Telemetry!Init, Names, Swallowers, Observed
  <2>2. effects \in [Messages -> Nat] /\ hidden \in [Messages -> Nat]
    BY DEF Init
  <2>3. DueInv
    BY <2>1, NothingDue DEF DueInv
  <2> QED
    BY <2>1, <2>2, <2>3, EmptyRegistry DEF MetricsInv, TelemetryOK, CompletedInv, DurationsInv
<1>2. DedupInv /\ DedupInv' /\ MetricsInv /\ DueInv /\ [Next]_vars => MetricsInv' /\ DueInv'
  <2> SUFFICES ASSUME DedupInv, DedupInv', MetricsInv, DueInv, [Next]_vars
               PROVE  MetricsInv' /\ DueInv'
    OBVIOUS
  <2>1. ASSUME UNCHANGED vars PROVE MetricsInv'
    BY <2>1 DEF vars, delivery, telemetry, MetricsInv, TelemetryOK, CompletedInv,
       DurationsInv, Swallowers
  <2>2. MetricsInv'
    BY <2>1, ReceiveCounts, WorkCounts, FailsCounts, ServerCounts, CrashCounts DEF Next
  <2>3. DueInv'
    BY NextKeepsDue DEF MetricsInv
  <2> QED
    BY <2>2, <2>3
<1>3. DedupInv /\ MetricsInv /\ DueInv => MetricsTruthful
  <2> SUFFICES ASSUME DedupInv, MetricsInv, DueInv PROVE MetricsTruthful
    OBVIOUS
  <2>1. Completed + Cardinality(Swallowers) <= Sum(effects) + Sum(hidden)
    BY DEF MetricsInv, CompletedInv, Completed
  <2>2. Cardinality(Swallowers) \in Nat /\ Completed \in Nat
    BY SwallowersFinite, FS_CardinalityType, NamesFinite DEF MetricsInv, TelemetryOK,
       Completed
  <2>3. Sum(effects) \in Nat /\ Sum(hidden) \in Nat
    BY SumsOverMessages DEF DedupInv, TypeOK
  <2>4. Completed <= Sum(effects) + Sum(hidden)
    BY <2>1, <2>2, <2>3
  <2> QED
    BY <2>4 DEF MetricsTruthful, MetricsInv, DurationsInv, DueInv, Completed
<1> QED
    BY <1>1, <1>2, <1>3, DedupInvariant, PTL DEF Spec

=============================================================================
