----------------------------- MODULE LedgerProofs -----------------------------
(***************************************************************************)
(* The ledger's chain is unbroken in every reachable state, for any number *)
(* of concurrent writers, any requests and any bounds.                     *)
(*                                                                         *)
(* ChainIntact alone is not inductive: a commit replaces chain_head by the *)
(* transaction's own head, so one needs to know what the transaction has   *)
(* built (TransactionExtendsChain) and that nobody else changed the        *)
(* committed chain meanwhile (LockDiscipline).                             *)
(***************************************************************************)
EXTENDS Ledger, TLAPS

IndInv == TypeOK /\ ChainIntact /\ LockDiscipline /\ TransactionExtendsChain

(* LedgerEvent, as append_event builds it, carries the next number, the     *)
(* head's hash as prev_hash and the time it was received.                   *)
LEMMA LedgerEventFields ==
  ASSUME NEW head, NEW event, NEW received_at
  PROVE  LET row == LedgerEvent(head, event, received_at) IN
         /\ row.sequence_num = head.last_sequence_num + 1
         /\ row.prev_hash = head.last_hash
         /\ row.received_at = received_at
BY DEF LedgerEvent

(* Appending a row numbered and linked from the head extends the chain.     *)
LEMMA ChainExtends ==
  ASSUME NEW rows, NEW head, head.last_sequence_num \in Nat,
         ChainOf(rows, head),
         NEW row, row.sequence_num = head.last_sequence_num + 1,
         row.prev_hash = head.last_hash,
         NEW newHead, newHead.last_sequence_num = row.sequence_num,
         newHead.last_hash = row.record_hash
  PROVE  ChainOf(rows \cup {row}, newHead)
<1> DEFINE all == rows \cup {row}
<1>1. \A r \in rows : r.sequence_num \in 1..head.last_sequence_num
  BY DEF ChainOf
<1>2. \A r \in all : r.sequence_num \in 1..newHead.last_sequence_num
  BY <1>1
<1>3. \A n \in 1..newHead.last_sequence_num : \E r \in all : r.sequence_num = n
  <2> SUFFICES ASSUME NEW n \in 1..newHead.last_sequence_num
               PROVE  \E r \in all : r.sequence_num = n
    OBVIOUS
  <2>1. CASE n = newHead.last_sequence_num
    BY <2>1
  <2>2. CASE n # newHead.last_sequence_num
    <3>1. n \in 1..head.last_sequence_num
      BY <2>2
    <3> QED BY <3>1 DEF ChainOf
  <2> QED BY <2>1, <2>2
<1>4. \A r, q \in all : r.sequence_num = q.sequence_num => r = q
  BY <1>1 DEF ChainOf
<1>5. \A r \in all : r.sequence_num = 1 => r.prev_hash = GENESIS_HASH
  BY <1>1 DEF ChainOf
<1>6. \A r, q \in all : q.sequence_num = r.sequence_num + 1 => q.prev_hash = r.record_hash
  BY <1>1 DEF ChainOf
<1>7. \A r \in all : r.sequence_num = newHead.last_sequence_num => r.record_hash = newHead.last_hash
  BY <1>1 DEF ChainOf
<1>8. newHead.last_sequence_num # 0
  OBVIOUS
<1> QED BY <1>2, <1>3, <1>4, <1>5, <1>6, <1>7, <1>8 DEF ChainOf

(* Init establishes the inductive invariant.                                *)
LEMMA InitIndInv == Init => IndInv
<1> SUFFICES ASSUME Init PROVE IndInv
  OBVIOUS
<1>1. TypeOK
  BY DEF Init, TypeOK, Genesis, Phase
<1>2. ChainOf({}, Genesis)
  BY DEF ChainOf, Genesis
<1>3. LockDiscipline
  BY WritersAssumption DEF Init, LockDiscipline
<1>4. TransactionExtendsChain
  BY WritersAssumption DEF Init, TransactionExtendsChain
<1> QED BY <1>1, <1>2, <1>3, <1>4 DEF IndInv, ChainIntact, Init

(* Closing a session leaves the request empty and its loop rewound.         *)
LEMMA ClosedTypeOK ==
  ASSUME TypeOK, NEW w \in Writers, CloseSession(w),
         UNCHANGED <<events, chain_head, txHead, clock>>,
         lockHolder' \in Writers \cup {NoWriter}
  PROVE  TypeOK'
<1> USE DEF TypeOK, CloseSession
<1>1. /\ phase' \in [Writers -> Phase]
      /\ request' \in [Writers -> Batches \cup {<<>>}]
      /\ cursor' \in [Writers -> Nat \ {0}]
  BY DEF Phase
<1>2. ASSUME NEW v \in Writers PROVE cursor'[v] <= Len(request'[v]) + 1
  <2>1. CASE v = w
    BY <2>1, Len(<<>>) = 0
  <2>2. CASE v # w
    BY <2>2
  <2> QED BY <2>1, <2>2
<1>3. DOMAIN pending' = Writers
  OBVIOUS
<1>4. ASSUME NEW v \in Writers, NEW r \in pending'[v]
      PROVE  r.sequence_num \in Nat /\ r.received_at \in Nat
  BY <1>4
<1> QED BY <1>1, <1>2, <1>3, <1>4

(* Every step preserves the inductive invariant.                            *)
LEMMA StepIndInv == IndInv /\ [Next]_vars => IndInv'
<1> SUFFICES ASSUME IndInv, [Next]_vars PROVE IndInv'
  OBVIOUS
<1> USE DEF IndInv
<1>1. ASSUME NEW w \in Writers, NEW batch \in Batches, Begin(w, batch)
      PROVE  IndInv'
  <2>1. batch \in Seq(Event) /\ batch # <<>>
    BY BatchesAssumption
  <2>2. Len(batch) \in Nat /\ Len(batch) >= 1
    BY <2>1
  <2>3. TypeOK'
    BY <1>1, <2>2 DEF Begin, TypeOK, Phase, LockDiscipline
  <2>4. LockDiscipline'
    BY <1>1, <2>2, WritersAssumption DEF Begin, TypeOK, LockDiscipline
  <2>5. ChainIntact' /\ TransactionExtendsChain'
    BY <1>1 DEF Begin, ChainIntact, TransactionExtendsChain, ChainOf
  <2> QED BY <2>3, <2>4, <2>5
<1>2. ASSUME NEW w \in Writers, SelectHeadForUpdate(w)
      PROVE  IndInv'
  <2>1. TypeOK'
    BY <1>2 DEF SelectHeadForUpdate, TypeOK, Phase
  <2>2. LockDiscipline'
    BY <1>2, WritersAssumption DEF SelectHeadForUpdate, TypeOK, LockDiscipline
  <2>3. ChainIntact'
    BY <1>2 DEF SelectHeadForUpdate, ChainIntact, ChainOf
  <2>4. ChainOf(events \cup pending[w], txHead'[w])
    <3>1. CASE pending[w] = {}
      BY <1>2, <3>1 DEF SelectHeadForUpdate, TypeOK, ChainIntact
    <3>2. CASE pending[w] # {}
      BY <1>2, <3>2 DEF SelectHeadForUpdate, TypeOK, LockDiscipline, TransactionExtendsChain
    <3> QED BY <3>1, <3>2
  <2>5. TransactionExtendsChain'
    BY <1>2, <2>4 DEF SelectHeadForUpdate, TransactionExtendsChain, ChainOf
  <2> QED BY <2>1, <2>2, <2>3, <2>5
<1>3. ASSUME NEW w \in Writers, InsertRow(w)
      PROVE  IndInv'
  <2> DEFINE row == LedgerEvent(txHead[w], request[w][cursor[w]], clock)
  <2>0. /\ row.sequence_num = txHead[w].last_sequence_num + 1
        /\ row.prev_hash = txHead[w].last_hash
        /\ row.received_at = clock
    BY LedgerEventFields
  <2> HIDE DEF row
  <2>1. /\ phase[w] = "locked"
        /\ pending' = [pending EXCEPT ![w] = @ \cup {row}]
        /\ cursor' = [cursor EXCEPT ![w] = @ + 1]
        /\ txHead' = [txHead EXCEPT ![w] = [last_sequence_num |-> row.sequence_num,
                                            last_hash |-> row.record_hash]]
        /\ phase' = [phase EXCEPT ![w] = IF cursor[w] = Len(request[w])
                                         THEN "appended" ELSE "selecting"]
        /\ UNCHANGED <<events, chain_head, lockHolder, request, acks, clock>>
    BY <1>3 DEF InsertRow, row
  <2>2. lockHolder = w /\ cursor[w] <= Len(request[w])
    BY <2>1 DEF LockDiscipline
  <2>3. Len(request[w]) \in Nat
    BY BatchesAssumption DEF TypeOK
  <2>4. TypeOK'
    BY <2>0, <2>1, <2>2, <2>3 DEF TypeOK, Phase
  <2>5. LockDiscipline'
    <3>1. cursor[w] \in Nat /\ cursor'[w] = cursor[w] + 1
      BY <2>1 DEF TypeOK
    <3>2. phase'[w] = "selecting" => cursor'[w] <= Len(request'[w])
      BY <2>1, <2>2, <2>3, <3>1 DEF TypeOK
    <3>3. phase'[w] \in {"selecting", "appended"} /\ pending'[w] # {} /\ lockHolder' = w
      BY <2>1, <2>2 DEF TypeOK
    <3>4. ASSUME NEW v \in Writers, v # w
          PROVE  /\ phase'[v] = phase[v] /\ pending'[v] = pending[v]
                 /\ cursor'[v] = cursor[v] /\ request'[v] = request[v]
      BY <2>1, <3>4 DEF TypeOK
    <3> QED BY <2>1, <3>2, <3>3, <3>4 DEF LockDiscipline
  <2>6. ChainIntact'
    BY <2>1 DEF ChainIntact, ChainOf
  <2>7. ChainOf((events \cup pending[w]) \cup {row}, txHead'[w])
    <3>1. ChainOf(events \cup pending[w], txHead[w])
      BY <2>2 DEF TransactionExtendsChain
    <3>2. txHead[w].last_sequence_num \in Nat
      BY DEF TypeOK
    <3>3. /\ txHead'[w].last_sequence_num = row.sequence_num
          /\ txHead'[w].last_hash = row.record_hash
      BY <2>1 DEF TypeOK
    <3> HIDE DEF IndInv
    <3> QED BY <2>0, <3>1, <3>2, <3>3, ChainExtends
  <2>8. events' \cup pending'[w] = (events \cup pending[w]) \cup {row}
    BY <2>1 DEF TypeOK
  <2>9. TransactionExtendsChain'
    BY <2>1, <2>2, <2>7, <2>8 DEF TransactionExtendsChain
  <2> QED BY <2>4, <2>5, <2>6, <2>9
<1>4. ASSUME NEW w \in Writers, Commit(w)
      PROVE  IndInv'
  <2>1. lockHolder = w
    BY <1>4 DEF Commit, LockDiscipline
  <2>2. TypeOK'
    BY <1>4 DEF Commit, TypeOK, Phase
  <2>3. LockDiscipline'
    BY <1>4, <2>1, WritersAssumption DEF Commit, TypeOK, LockDiscipline
  <2>4. ChainIntact'
    BY <1>4, <2>1 DEF Commit, TransactionExtendsChain, ChainIntact
  <2>5. TransactionExtendsChain'
    BY <1>4, WritersAssumption DEF Commit, TransactionExtendsChain
  <2> QED BY <2>2, <2>3, <2>4, <2>5
<1>5. ASSUME NEW w \in Writers, Respond(w) \/ LoseResponse(w)
      PROVE  IndInv'
  <2>1. TypeOK'
    BY <1>5, ClosedTypeOK DEF Respond, LoseResponse, TypeOK
  <2>2. LockDiscipline'
    BY <1>5 DEF Respond, LoseResponse, CloseSession, TypeOK, LockDiscipline
  <2>3. ChainIntact'
    BY <1>5 DEF Respond, LoseResponse, ChainIntact, ChainOf
  <2>4. TransactionExtendsChain'
    BY <1>5 DEF Respond, LoseResponse, CloseSession, TypeOK, LockDiscipline, TransactionExtendsChain
  <2> QED BY <2>1, <2>2, <2>3, <2>4
<1>6. ASSUME NEW w \in Writers, Rollback(w)
      PROVE  IndInv'
  <2>1. TypeOK'
    BY <1>6, ClosedTypeOK DEF Rollback, TypeOK
  <2>2. LockDiscipline'
    BY <1>6, WritersAssumption DEF Rollback, CloseSession, TypeOK, LockDiscipline
  <2>3. ChainIntact'
    BY <1>6 DEF Rollback, ChainIntact, ChainOf
  <2>4. TransactionExtendsChain'
    BY <1>6, WritersAssumption DEF Rollback, CloseSession, TypeOK, TransactionExtendsChain
  <2> QED BY <2>1, <2>2, <2>3, <2>4
<1>7. CASE Tick \/ AtBound \/ UNCHANGED vars
  <2>1. UNCHANGED <<events, chain_head, lockHolder, phase, request, cursor, pending, txHead>>
    BY <1>7 DEF Tick, AtBound, vars
  <2>2. clock' \in Nat
    BY <1>7 DEF Tick, AtBound, vars, TypeOK
  <2> QED BY <2>1, <2>2 DEF TypeOK, ChainIntact, LockDiscipline, TransactionExtendsChain
<1> QED BY <1>1, <1>2, <1>3, <1>4, <1>5, <1>6, <1>7 DEF Next, WriterStep

(* The inductive invariant holds of every behaviour.                        *)
THEOREM Invariance == Spec => []IndInv
BY InitIndInv, StepIndInv, PTL DEF Spec

(* Type correctness of the ledger's state, and append_batch's loop bound.   *)
THEOREM TypeCorrect == Spec => []TypeOK
<1>1. IndInv => TypeOK
  BY DEF IndInv
<1> QED BY <1>1, Invariance, PTL

(* The committed ledger is always one unbroken chain ending at chain_head,  *)
(* however append_event, append_batch, commits and rollbacks interleave.    *)
THEOREM ChainAlwaysIntact == Spec => []ChainIntact
<1>1. IndInv => ChainIntact
  BY DEF IndInv
<1> QED BY <1>1, Invariance, PTL

-----------------------------------------------------------------------------
(* Acks.                                                                    *)

(* No step takes back a row whose EventAck a client holds, and no EventAck  *)
(* leaves before its row is committed.                                      *)
THEOREM AcksAlwaysDurable == Spec => []AcksDurable
<1> DEFINE Inv == AcksDurable /\ AnswersCommitted
<1>1. Init => Inv
  BY DEF Init, AcksDurable, AnswersCommitted
<1>2. IndInv /\ Inv /\ [Next]_vars => Inv'
  <2> SUFFICES ASSUME IndInv, Inv, [Next]_vars PROVE Inv'
    OBVIOUS
  <2> USE DEF AcksDurable, AnswersCommitted, IndInv
  <2>1. ASSUME NEW w \in Writers, NEW batch \in Batches, Begin(w, batch) PROVE Inv'
    BY <2>1 DEF Begin, TypeOK
  <2>2. ASSUME NEW w \in Writers, SelectHeadForUpdate(w) PROVE Inv'
    BY <2>2 DEF SelectHeadForUpdate, TypeOK
  <2>3. ASSUME NEW w \in Writers, InsertRow(w) PROVE Inv'
    BY <2>3 DEF InsertRow, TypeOK
  <2>4. ASSUME NEW w \in Writers, Commit(w) PROVE Inv'
    BY <2>4 DEF Commit, TypeOK
  <2>5. ASSUME NEW w \in Writers, Respond(w) PROVE Inv'
    <3>1. AcksDurable'
      BY <2>5 DEF Respond
    <3>2. AnswersCommitted'
      BY <2>5 DEF Respond, CloseSession, TypeOK
    <3> QED BY <3>1, <3>2
  <2>6. ASSUME NEW w \in Writers, LoseResponse(w) \/ Rollback(w) PROVE Inv'
    BY <2>6 DEF LoseResponse, Rollback, CloseSession, TypeOK
  <2>7. CASE Tick \/ AtBound \/ UNCHANGED vars
    BY <2>7 DEF Tick, AtBound, vars
  <2> QED BY <2>1, <2>2, <2>3, <2>4, <2>5, <2>6, <2>7 DEF Next, WriterStep
<1>3. Inv => AcksDurable
  OBVIOUS
<1> QED BY <1>1, <1>2, <1>3, Invariance, PTL DEF Spec

-----------------------------------------------------------------------------
(* The order of received_at.                                                *)

(* Stamped under the chain_head lock, received_at never runs against the    *)
(* order of sequence_num, whoever wrote the rows.                           *)
THEOREM AlwaysReceivedInOrder == Spec => []ReceivedInOrder
<1>1. Init => StampedUnderLock
  BY WritersAssumption DEF Init, StampedUnderLock, ReceiptsOrdered
<1>2. IndInv /\ StampedUnderLock /\ [Next]_vars => StampedUnderLock'
  <2> SUFFICES ASSUME IndInv, StampedUnderLock, [Next]_vars PROVE StampedUnderLock'
    OBVIOUS
  <2> USE DEF StampedUnderLock, IndInv
  <2>1. ASSUME NEW w \in Writers, NEW batch \in Batches, Begin(w, batch)
        PROVE  StampedUnderLock'
    BY <2>1 DEF Begin, ReceiptsOrdered
  <2>2. ASSUME NEW w \in Writers, SelectHeadForUpdate(w)
        PROVE  StampedUnderLock'
    <3>1. ReceiptsOrdered(events \cup pending[w])
      BY <2>2 DEF SelectHeadForUpdate, LockDiscipline, ReceiptsOrdered
    <3> QED BY <2>2, <3>1 DEF SelectHeadForUpdate, ReceiptsOrdered
  <2>3. ASSUME NEW w \in Writers, InsertRow(w)
        PROVE  StampedUnderLock'
    <3> DEFINE row == LedgerEvent(txHead[w], request[w][cursor[w]], clock)
               old == events \cup pending[w]
    <3>1. /\ row.sequence_num = txHead[w].last_sequence_num + 1
          /\ row.received_at = clock
      BY LedgerEventFields
    <3>2. /\ phase[w] = "locked"
          /\ pending' = [pending EXCEPT ![w] = @ \cup {row}]
          /\ UNCHANGED <<events, lockHolder, clock>>
      BY <2>3 DEF InsertRow
    <3> HIDE DEF row
    <3>3. lockHolder = w
      BY <3>2 DEF LockDiscipline
    <3>4. \A r \in old : /\ r.sequence_num \in 1..txHead[w].last_sequence_num
                         /\ r.received_at \in Nat
      BY <3>3 DEF TransactionExtendsChain, ChainOf, TypeOK
    <3>5. ReceiptsOrdered(old) /\ clock \in Nat /\ txHead[w].last_sequence_num \in Nat
      BY <3>3 DEF TypeOK
    <3>6. events' \cup pending'[w] = old \cup {row}
      BY <3>2 DEF TypeOK
    <3>7. ReceiptsOrdered(old \cup {row})
      BY <3>1, <3>4, <3>5 DEF ReceiptsOrdered
    <3>8. ReceiptsOrdered(events \cup pending[w])'
      BY <3>2, <3>6, <3>7 DEF ReceiptsOrdered
    <3> QED BY <3>2, <3>3, <3>8 DEF ReceiptsOrdered
  <2>4. ASSUME NEW w \in Writers, Commit(w)
        PROVE  StampedUnderLock'
    <3>1. lockHolder = w
      BY <2>4 DEF Commit, LockDiscipline
    <3> QED BY <2>4, <3>1, WritersAssumption DEF Commit, ReceiptsOrdered
  <2>5. ASSUME NEW w \in Writers, Respond(w) \/ LoseResponse(w) \/ Rollback(w)
        PROVE  StampedUnderLock'
    <3>1. UNCHANGED <<events, clock>> /\ (lockHolder' = lockHolder \/ lockHolder' = NoWriter)
      BY <2>5 DEF Respond, LoseResponse, Rollback
    <3>2. \A v \in Writers : pending'[v] \subseteq pending[v]
      BY <2>5 DEF Respond, LoseResponse, Rollback, CloseSession, TypeOK
    <3> QED BY <3>1, <3>2, WritersAssumption DEF ReceiptsOrdered
  <2>6. CASE Tick \/ AtBound \/ UNCHANGED vars
    <3>1. UNCHANGED <<events, lockHolder, pending>> /\ clock' \in Nat /\ clock' >= clock
      BY <2>6 DEF Tick, AtBound, vars, TypeOK
    <3>2. \A r \in events : r.received_at \in Nat
      BY DEF TypeOK
    <3>3. \A w \in Writers : \A r \in pending[w] : r.received_at \in Nat
      BY DEF TypeOK
    <3>4. clock \in Nat
      BY DEF TypeOK
    <3> HIDE DEF IndInv
    <3> QED BY <3>1, <3>2, <3>3, <3>4 DEF ReceiptsOrdered
  <2> QED BY <2>1, <2>2, <2>3, <2>4, <2>5, <2>6 DEF Next, WriterStep
<1>3. StampedUnderLock => ReceivedInOrder
  BY DEF StampedUnderLock, ReceiptsOrdered, ReceivedInOrder
<1> QED BY <1>1, <1>2, <1>3, Invariance, PTL DEF Spec

-----------------------------------------------------------------------------
(* Verification.                                                            *)

(* Along an unbroken chain the row visited before r is the one numbered     *)
(* r.sequence_num - 1, so verify_chain expects exactly what r stores.       *)
LEMMA ChainMeetsExpectation ==
  ASSUME NEW rows, NEW head, head.last_sequence_num \in Nat, ChainOf(rows, head),
         NEW r \in rows
  PROVE  r.prev_hash = ExpectedPrevHash(rows, r)
<1> DEFINE before == Predecessors(rows, r)
<1>1. \A q \in rows : q.sequence_num \in 1..head.last_sequence_num
  BY DEF ChainOf
<1>2. CASE before = {}
  <2>1. r.sequence_num = 1
    <3> SUFFICES ASSUME r.sequence_num # 1 PROVE FALSE
      OBVIOUS
    <3>1. r.sequence_num - 1 \in 1..head.last_sequence_num
      BY <1>1
    <3>2. PICK q \in rows : q.sequence_num = r.sequence_num - 1
      BY <3>1 DEF ChainOf
    <3>3. q \in before
      BY <1>1, <3>2 DEF Predecessors
    <3> QED BY <1>2, <3>3
  <2> QED BY <1>2, <2>1 DEF ExpectedPrevHash, ChainOf
<1>3. CASE before # {}
  <2> DEFINE Last(q) == \A p \in before : p.sequence_num <= q.sequence_num
  <2>1. r.sequence_num - 1 \in 1..head.last_sequence_num
    BY <1>1, <1>3 DEF Predecessors
  <2>2. PICK q \in rows : q.sequence_num = r.sequence_num - 1
    BY <2>1 DEF ChainOf
  <2>3. q \in before /\ Last(q)
    BY <1>1, <2>2 DEF Predecessors
  <2>4. \A p \in before : Last(p) => p = q
    <3> SUFFICES ASSUME NEW p \in before, Last(p) PROVE p = q
      OBVIOUS
    <3>1. p \in rows /\ p.sequence_num < r.sequence_num /\ q.sequence_num <= p.sequence_num
      BY <2>3 DEF Predecessors
    <3>2. p.sequence_num = q.sequence_num
      BY <1>1, <2>2, <3>1
    <3> QED BY <3>1, <3>2 DEF ChainOf
  <2>5. (CHOOSE p \in before : Last(p)) = q
    BY <2>3, <2>4
  <2>6. ExpectedPrevHash(rows, r) = q.record_hash
    BY <1>3, <2>5 DEF ExpectedPrevHash
  <2>7. r.sequence_num = q.sequence_num + 1
    BY <1>1, <2>2
  <2> QED BY <2>6, <2>7 DEF ChainOf
<1> QED BY <1>2, <1>3

(* append_event stores an event with the content it was submitted with.     *)
LEMMA LedgerEventContent ==
  ASSUME NEW head, NEW event, NEW received_at
  PROVE  RowContent(LedgerEvent(head, event, received_at)) = Content(event)
BY DEF LedgerEvent, RowContent, Content

(* append_event hashes the event it was given, chained from the head.       *)
LEMMA LedgerEventWritten ==
  ASSUME NEW head, NEW event, NEW received_at
  PROVE  WrittenFor(LedgerEvent(head, event, received_at), event)
BY LedgerEventContent DEF WrittenFor, LedgerEvent

(* Every row append_event writes carries the hash of an event some client   *)
(* submitted, and what the columns keep of that event.                      *)
THEOREM RowsAlwaysHashed == Spec => []RowsHashed
<1>1. Init => RowsHashed
  BY DEF Init, RowsHashed
<1>2. IndInv /\ RowsHashed /\ [Next]_vars => RowsHashed'
  <2> SUFFICES ASSUME IndInv, RowsHashed, [Next]_vars PROVE RowsHashed'
    OBVIOUS
  <2> DEFINE Hashed(r) == \E batch \in Batches : \E i \in DOMAIN batch : WrittenFor(r, batch[i])
  <2>0. DOMAIN pending = Writers
    BY DEF IndInv, TypeOK
  <2>h. /\ \A r \in events : Hashed(r)
        /\ \A w \in Writers : \A r \in pending[w] : Hashed(r)
    BY DEF RowsHashed
  <2>g. ASSUME \A r \in events' : Hashed(r), \A w \in Writers : \A r \in pending'[w] : Hashed(r)
        PROVE  RowsHashed'
    BY <2>g DEF RowsHashed, WrittenFor, RowContent, Content, compute_record_hash, build_canonical_payload, iso
  <2>1. ASSUME NEW w \in Writers, InsertRow(w) PROVE RowsHashed'
    <3>1. request[w] \in Batches /\ cursor[w] \in DOMAIN request[w]
      <4>1. request[w] # <<>>
        BY <2>1 DEF InsertRow, IndInv, TypeOK, LockDiscipline
      <4>2. request[w] \in Batches /\ request[w] \in Seq(Event)
        BY <4>1, BatchesAssumption DEF IndInv, TypeOK
      <4>3. cursor[w] \in 1 .. Len(request[w])
        BY <2>1, <4>2 DEF InsertRow, IndInv, TypeOK, LockDiscipline
      <4> QED BY <4>2, <4>3
    <3> DEFINE row == LedgerEvent(txHead[w], request[w][cursor[w]], clock)
    <3>2. WrittenFor(row, request[w][cursor[w]])
      BY LedgerEventWritten
    <3>3. events' = events /\ pending' = [pending EXCEPT ![w] = @ \cup {row}]
      BY <2>1 DEF InsertRow
    <3> HIDE DEF row
    <3>4. Hashed(row)
      BY <3>1, <3>2
    <3> HIDE DEF Hashed
    <3> QED BY <2>0, <2>h, <2>g, <3>3, <3>4
  <2> HIDE DEF Hashed
  <2>2. ASSUME NEW w \in Writers, NEW batch \in Batches, Begin(w, batch)
        PROVE  RowsHashed'
    BY <2>h, <2>g, <2>2 DEF Begin
  <2>3. ASSUME NEW w \in Writers, Commit(w) PROVE RowsHashed'
    BY <2>h, <2>g, <2>3 DEF Commit
  <2>4. ASSUME NEW w \in Writers, Respond(w) \/ LoseResponse(w) \/ Rollback(w)
        PROVE  RowsHashed'
    BY <2>0, <2>h, <2>g, <2>4 DEF Respond, LoseResponse, Rollback, CloseSession
  <2>5. ASSUME NEW w \in Writers, SelectHeadForUpdate(w) PROVE RowsHashed'
    BY <2>h, <2>g, <2>5 DEF SelectHeadForUpdate
  <2>6. CASE Tick \/ AtBound \/ UNCHANGED vars
    BY <2>h, <2>g, <2>6 DEF Tick, AtBound, vars
  <2> QED BY <2>1, <2>2, <2>3, <2>4, <2>5, <2>6 DEF Next, WriterStep
<1> QED BY <1>1, <1>2, Invariance, PTL DEF Spec

(* A row written for an event that survives the columns hashes to the same  *)
(* value when verify_chain recomputes it from them.                         *)
LEMMA SurvivorRecomputes ==
  ASSUME NEW r, NEW e, WrittenFor(r, e), Survives(e)
  PROVE  RecomputedHash(r) = r.record_hash
<1>1. r.body = e.body /\ r.occurred_at = e.instant
  BY DEF WrittenFor, RowContent, Content, Survives
<1>2. iso(r.occurred_at, UTC) = iso(e.instant, e.offset)
  BY <1>1 DEF Survives
<1>3. build_canonical_payload(r.sequence_num, r.body, r.occurred_at, UTC, r.prev_hash)
        = build_canonical_payload(r.sequence_num, e.body, e.instant, e.offset, r.prev_hash)
  BY <1>1, <1>2 DEF build_canonical_payload
<1> QED BY <1>3 DEF WrittenFor, RecomputedHash

(* In a ledger nobody edited verify_chain reports no broken link, and no    *)
(* hash but those of events that JSONB or timestamptz does not keep as they *)
(* came.                                                                    *)
THEOREM DivergencesAlwaysExplained == Spec => []DivergencesExplained
<1>1. IndInv /\ RowsHashed => DivergencesExplained
  <2> SUFFICES ASSUME IndInv, RowsHashed, NEW d \in verify_chain(events)
               PROVE  /\ d.field = "record_hash"
                      /\ \E r \in events, batch \in Batches : \E i \in DOMAIN batch :
                           /\ r.sequence_num = d.sequence_num
                           /\ RowContent(r) = Content(batch[i]) /\ ~Survives(batch[i])
    BY DEF DivergencesExplained
  <2>1. \A r \in events : r.prev_hash = ExpectedPrevHash(events, r)
    BY ChainMeetsExpectation DEF IndInv, TypeOK, ChainIntact
  <2>2. PICK r \in events : /\ d = [sequence_num |-> r.sequence_num, field |-> "record_hash"]
                            /\ RecomputedHash(r) # r.record_hash
    BY <2>1 DEF verify_chain
  <2>3. PICK batch \in Batches : \E i \in DOMAIN batch : WrittenFor(r, batch[i])
    BY DEF RowsHashed
  <2>4. PICK i \in DOMAIN batch : WrittenFor(r, batch[i])
    BY <2>3
  <2>5. ~Survives(batch[i])
    BY <2>2, <2>4, SurvivorRecomputes
  <2> QED BY <2>2, <2>4, <2>5 DEF WrittenFor
<1> QED BY <1>1, Invariance, RowsAlwaysHashed, PTL

-----------------------------------------------------------------------------
(* The append-only log.                                                     *)

\* What the lock holder's transaction has built is the first part of its
\* request, numbered on from the committed head.
BuildsRequest ==
  \A w \in Writers :
    /\ phase[w] \in {"selecting", "locked", "appended"} => request[w] \in Batches
    /\ phase[w] = "selecting" /\ lockHolder # w => cursor[w] = 1
    /\ phase[w] = "appended" => cursor[w] = Len(request[w]) + 1
    /\ lockHolder = w =>
         /\ txHead[w].last_sequence_num = chain_head.last_sequence_num + cursor[w] - 1
         /\ \A r \in pending[w] :
              /\ r.sequence_num > chain_head.last_sequence_num
              /\ RowContent(r) = Content(request[w][r.sequence_num - chain_head.last_sequence_num])

(* append_batch builds its request from the front, one row per event.       *)
LEMMA StepBuildsRequest == IndInv /\ BuildsRequest /\ [Next]_vars => BuildsRequest'
<1> SUFFICES ASSUME IndInv, BuildsRequest, [Next]_vars PROVE BuildsRequest'
  OBVIOUS
<1> USE DEF BuildsRequest
<1>0. /\ chain_head.last_sequence_num \in Nat /\ phase \in [Writers -> Phase]
      /\ \A w \in Writers : cursor[w] \in Nat \ {0} /\ txHead[w].last_sequence_num \in Nat
      /\ \A w \in Writers : \A r \in pending[w] : r.sequence_num \in Nat
      /\ DOMAIN cursor = Writers /\ DOMAIN pending = Writers /\ DOMAIN txHead = Writers
      /\ DOMAIN request = Writers /\ DOMAIN phase = Writers
  BY DEF IndInv, TypeOK
<1>1. ASSUME NEW w \in Writers, NEW batch \in Batches, Begin(w, batch)
      PROVE  BuildsRequest'
  <2>1. cursor[w] = 1 /\ lockHolder # w
    BY <1>1 DEF Begin, IndInv, LockDiscipline
  <2> QED BY <1>0, <1>1, <2>1 DEF Begin
<1>2. ASSUME NEW w \in Writers, SelectHeadForUpdate(w)
      PROVE  BuildsRequest'
  <2>1. CASE pending[w] = {}
    <3>1. lockHolder # w /\ cursor[w] = 1
      BY <1>2, <2>1 DEF SelectHeadForUpdate, IndInv, LockDiscipline
    <3> QED BY <1>0, <1>2, <2>1, <3>1, WritersAssumption DEF SelectHeadForUpdate
  <2>2. CASE pending[w] # {}
    <3>1. lockHolder = w
      BY <1>2, <2>2 DEF SelectHeadForUpdate, IndInv, LockDiscipline
    <3> QED BY <1>0, <1>2, <2>2, <3>1 DEF SelectHeadForUpdate
  <2> QED BY <2>1, <2>2
<1>3. ASSUME NEW w \in Writers, InsertRow(w)
      PROVE  BuildsRequest'
  <2> DEFINE row == LedgerEvent(txHead[w], request[w][cursor[w]], clock)
  <2>1. row.sequence_num = txHead[w].last_sequence_num + 1 /\ RowContent(row) = Content(request[w][cursor[w]])
    BY LedgerEventFields, LedgerEventContent
  <2>2. /\ phase[w] = "locked"
        /\ pending' = [pending EXCEPT ![w] = @ \cup {row}]
        /\ cursor' = [cursor EXCEPT ![w] = @ + 1]
        /\ txHead' = [txHead EXCEPT ![w] = [last_sequence_num |-> row.sequence_num,
                                            last_hash |-> row.record_hash]]
        /\ phase' = [phase EXCEPT ![w] = IF cursor[w] = Len(request[w])
                                         THEN "appended" ELSE "selecting"]
        /\ UNCHANGED <<events, chain_head, lockHolder, request>>
    BY <1>3 DEF InsertRow
  <2>3. lockHolder = w
    BY <2>2 DEF IndInv, LockDiscipline
  <2> HIDE DEF row
  <2>4. row.sequence_num = chain_head.last_sequence_num + cursor[w]
    BY <1>0, <2>1, <2>3
  <2>5. row.sequence_num - chain_head.last_sequence_num = cursor[w]
    BY <1>0, <2>4
  <2>6. ASSUME NEW v \in Writers, v # w
        PROVE  /\ phase'[v] = phase[v] /\ pending'[v] = pending[v] /\ txHead'[v] = txHead[v]
               /\ cursor'[v] = cursor[v] /\ request'[v] = request[v] /\ lockHolder' # v
    BY <1>0, <2>2, <2>3, <2>6
  <2>7. /\ request'[w] \in Batches /\ phase'[w] \in {"appended", "selecting"}
        /\ cursor'[w] = cursor[w] + 1 /\ lockHolder' = w
        /\ phase'[w] = "appended" => cursor[w] = Len(request[w])
        /\ txHead'[w].last_sequence_num = chain_head.last_sequence_num + cursor'[w] - 1
    BY <1>0, <2>2, <2>3, <2>4
  <2>8. ASSUME NEW r \in pending'[w]
        PROVE  /\ r.sequence_num > chain_head.last_sequence_num
               /\ RowContent(r) = Content(request[w][r.sequence_num - chain_head.last_sequence_num])
    <3>1. CASE r = row
      BY <1>0, <2>1, <2>4, <2>5, <3>1
    <3>2. CASE r \in pending[w]
      BY <2>3, <3>2
    <3> QED BY <1>0, <2>2, <3>1, <3>2
  <2> QED BY <2>2, <2>6, <2>7, <2>8
<1>4. ASSUME NEW w \in Writers, Commit(w)
      PROVE  BuildsRequest'
  <2>1. \A v \in Writers : lockHolder = v => v = w
    BY <1>4 DEF Commit, IndInv, LockDiscipline
  <2> QED BY <1>0, <1>4, <2>1, WritersAssumption DEF Commit, IndInv, LockDiscipline
<1>5. ASSUME NEW w \in Writers, Respond(w) \/ LoseResponse(w) \/ Rollback(w)
      PROVE  BuildsRequest'
  <2>1. lockHolder' # w /\ (lockHolder' = lockHolder \/ lockHolder' = NoWriter)
    BY <1>5, WritersAssumption DEF Respond, LoseResponse, Rollback, IndInv, LockDiscipline
  <2>2. CloseSession(w) /\ UNCHANGED <<chain_head, txHead>>
    BY <1>5 DEF Respond, LoseResponse, Rollback
  <2>3. phase'[w] = "idle"
    BY <1>0, <2>2 DEF CloseSession
  <2>4. ASSUME NEW v \in Writers, v # w
        PROVE  /\ phase'[v] = phase[v] /\ pending'[v] = pending[v] /\ txHead'[v] = txHead[v]
               /\ cursor'[v] = cursor[v] /\ request'[v] = request[v]
               /\ lockHolder' = v => lockHolder = v
               /\ phase[v] = "selecting" /\ lockHolder' # v => cursor[v] = 1
    <3>1. phase[v] = "selecting" /\ lockHolder = v => lockHolder' = v
      BY <1>5, <2>4 DEF Respond, LoseResponse, Rollback, CloseSession
    <3> QED BY <1>0, <2>1, <2>2, <2>4, <3>1, WritersAssumption DEF CloseSession
  <2> QED BY <2>1, <2>2, <2>3, <2>4
<1>6. CASE Tick \/ AtBound \/ UNCHANGED vars
  BY <1>6 DEF Tick, AtBound, vars
<1> QED BY <1>1, <1>2, <1>3, <1>4, <1>5, <1>6 DEF Next, WriterStep

(* Reading an unbroken chain: the row numbered i is the only one.            *)
LEMMA ChainRow ==
  ASSUME NEW rows, NEW head, ChainOf(rows, head), NEW r \in rows
  PROVE  (CHOOSE q \in rows : q.sequence_num = r.sequence_num) = r
BY DEF ChainOf

(* db.commit() makes one whole request visible, in the order it came in: the *)
(* log grows by that request.                                                *)
LEMMA CommitAppendsRequest ==
  ASSUME IndInv, BuildsRequest, NEW w \in Writers, Commit(w)
  PROVE  LogOf(events, chain_head.last_sequence_num)' =
           LogOf(events, chain_head.last_sequence_num) \o [i \in DOMAIN request[w] |-> Content(request[w][i])]
<1> DEFINE n == chain_head.last_sequence_num
           batch == request[w]
           b == [i \in DOMAIN batch |-> Content(batch[i])]
           all == events \cup pending[w]
           m == txHead[w].last_sequence_num
<1>1. lockHolder = w /\ batch \in Batches /\ n \in Nat
  BY DEF Commit, IndInv, LockDiscipline, TypeOK, BuildsRequest
<1>2. batch \in Seq(Event)
  BY <1>1, BatchesAssumption
<1>3. Len(batch) \in Nat /\ DOMAIN batch = 1 .. Len(batch) /\ m = n + Len(batch)
  <2>1. cursor[w] = Len(batch) + 1 /\ m = n + cursor[w] - 1
    BY <1>1 DEF Commit, BuildsRequest
  <2> QED BY <1>1, <1>2, <2>1
<1>4. events' = all /\ chain_head' = txHead[w]
  BY DEF Commit
<1>5. ChainOf(events, chain_head) /\ ChainOf(all, txHead[w])
  BY <1>1 DEF IndInv, ChainIntact, TransactionExtendsChain
<1>6. \A r \in pending[w] : r.sequence_num > n /\ RowContent(r) = Content(batch[r.sequence_num - n])
  BY <1>1 DEF BuildsRequest
<1> DEFINE old == LogOf(events, n)
           new == LogOf(all, m)
<1>7. ASSUME NEW i \in 1 .. n PROVE new[i] = old[i]
  <2>1. PICK r \in events : r.sequence_num = i
    BY <1>5 DEF ChainOf
  <2>2. (CHOOSE q \in events : q.sequence_num = i) = r /\ (CHOOSE q \in all : q.sequence_num = i) = r
    <3>1. r \in all
      OBVIOUS
    <3> HIDE DEF all
    <3> QED BY <1>5, <2>1, <3>1, ChainRow
  <2>3. i \in 1 .. m
    BY <1>1, <1>3
  <2> QED BY <2>2, <2>3 DEF LogOf
<1>8. ASSUME NEW i \in DOMAIN batch PROVE new[n + i] = b[i]
  <2>1. n + i \in 1 .. m /\ n + i > n /\ (n + i) - n = i
    BY <1>1, <1>3
  <2>2. PICK r \in all : r.sequence_num = n + i
    BY <1>5, <2>1 DEF ChainOf
  <2>3. r \in pending[w]
    <3>1. \A q \in events : q.sequence_num \in 1 .. n
      BY <1>5 DEF ChainOf
    <3> QED BY <1>1, <2>1, <2>2, <3>1
  <2>4. (CHOOSE q \in all : q.sequence_num = n + i) = r
    <3> HIDE DEF all
    <3> QED BY <1>5, <2>2, ChainRow
  <2>5. RowContent(r) = Content(batch[i])
    BY <1>6, <2>1, <2>2, <2>3
  <2> QED BY <2>1, <2>4, <2>5 DEF LogOf
<1>9. /\ Len(old) = n /\ DOMAIN old = 1 .. n /\ old = [i \in 1 .. n |-> old[i]]
      /\ DOMAIN new = 1 .. m /\ new = [i \in 1 .. m |-> new[i]]
      /\ Len(b) = Len(batch) /\ b = [i \in 1 .. Len(batch) |-> b[i]]
  BY <1>1, <1>3 DEF LogOf
<1>10. new = old \o b
  <2> HIDE DEF old, new, b, n, m, batch
  <2>1. old \o b = [i \in 1 .. (n + Len(batch)) |-> IF i <= n THEN old[i] ELSE b[i - n]]
    BY <1>1, <1>3, <1>9
  <2>2. ASSUME NEW i \in 1 .. m PROVE new[i] = IF i <= n THEN old[i] ELSE b[i - n]
    <3>1. CASE i <= n
      BY <1>1, <1>3, <1>7, <3>1
    <3>2. CASE i > n
      <4>1. i - n \in DOMAIN batch /\ n + (i - n) = i
        BY <1>1, <1>3, <3>2
      <4> QED BY <1>1, <1>3, <1>8, <3>2, <4>1
    <3> QED BY <1>1, <1>3, <3>1, <3>2
  <2> QED BY <1>3, <1>9, <2>1, <2>2
<1> QED BY <1>4, <1>10

(* The ledger implements the append-only log: a commit appends one whole     *)
(* request ("All-or-nothing", append_batch), and nothing else is seen of     *)
(* the requests under way, lost or rolled back.                              *)
THEOREM RefinesLog == Spec => ImplementsLog
<1> DEFINE log == LogOf(events, chain_head.last_sequence_num)
<1>1. Init => Log!Init
  <2>1. ASSUME Init PROVE log = <<>>
    BY <2>1 DEF Init, Genesis, LogOf
  <2> QED BY <2>1 DEF Log!Init
<1>2. Init => BuildsRequest
  BY WritersAssumption DEF Init, BuildsRequest
<1>3. IndInv /\ BuildsRequest /\ [Next]_vars => [Log!Next]_log
  <2> SUFFICES ASSUME IndInv, BuildsRequest, [Next]_vars PROVE Log!Next \/ UNCHANGED log
    OBVIOUS
  <2>1. ASSUME NEW w \in Writers, Commit(w) PROVE Log!Next
    <3>1. request[w] \in Batches
      BY <2>1 DEF Commit, BuildsRequest
    <3>2. log' = log \o [i \in DOMAIN request[w] |-> Content(request[w][i])]
      BY <2>1, CommitAppendsRequest
    <3> QED BY <3>1, <3>2 DEF Log!Next, Log!AppendBatch
  <2>2. ASSUME UNCHANGED <<events, chain_head>> PROVE UNCHANGED log
    BY <2>2 DEF LogOf
  <2>3. (\E w \in Writers : Commit(w)) \/ UNCHANGED <<events, chain_head>>
    BY DEF Next, WriterStep, Begin, SelectHeadForUpdate, InsertRow, Respond, LoseResponse, Rollback,
           Tick, AtBound, vars
  <2> QED BY <2>1, <2>2, <2>3
<1>4. IndInv /\ BuildsRequest /\ [Next]_vars => BuildsRequest'
  BY StepBuildsRequest
<1> QED BY <1>1, <1>2, <1>3, <1>4, Invariance, PTL DEF Spec, ImplementsLog, Log!Spec
=============================================================================
