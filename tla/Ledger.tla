-------------------------------- MODULE Ledger --------------------------------
(***************************************************************************)
(* The hash-chained ledger: ledger.events and the singleton row            *)
(* ledger.chain_head (backend/app/ledger/append.py, hashing.py, verify.py, *)
(* migrations 0003, 0004, 0006) under concurrent HTTP writers.             *)
(*                                                                         *)
(* Every writer is one request with one database session.  A request       *)
(* appends its events one after the other inside one transaction:          *)
(* SELECT ... FOR UPDATE on chain_head, compute the record hash, INSERT    *)
(* and flush the row, advance the in-session head; then it commits (or is  *)
(* rolled back by an error, a dropped connection or a crash) and answers.  *)
(* What a transaction wrote is visible to others only once it commits, and *)
(* its row lock on chain_head is held until it ends.                       *)
(***************************************************************************)
EXTENDS Integers, Sequences, FiniteSets

CONSTANTS
  Writers,       \* concurrent requests
  NoWriter,      \* nobody holds the row lock of chain_head
  Body,          \* the hashed columns other than sequence_num, occurred_at, prev_hash
  Jsonb,         \* what the table gives back of each body: change_summary and metadata are JSONB
  Aux,           \* the columns outside the hash: severity, origin_*, display name
  Instant,       \* points in time a client reports in occurred_at
  Offset,        \* UTC offsets a client writes occurred_at with
  Naive,         \* the "offset" of an occurred_at that has none
  UTC,           \* the offset timestamptz columns are read back with
  LocalOffset,   \* the offset of the server's own time zone
  Batches,       \* the requests: non-empty sequences of events
  MaxSequence,   \* bound: no request starts once this many rows are committed
  MaxClock       \* bound on the server's clock

Event == [body : Body, aux : Aux, instant : Instant, offset : Offset \cup {Naive}]

\* PostgreSQL keeps JSON numbers as numerics: 1e16 comes back as an integer,
\* -0.0 without its sign.  What it gives back it keeps as it is.
ASSUME JsonbAssumption ==
  /\ Jsonb \in [Body -> Body]
  /\ \A body \in Body : Jsonb[Jsonb[body]] = Jsonb[body]
ASSUME WritersAssumption == NoWriter \notin Writers
ASSUME BatchesAssumption == \A b \in Batches : b \in Seq(Event) /\ b # <<>>
ASSUME BoundsAssumption == MaxSequence \in Nat /\ MaxClock \in Nat

VARIABLES
  events,        \* committed rows of ledger.events
  chain_head,    \* the committed singleton row of ledger.chain_head
  lockHolder,    \* whose transaction holds the row lock of chain_head
  phase,         \* where each request is
  request,       \* the events each request appends
  cursor,        \* the index, in its request, of the event being appended
  pending,       \* the rows each transaction has flushed and not committed
  txHead,        \* each session's own ChainHead object
  acks,          \* the EventAcks clients have received
  clock          \* the server's wall clock

vars == <<events, chain_head, lockHolder, phase, request, cursor, pending, txHead, acks, clock>>

-----------------------------------------------------------------------------
(* Hashing (hashing.py).  SHA-256 is a constructor: equal digests have      *)
(* equal payloads, and no digest is the genesis hash.                       *)

GENESIS_HASH == [sha256 |-> [sequence_num |-> 0]]

\* datetime.isoformat: the instant as written in one UTC offset.  A datetime
\* without an offset is first moved to the server's time zone.
iso(instant, offset) ==
  [instant |-> instant, offset |-> IF offset = Naive THEN LocalOffset ELSE offset]

build_canonical_payload(sequence_num, body, instant, offset, prev_hash) ==
  [sequence_num |-> sequence_num, body |-> body,
   occurred_at |-> iso(instant, offset), prev_hash |-> prev_hash]

compute_record_hash(payload) == [sha256 |-> payload]

-----------------------------------------------------------------------------
(* Rows, as they are read back.  occurred_at is a timestamptz column: the   *)
(* instant survives, the offset it was written with does not; the JSONB     *)
(* columns do as Jsonb says.  The hash is that of the event as it came.     *)

\* Fault: received_at taken from the client instead of the server's clock.
LedgerEventReceivedAsReported(head, event, received_at) ==
  LET sequence_num == head.last_sequence_num + 1 IN
  [sequence_num |-> sequence_num, body |-> Jsonb[event.body], aux |-> event.aux,
   occurred_at |-> event.instant, received_at |-> event.instant, prev_hash |-> head.last_hash,
   record_hash |-> compute_record_hash(build_canonical_payload(
                     sequence_num, event.body, event.instant, event.offset, head.last_hash))]

\* Fault: the write path hashes received_at where verify.py reads occurred_at.
LedgerEventHashesReceipt(head, event, received_at) ==
  LET sequence_num == head.last_sequence_num + 1 IN
  [sequence_num |-> sequence_num, body |-> Jsonb[event.body], aux |-> event.aux,
   occurred_at |-> event.instant, received_at |-> received_at, prev_hash |-> head.last_hash,
   record_hash |-> compute_record_hash(build_canonical_payload(
                     sequence_num, event.body, received_at, event.offset, head.last_hash))]

LedgerEvent(head, event, received_at) ==
  LET sequence_num == head.last_sequence_num + 1 IN
  [sequence_num |-> sequence_num,
   body         |-> Jsonb[event.body],
   aux          |-> event.aux,
   occurred_at  |-> event.instant,
   received_at  |-> received_at,
   prev_hash    |-> head.last_hash,
   record_hash  |-> compute_record_hash(build_canonical_payload(
                      sequence_num, event.body, event.instant, event.offset,
                      head.last_hash))]

Genesis == [last_sequence_num |-> 0, last_hash |-> GENESIS_HASH]

Init ==
  /\ events = {}
  /\ chain_head = Genesis
  /\ lockHolder = NoWriter
  /\ phase = [w \in Writers |-> "idle"]
  /\ request = [w \in Writers |-> <<>>]
  /\ cursor = [w \in Writers |-> 1]
  /\ pending = [w \in Writers |-> {}]
  /\ txHead = [w \in Writers |-> Genesis]
  /\ acks = {}
  /\ clock = 0

-----------------------------------------------------------------------------
(* One request.                                                            *)

\* A request arrives with its events, already validated by EventCreate.
Begin(w, batch) ==
  /\ phase[w] = "idle"
  /\ chain_head.last_sequence_num < MaxSequence
  /\ phase' = [phase EXCEPT ![w] = "selecting"]
  /\ request' = [request EXCEPT ![w] = batch]
  /\ UNCHANGED <<events, chain_head, lockHolder, cursor, pending, txHead, acks, clock>>

\* Fault: a plain SELECT of chain_head, without FOR UPDATE.
SelectHeadWithoutLock(w) ==
  /\ phase[w] = "selecting"
  /\ lockHolder' = w
  /\ txHead' = [txHead EXCEPT ![w] = IF pending[w] = {} THEN chain_head ELSE @]
  /\ phase' = [phase EXCEPT ![w] = "locked"]
  /\ UNCHANGED <<events, chain_head, request, cursor, pending, acks, clock>>

\* append_event: SELECT chain_head FOR UPDATE.  It waits for the row lock and
\* then returns the newest committed head, or the transaction's own when this
\* transaction has already advanced it.
SelectHeadForUpdate(w) ==
  /\ phase[w] = "selecting"
  /\ lockHolder \in {NoWriter, w}
  /\ lockHolder' = w
  /\ txHead' = [txHead EXCEPT ![w] = IF pending[w] = {} THEN chain_head ELSE @]
  /\ phase' = [phase EXCEPT ![w] = "locked"]
  /\ UNCHANGED <<events, chain_head, request, cursor, pending, acks, clock>>

\* append_event, the rest: number and hash the event, INSERT and flush the
\* row, advance the session's head; append_batch then goes on to the next
\* event of the request.
InsertRow(w) ==
  LET row == LedgerEvent(txHead[w], request[w][cursor[w]], clock) IN
  /\ phase[w] = "locked"
  /\ pending' = [pending EXCEPT ![w] = @ \cup {row}]
  /\ cursor' = [cursor EXCEPT ![w] = @ + 1]
  /\ txHead' = [txHead EXCEPT ![w] = [last_sequence_num |-> row.sequence_num,
                                      last_hash |-> row.record_hash]]
  /\ phase' = [phase EXCEPT ![w] = IF cursor[w] = Len(request[w])
                                   THEN "appended" ELSE "selecting"]
  /\ UNCHANGED <<events, chain_head, lockHolder, request, acks, clock>>

\* Fault: the rows are acknowledged though their INSERT is not committed.
CommitWithoutRows(w) ==
  /\ phase[w] = "appended"
  /\ chain_head' = txHead[w]
  /\ lockHolder' = NoWriter
  /\ phase' = [phase EXCEPT ![w] = "committed"]
  /\ UNCHANGED <<events, request, cursor, pending, txHead, acks, clock>>

\* db.commit(): the pending UPDATE of chain_head is flushed and everything the
\* transaction wrote becomes visible at once; the row lock is released.
Commit(w) ==
  /\ phase[w] = "appended"
  /\ events' = events \cup pending[w]
  /\ chain_head' = txHead[w]
  /\ lockHolder' = NoWriter
  /\ phase' = [phase EXCEPT ![w] = "committed"]
  /\ UNCHANGED <<request, cursor, pending, txHead, acks, clock>>

\* The end of a request: get_db closes its session.
CloseSession(w) ==
  /\ phase' = [phase EXCEPT ![w] = "idle"]
  /\ request' = [request EXCEPT ![w] = <<>>]
  /\ cursor' = [cursor EXCEPT ![w] = 1]
  /\ pending' = [pending EXCEPT ![w] = {}]

\* The response leaves with one EventAck per row, built from the row objects.
Respond(w) ==
  /\ phase[w] = "committed"
  /\ acks' = acks \cup {[sequence_num |-> r.sequence_num, record_hash |-> r.record_hash] :
                          r \in pending[w]}
  /\ CloseSession(w)
  /\ UNCHANGED <<events, chain_head, lockHolder, txHead, clock>>

\* The process dies or the client is gone after the commit: no ack, the rows stay.
LoseResponse(w) ==
  /\ phase[w] = "committed"
  /\ CloseSession(w)
  /\ UNCHANGED <<events, chain_head, lockHolder, txHead, acks, clock>>

\* Faults: the batch position survives the request; what was flushed before the
\* error is committed; the lock is not released.
RollbackKeepsCursor(w) ==
  /\ phase[w] \in {"selecting", "locked", "appended"}
  /\ lockHolder' = IF lockHolder = w THEN NoWriter ELSE lockHolder
  /\ phase' = [phase EXCEPT ![w] = "idle"]
  /\ request' = [request EXCEPT ![w] = <<>>]
  /\ pending' = [pending EXCEPT ![w] = {}]
  /\ UNCHANGED <<events, chain_head, cursor, txHead, acks, clock>>

RollbackKeepsRows(w) ==
  /\ phase[w] \in {"selecting", "locked", "appended"}
  /\ lockHolder' = IF lockHolder = w THEN NoWriter ELSE lockHolder
  /\ events' = events \cup pending[w]
  /\ chain_head' = IF pending[w] = {} THEN chain_head ELSE txHead[w]
  /\ CloseSession(w)
  /\ UNCHANGED <<txHead, acks, clock>>

RollbackKeepsLock(w) ==
  /\ phase[w] \in {"selecting", "locked", "appended"}
  /\ CloseSession(w)
  /\ UNCHANGED <<events, chain_head, lockHolder, txHead, acks, clock>>

\* Any exception before the commit, a dropped connection or a crash: the
\* transaction is rolled back, its rows vanish, its lock is released.
Rollback(w) ==
  /\ phase[w] \in {"selecting", "locked", "appended"}
  /\ lockHolder' = IF lockHolder = w THEN NoWriter ELSE lockHolder
  /\ CloseSession(w)
  /\ UNCHANGED <<events, chain_head, txHead, acks, clock>>

\* datetime.now(timezone.utc), on one host, does not run backwards.
Tick ==
  /\ clock < MaxClock
  /\ clock' = clock + 1
  /\ UNCHANGED <<events, chain_head, lockHolder, phase, request, cursor, pending, txHead, acks>>

\* The bounds are reached and nobody is busy: the model, not the program, rests.
AtBound ==
  /\ \A w \in Writers : phase[w] = "idle"
  /\ chain_head.last_sequence_num >= MaxSequence
  /\ clock = MaxClock
  /\ UNCHANGED vars

WriterStep(w) ==
  \/ \E batch \in Batches : Begin(w, batch)
  \/ SelectHeadForUpdate(w)
  \/ InsertRow(w)
  \/ Commit(w)
  \/ Respond(w)
  \/ LoseResponse(w)
  \/ Rollback(w)

Next == (\E w \in Writers : WriterStep(w)) \/ Tick \/ AtBound

Spec == Init /\ [][Next]_vars

\* A request keeps running until it has answered; PostgreSQL queues waiters for
\* a row lock, so a waiting SELECT FOR UPDATE is not overtaken forever.
Fairness ==
  \A w \in Writers :
    /\ SF_vars(SelectHeadForUpdate(w))
    /\ WF_vars(InsertRow(w))
    /\ WF_vars(Commit(w))
    /\ WF_vars(Respond(w))

FairSpec == Spec /\ Fairness

-----------------------------------------------------------------------------
(* verify_chain (verify.py) over one snapshot of the table.                *)

\* The row the loop visits just before r, when rows are in sequence order.
Predecessors(rows, r) == {q \in rows : q.sequence_num < r.sequence_num}
\* Fault: a row is only compared with the row numbered one less, if there is one.
ExpectedPrevHashIfAdjacent(rows, r) ==
  IF r.sequence_num = 1 THEN GENESIS_HASH
  ELSE IF \E q \in rows : q.sequence_num = r.sequence_num - 1
  THEN (CHOOSE q \in rows : q.sequence_num = r.sequence_num - 1).record_hash
  ELSE r.prev_hash

ExpectedPrevHash(rows, r) ==
  IF Predecessors(rows, r) = {} THEN GENESIS_HASH
  ELSE (CHOOSE q \in Predecessors(rows, r) :
          \A p \in Predecessors(rows, r) : p.sequence_num <= q.sequence_num).record_hash

\* The hash recomputed from the columns as they are read back.
RecomputedHash(r) ==
  compute_record_hash(build_canonical_payload(
    r.sequence_num, r.body, r.occurred_at, UTC, r.prev_hash))

\* The divergences of the report; report.ok is that there are none.
verify_chain(rows) ==
  {[sequence_num |-> r.sequence_num, field |-> "prev_hash"] :
     r \in {q \in rows : q.prev_hash # ExpectedPrevHash(rows, q)}}
  \cup
  {[sequence_num |-> r.sequence_num, field |-> "record_hash"] :
     r \in {q \in rows : RecomputedHash(q) # q.record_hash}}

-----------------------------------------------------------------------------
(* Properties.                                                             *)

Phase == {"idle", "selecting", "locked", "appended", "committed"}

\* Every variable keeps its shape: the lock belongs to at most one request, and
\* append_batch's loop never runs past the end of its request.
TypeOK ==
  /\ \A r \in events : r.sequence_num \in Nat /\ r.received_at \in Nat
  /\ chain_head.last_sequence_num \in Nat
  /\ lockHolder \in Writers \cup {NoWriter}
  /\ phase \in [Writers -> Phase]
  /\ request \in [Writers -> Batches \cup {<<>>}]
  /\ cursor \in [Writers -> Nat \ {0}]
  /\ \A w \in Writers : cursor[w] <= Len(request[w]) + 1
  /\ DOMAIN pending = Writers
  /\ \A w \in Writers : \A r \in pending[w] :
       r.sequence_num \in Nat /\ r.received_at \in Nat
  /\ DOMAIN txHead = Writers
  /\ \A w \in Writers : txHead[w].last_sequence_num \in Nat
  /\ clock \in Nat

\* rows form one unbroken chain from the genesis hash to head: numbered 1, 2, ...
\* without gap or repetition, each row's prev_hash the record_hash of the row
\* before it, the last one the row head points to.
ChainOf(rows, head) ==
  /\ \A r \in rows : r.sequence_num \in 1..head.last_sequence_num
  /\ \A n \in 1..head.last_sequence_num : \E r \in rows : r.sequence_num = n
  /\ \A r, q \in rows : r.sequence_num = q.sequence_num => r = q
  /\ \A r \in rows : r.sequence_num = 1 => r.prev_hash = GENESIS_HASH
  /\ \A r, q \in rows : q.sequence_num = r.sequence_num + 1 => q.prev_hash = r.record_hash
  /\ \A r \in rows : r.sequence_num = head.last_sequence_num => r.record_hash = head.last_hash
  /\ head.last_sequence_num = 0 => head.last_hash = GENESIS_HASH

\* The committed ledger is one unbroken chain ending at the committed
\* chain_head, whatever the interleaving of appends, commits and rollbacks
\* ("strictly serial appends", append.py).
ChainIntact == ChainOf(events, chain_head)

\* received_at, stamped by append_event while it holds the lock, never runs
\* against the order of sequence_num.
ReceivedInOrder ==
  \A r, q \in events : r.sequence_num < q.sequence_num => r.received_at <= q.received_at

\* Whatever EventAck a client was given names a committed row, number and hash.
AcksDurable ==
  \A a \in acks : \E r \in events :
    r.sequence_num = a.sequence_num /\ r.record_hash = a.record_hash

\* The submitted content of a row or of an event, as the columns keep it: without
\* the offset of its timestamp, and its body through JSONB.
Content(e) == [body |-> Jsonb[e.body], aux |-> e.aux, instant |-> e.instant]
RowContent(r) == [body |-> r.body, aux |-> r.aux, instant |-> r.occurred_at]

\* What was hashed of the event is what its row is read back as.
Survives(e) == Jsonb[e.body] = e.body /\ iso(e.instant, e.offset) = iso(e.instant, UTC)

\* verify_chain, run at any moment against rows nobody has touched, finds every
\* link in order, and whatever record_hash it reports is that of an event the
\* columns do not keep as it came: write path and verify path agree on the rest.
DivergencesExplained ==
  \A d \in verify_chain(events) :
    /\ d.field = "record_hash"
    /\ \E r \in events, batch \in Batches : \E i \in DOMAIN batch :
         /\ r.sequence_num = d.sequence_num
         /\ RowContent(r) = Content(batch[i]) /\ ~Survives(batch[i])

\* A ledger nobody has touched verifies as intact ("the write path and the verify
\* path can never silently drift apart", hashing.py).
VerifiesClean == verify_chain(events) = {}

LogOf(rows, n) ==
  [i \in 1..n |-> RowContent(CHOOSE r \in rows : r.sequence_num = i)]

Log == INSTANCE AppendOnlyLog WITH
  Batches <- {[i \in DOMAIN b |-> Content(b[i])] : b \in Batches},
  log <- LogOf(events, chain_head.last_sequence_num)

\* The ledger implements the append-only log: each step leaves it alone or adds
\* exactly one whole request at its end (append_batch's "All-or-nothing").
ImplementsLog == Log!Spec

\* Every request that starts is eventually over: no request waits for the
\* chain_head lock for ever.
RequestsFinish == \A w \in Writers : phase[w] = "selecting" ~> phase[w] = "idle"

\* Who holds the lock, and what its transaction has built so far: the
\* strengthening that makes ChainIntact inductive.
LockDiscipline ==
  \A w \in Writers :
    /\ phase[w] \in {"locked", "appended"} => lockHolder = w
    /\ lockHolder = w => phase[w] \in {"selecting", "locked", "appended"}
    /\ phase[w] = "selecting" /\ lockHolder # w => pending[w] = {}
    /\ phase[w] = "selecting" /\ lockHolder = w => pending[w] # {}
    /\ phase[w] = "idle" => pending[w] = {} /\ cursor[w] = 1
    /\ phase[w] \in {"selecting", "locked"} => cursor[w] <= Len(request[w])

\* The lock holder's transaction always extends the committed chain, so
\* committing it at any complete point keeps the chain unbroken.
TransactionExtendsChain ==
  \A w \in Writers : lockHolder = w => ChainOf(events \cup pending[w], txHead[w])

\* received_at is stamped under the lock from a clock that has passed every
\* earlier row, committed or still pending in the holder's transaction.
ReceiptsOrdered(rows) ==
  /\ \A r \in rows : r.received_at <= clock
  /\ \A r, q \in rows : r.sequence_num < q.sequence_num => r.received_at <= q.received_at

StampedUnderLock ==
  /\ ReceiptsOrdered(events)
  /\ \A w \in Writers : lockHolder = w => ReceiptsOrdered(events \cup pending[w])

\* The row objects an answer is built from have been committed.
AnswersCommitted ==
  \A w \in Writers : phase[w] = "committed" => pending[w] \subseteq events

\* Row r was written for event e: it keeps e's content and has its hash.
WrittenFor(r, e) ==
  /\ RowContent(r) = Content(e)
  /\ r.record_hash = compute_record_hash(build_canonical_payload(
                       r.sequence_num, e.body, e.instant, e.offset, r.prev_hash))

\* Every row, pending or committed, was written for an event of some request.
RowsHashed ==
  /\ \A r \in events : \E batch \in Batches : \E i \in DOMAIN batch : WrittenFor(r, batch[i])
  /\ \A w \in Writers : \A r \in pending[w] :
       \E batch \in Batches : \E i \in DOMAIN batch : WrittenFor(r, batch[i])
=============================================================================
