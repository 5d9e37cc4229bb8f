----------------------- MODULE LedgerStorageEditsProofs -----------------------
(***************************************************************************)
(* What a clean verify_chain is worth when rows of ledger.events may have  *)
(* been edited, added or deleted underneath the application.  The rows as  *)
(* append_event committed them behave as the ledger does (Original),       *)
(* whatever was done to the stored ones, so its theorems hold of them.     *)
(***************************************************************************)
EXTENDS LedgerStorageEdits, WellFoundedInduction, TLAPS

Original == INSTANCE LedgerProofs WITH events <- written

\* All that is known of the stored rows: their numbers differ, and their bodies
\* are ones JSONB gives back.
EditsTracked ==
  /\ UniqueNumbers
  /\ \A r \in events : r.sequence_num \in Int /\ Jsonb[r.body] = r.body
  /\ \A w \in Writers : \A r \in pending[w] : Jsonb[r.body] = r.body

EditInv == Original!IndInv /\ EditsTracked

(* The largest of some numbers bounded above: the row visited just before.   *)
LEMMA LargestOf ==
  ASSUME NEW N \in Int, NEW T, T \subseteq Int, \A p \in T : p <= N, T # {}
  PROVE  \E m \in T : \A p \in T : p <= m
<1> DEFINE below == OpToRel(<, Nat)
           gaps == {N - p : p \in T}
<1>1. gaps \subseteq Nat /\ gaps # {}
  <2>1. \A p \in T : N - p \in Nat
    OBVIOUS
  <2> QED BY <2>1
<1>2. IsWellFoundedOn(below, Nat)
  BY NatLessThanWellFounded, Zenon
<1>3. \A x, y \in Nat : y < x => <<y, x>> \in below
  BY DEF OpToRel
<1> HIDE DEF below
<1>4. PICK x \in gaps : \A y \in gaps : ~(<<y, x>> \in below)
  <2> HIDE DEF gaps
  <2> QED BY <1>1, <1>2, WFMin
<1>5. \A y \in gaps : ~(y < x)
  BY <1>1, <1>3, <1>4
<1>6. PICK m \in T : x = N - m
  OBVIOUS
<1>7. ASSUME NEW p \in T PROVE p <= m
  <2>1. ~(N - p < N - m) /\ p \in Int /\ m \in Int
    BY <1>5, <1>6
  <2> QED BY <2>1
<1> QED BY <1>7

(* The rows as they were written behave as the ledger does.                  *)
LEMMA OriginalStep == EditInv /\ [EditNext]_editVars => [Original!Next]_(Original!vars)
<1> SUFFICES ASSUME EditInv, [EditNext]_editVars PROVE Original!Next \/ UNCHANGED Original!vars
  OBVIOUS
<1>1. CASE UNCHANGED editVars
  BY <1>1 DEF editVars, vars, Original!vars
<1>2. CASE EditRow \/ DeleteRow
  BY <1>2 DEF EditRow, DeleteRow, StoreRows, Original!vars
<1>3. CASE AppStep
  <2>1. Next /\ written' = written \cup (events' \ events)
    BY <1>3 DEF AppStep
  <2>2. ASSUME NEW w \in Writers, Commit(w) PROVE Original!Commit(w)
    <3>1. lockHolder = w
      BY <2>2 DEF Commit, EditInv, Original!IndInv, Original!LockDiscipline
    <3>2. pending[w] \cap events = {}
      BY <3>1 DEF EditInv, EditsTracked, UniqueNumbers
    <3>3. written' = written \cup pending[w]
      BY <2>1, <2>2, <3>2 DEF Commit
    <3> QED BY <2>2, <3>3 DEF Commit, Original!Commit
  <2>3. ASSUME events' = events PROVE written' = written
    BY <2>1, <2>3
  <2>4. ASSUME NEW w \in Writers, NEW batch \in Batches, Begin(w, batch) PROVE Original!Begin(w, batch)
    BY <2>3, <2>4 DEF Begin, Original!Begin
  <2>5. ASSUME NEW w \in Writers, SelectHeadForUpdate(w) PROVE Original!SelectHeadForUpdate(w)
    BY <2>3, <2>5 DEF SelectHeadForUpdate, Original!SelectHeadForUpdate
  <2>6. ASSUME NEW w \in Writers, InsertRow(w) PROVE Original!InsertRow(w)
    BY <2>3, <2>6 DEF InsertRow, Original!InsertRow, LedgerEvent, Original!LedgerEvent,
                      compute_record_hash, Original!compute_record_hash, iso, Original!iso,
                      build_canonical_payload, Original!build_canonical_payload
  <2>7. ASSUME NEW w \in Writers, Respond(w) \/ LoseResponse(w) \/ Rollback(w)
        PROVE  Original!Respond(w) \/ Original!LoseResponse(w) \/ Original!Rollback(w)
    BY <2>3, <2>7 DEF Respond, LoseResponse, Rollback, CloseSession, Original!Respond,
                      Original!LoseResponse, Original!Rollback, Original!CloseSession
  <2>8. CASE Tick \/ AtBound
    BY <2>3, <2>8 DEF Tick, AtBound, vars, Original!Tick, Original!vars, Original!Next
  <2> QED BY <2>1, <2>2, <2>4, <2>5, <2>6, <2>7, <2>8 DEF Next, WriterStep, Original!Next, Original!WriterStep
<1> QED BY <1>1, <1>2, <1>3 DEF EditNext

(* Edits and appends keep the numbers apart and the bodies as JSONB gives    *)
(* them back.                                                                *)
LEMMA StepEditsTracked == EditInv /\ [EditNext]_editVars => EditsTracked'
<1> SUFFICES ASSUME EditInv, [EditNext]_editVars PROVE EditsTracked'
  OBVIOUS
<1> DEFINE Readable(r) == Jsonb[r.body] = r.body
<1>0. DOMAIN pending = Writers
  BY DEF EditInv, Original!IndInv, Original!TypeOK
<1>1. CASE UNCHANGED editVars
  BY <1>1 DEF editVars, vars, EditInv, EditsTracked, UniqueNumbers
<1>2. CASE DeleteRow
  BY <1>2 DEF DeleteRow, StoreRows, EditInv, EditsTracked
<1>3. CASE EditRow
  <2>0. PICK n \in Numbers, body \in {Jsonb[b] : b \in Body}, aux \in Aux, instant \in Instant :
          \E replaced, prev_hash, record_hash : StoreRows((events \ replaced) \cup
            {[sequence_num |-> n, body |-> body, aux |-> aux, occurred_at |-> instant,
              received_at |-> clock, prev_hash |-> prev_hash, record_hash |-> record_hash]})
    BY <1>3 DEF EditRow
  <2>1. PICK replaced, prev_hash, record_hash :
          StoreRows((events \ replaced) \cup
            {[sequence_num |-> n, body |-> body, aux |-> aux, occurred_at |-> instant,
              received_at |-> clock, prev_hash |-> prev_hash, record_hash |-> record_hash]})
    BY <2>0
  <2> DEFINE row == [sequence_num |-> n, body |-> body, aux |-> aux, occurred_at |-> instant,
                     received_at |-> clock, prev_hash |-> prev_hash, record_hash |-> record_hash]
  <2>2. row.sequence_num \in Int /\ Readable(row)
    BY EditsAssumption, JsonbAssumption
  <2>3. events' = (events \ replaced) \cup {row} /\ UniqueNumbers' /\ UNCHANGED pending
    BY <2>1 DEF StoreRows
  <2> HIDE DEF row
  <2> QED BY <2>2, <2>3 DEF EditInv, EditsTracked
<1>4. CASE AppStep
  <2>1. Next /\ UniqueNumbers'
    BY <1>4 DEF AppStep
  <2>2. ASSUME NEW w \in Writers, Commit(w) PROVE EditsTracked'
    <3>1. events' = events \cup pending[w] /\ UNCHANGED pending
      BY <2>2 DEF Commit
    <3>2. \A r \in pending[w] : r.sequence_num \in Int
      BY DEF EditInv, Original!IndInv, Original!TypeOK
    <3> QED BY <2>1, <3>1, <3>2 DEF EditInv, EditsTracked
  <2>3. ASSUME NEW w \in Writers, InsertRow(w) PROVE EditsTracked'
    <3> DEFINE e == request[w][cursor[w]]
               row == LedgerEvent(txHead[w], e, clock)
    <3>1. e \in Event
      <4>1. phase[w] = "locked" /\ request[w] \in Batches \cup {<<>>} /\ cursor[w] \in Nat \ {0}
        BY <2>3 DEF InsertRow, EditInv, Original!IndInv, Original!TypeOK
      <4>2. cursor[w] <= Len(request[w])
        BY <4>1 DEF EditInv, Original!IndInv, Original!LockDiscipline
      <4>3. request[w] # <<>>
        BY <4>1, <4>2
      <4>4. request[w] \in Seq(Event)
        BY <4>1, <4>3, BatchesAssumption
      <4> QED BY <4>1, <4>2, <4>4
    <3>2. Readable(row)
      BY <3>1, JsonbAssumption DEF LedgerEvent, Event
    <3>3. UNCHANGED events /\ pending' = [pending EXCEPT ![w] = @ \cup {row}]
      BY <2>3 DEF InsertRow
    <3> HIDE DEF row
    <3> QED BY <1>0, <2>1, <3>2, <3>3 DEF EditInv, EditsTracked
  <2>4. ASSUME UNCHANGED events, \A w \in Writers : pending'[w] \subseteq pending[w] PROVE EditsTracked'
    BY <2>1, <2>4 DEF EditInv, EditsTracked
  <2>5. ASSUME NEW w \in Writers, Respond(w) \/ LoseResponse(w) \/ Rollback(w) PROVE EditsTracked'
    BY <1>0, <2>4, <2>5 DEF Respond, LoseResponse, Rollback, CloseSession
  <2>6. ASSUME NEW w \in Writers, NEW batch \in Batches, Begin(w, batch)
        PROVE  EditsTracked'
    BY <2>4, <2>6 DEF Begin
  <2>7. ASSUME NEW w \in Writers, SelectHeadForUpdate(w) PROVE EditsTracked'
    BY <2>4, <2>7 DEF SelectHeadForUpdate
  <2>8. CASE Tick \/ AtBound
    BY <2>4, <2>8 DEF Tick, AtBound, vars
  <2> QED BY <2>1, <2>2, <2>3, <2>5, <2>6, <2>7, <2>8 DEF Next, WriterStep
<1> QED BY <1>1, <1>2, <1>3, <1>4 DEF EditNext

(* The constants of the history are the ledger's.                            *)
LEMMA OriginalAssumptions ==
  /\ Original!JsonbAssumption /\ Original!WritersAssumption
  /\ Original!BatchesAssumption /\ Original!BoundsAssumption
BY JsonbAssumption, WritersAssumption, BatchesAssumption, BoundsAssumption
   DEF Original!JsonbAssumption, Original!WritersAssumption, Original!BatchesAssumption, Original!BoundsAssumption, Event, Original!Event

(* Whatever is done to the stored rows, the rows as they were written form   *)
(* the ledger's history.                                                     *)
THEOREM EditsLeaveHistory == EditSpec => Original!Spec /\ []EditInv
<1>1. EditInit => Original!Init
  BY DEF EditInit, Init, Original!Init, Genesis, Original!Genesis, GENESIS_HASH, Original!GENESIS_HASH
<1>2. EditInit => EditInv
  <2> SUFFICES ASSUME EditInit PROVE EditInv
    OBVIOUS
  <2>1. Original!IndInv
    BY <1>1, OriginalAssumptions, Original!InitIndInv
  <2>2. EditsTracked
    BY DEF EditInit, Init, EditsTracked, UniqueNumbers
  <2> QED BY <2>1, <2>2 DEF EditInv
<1>3. EditInv /\ [EditNext]_editVars => EditInv'
  <2> SUFFICES ASSUME EditInv, [EditNext]_editVars PROVE EditInv'
    OBVIOUS
  <2>1. [Original!Next]_(Original!vars)
    BY OriginalStep
  <2>2. Original!IndInv'
    BY <2>1, OriginalAssumptions, Original!StepIndInv DEF EditInv
  <2> QED BY <2>2, StepEditsTracked DEF EditInv
<1>4. EditInv /\ [EditNext]_editVars => [Original!Next]_(Original!vars)
  BY OriginalStep
<1> QED BY <1>1, <1>2, <1>3, <1>4, PTL DEF EditSpec, Original!Spec

-----------------------------------------------------------------------------
\* verify_chain reports nothing of row r.
Clean(r) == RecomputedHash(r) = r.record_hash /\ r.prev_hash = ExpectedPrevHash(events, r)

(* No row hashes to the genesis hash.                                        *)
LEMMA NoHashIsGenesis ==
  ASSUME NEW sequence_num, NEW body, NEW instant, NEW offset, NEW prev_hash
  PROVE  compute_record_hash(build_canonical_payload(sequence_num, body, instant, offset, prev_hash)) # GENESIS_HASH
<1> DEFINE payload == build_canonical_payload(sequence_num, body, instant, offset, prev_hash)
           genesis == [sequence_num |-> 0]
<1>1. "body" \in DOMAIN payload /\ "body" \notin DOMAIN genesis
  BY DEF build_canonical_payload
<1>2. payload # genesis
  BY <1>1
<1> HIDE DEF payload, genesis
<1>3. [sha256 |-> payload] # [sha256 |-> genesis]
  <2>1. [sha256 |-> payload].sha256 = payload /\ [sha256 |-> genesis].sha256 = genesis
    OBVIOUS
  <2> QED BY <1>2, <2>1
<1> QED BY <1>3 DEF compute_record_hash, GENESIS_HASH, payload, genesis

(* A row that has the record_hash of a written one, and hashes to it, has    *)
(* its hashed columns.                                                       *)
LEMMA HashNamesRow ==
  ASSUME EditInv, Original!RowsHashed, NEW r \in events, NEW w \in written,
         r.record_hash = w.record_hash, RecomputedHash(r) = r.record_hash
  PROVE  HashedColumns(r) = HashedColumns(w) /\ r.sequence_num = w.sequence_num
<1>1. PICK batch \in Batches : \E i \in DOMAIN batch : Original!WrittenFor(w, batch[i])
  BY DEF Original!RowsHashed
<1>2. PICK e : Original!WrittenFor(w, e)
  BY <1>1
<1>3. w.body = Jsonb[e.body] /\ w.occurred_at = e.instant
  BY <1>2 DEF Original!WrittenFor, Original!RowContent, Original!Content
<1>4. w.record_hash = compute_record_hash(build_canonical_payload(
                        w.sequence_num, e.body, e.instant, e.offset, w.prev_hash))
  BY <1>2 DEF Original!WrittenFor, compute_record_hash, build_canonical_payload, iso,
              Original!compute_record_hash, Original!build_canonical_payload, Original!iso
<1>5. build_canonical_payload(r.sequence_num, r.body, r.occurred_at, UTC, r.prev_hash)
        = build_canonical_payload(w.sequence_num, e.body, e.instant, e.offset, w.prev_hash)
  BY <1>4 DEF RecomputedHash, compute_record_hash
<1>6. r.sequence_num = w.sequence_num /\ r.body = e.body /\ r.prev_hash = w.prev_hash
      /\ iso(r.occurred_at, UTC) = iso(e.instant, e.offset)
  BY <1>5 DEF build_canonical_payload
<1>7. r.occurred_at = e.instant
  BY <1>6 DEF iso
<1>8. r.body = w.body
  BY <1>3, <1>6 DEF EditInv, EditsTracked
<1> QED BY <1>3, <1>6, <1>7, <1>8 DEF HashedColumns

(* A clean row links to the row before it, or to the genesis hash if there   *)
(* is none.                                                                  *)
LEMMA CleanRowLinks ==
  ASSUME EditInv, NEW r \in events, Clean(r), Predecessors(events, r) # {}
  PROVE  \E p \in events : p.sequence_num < r.sequence_num /\ p.record_hash = r.prev_hash
<1> DEFINE before == Predecessors(events, r)
           Last(q) == \A p \in before : p.sequence_num <= q.sequence_num
           numbers == {p.sequence_num : p \in before}
<1>1. r.sequence_num \in Int /\ numbers \subseteq Int /\ numbers # {} /\ \A n \in numbers : n <= r.sequence_num
  BY DEF EditInv, EditsTracked, Predecessors
<1>2. \E m \in numbers : \A n \in numbers : n <= m
  <2> HIDE DEF numbers
  <2> QED BY <1>1, LargestOf
<1>3. \E o \in before : Last(o)
  BY <1>2
<1>4. PICK o \in before : o = CHOOSE p \in before : Last(p)
  BY <1>3
<1>5. r.prev_hash = o.record_hash
  BY <1>4 DEF Clean, ExpectedPrevHash
<1> QED BY <1>5 DEF Predecessors

(* Back from a written hash, along rows verify_chain finds clean, every      *)
(* written row is met.                                                       *)
LEMMA NoRowMissing ==
  ASSUME EditInv, Original!RowsHashed, NEW r \in events, NEW w \in written,
         r.record_hash = w.record_hash,
         \A q \in events : q.sequence_num <= r.sequence_num => Clean(q)
  PROVE  \A n \in 1 .. w.sequence_num : \E q \in events, v \in written :
           v.sequence_num = n /\ q.record_hash = v.record_hash /\ HashedColumns(q) = HashedColumns(v)
                              /\ q.sequence_num = n
<1> DEFINE N == w.sequence_num
           Met(n) == \E q \in events, v \in written :
                       v.sequence_num = n /\ q.record_hash = v.record_hash /\ HashedColumns(q) = HashedColumns(v)
                                          /\ q.sequence_num = n
           missing == {n \in 1 .. N : ~Met(n)}
<1>1. Original!ChainOf(written, chain_head) /\ chain_head.last_sequence_num \in Nat
  BY DEF EditInv, Original!IndInv, Original!TypeOK, Original!ChainIntact
<1>2. N \in 1 .. chain_head.last_sequence_num
  BY <1>1 DEF Original!ChainOf
<1>3. r.sequence_num \in Int /\ Clean(r)
  BY DEF EditInv, EditsTracked
<1>4. Met(N) /\ r.sequence_num = N
  BY <1>3, HashNamesRow DEF Clean
<1>5. ASSUME missing # {} PROVE FALSE
  <2>1. missing \subseteq Int /\ (\A n \in missing : n <= N) /\ N \in Int
    BY <1>2
  <2>2. PICK m \in missing : \A n \in missing : n <= m
    <3> HIDE DEF missing
    <3> QED BY <1>5, <2>1, LargestOf
  <2>3. m \in 1 .. N /\ m # N
    BY <1>4, <2>2
  <2>4. m + 1 \in 1 .. N /\ ~(m + 1 <= m)
    BY <1>2, <2>3
  <2>5. Met(m + 1)
    BY <2>2, <2>4
  <2>6. PICK q \in events, v \in written :
          v.sequence_num = m + 1 /\ HashedColumns(q) = HashedColumns(v) /\ q.sequence_num = m + 1
    BY <2>5
  <2>7. PICK u \in written : u.sequence_num = m
    BY <1>1, <1>2, <2>3 DEF Original!ChainOf
  <2>8. q.prev_hash = u.record_hash
    BY <1>1, <2>6, <2>7 DEF Original!ChainOf, HashedColumns
  <2>9. Clean(q)
    BY <1>4, <2>4, <2>6
  <2>10. u.record_hash # GENESIS_HASH
    <3>1. PICK batch \in Batches : \E i \in DOMAIN batch : Original!WrittenFor(u, batch[i])
      BY DEF Original!RowsHashed
    <3>2. PICK e : Original!WrittenFor(u, e)
      BY <3>1
    <3>3. u.record_hash = compute_record_hash(build_canonical_payload(
                            u.sequence_num, e.body, e.instant, e.offset, u.prev_hash))
      BY <3>2 DEF Original!WrittenFor, compute_record_hash, build_canonical_payload, iso,
                  Original!compute_record_hash, Original!build_canonical_payload, Original!iso
    <3> QED BY <3>3, NoHashIsGenesis
  <2>11. Predecessors(events, q) # {}
    BY <2>8, <2>9, <2>10 DEF Clean, ExpectedPrevHash
  <2>12. PICK p \in events : p.sequence_num < q.sequence_num /\ p.record_hash = u.record_hash
    BY <2>8, <2>9, <2>11, CleanRowLinks
  <2>13. p.sequence_num \in Int
    BY DEF EditInv, EditsTracked
  <2>14. p.sequence_num <= r.sequence_num
    BY <1>2, <1>4, <2>4, <2>6, <2>12, <2>13
  <2>15. RecomputedHash(p) = p.record_hash
    BY <2>14 DEF Clean
  <2>16. HashedColumns(p) = HashedColumns(u) /\ p.sequence_num = u.sequence_num
    BY <2>12, <2>15, HashNamesRow
  <2>17. Met(m)
    BY <2>7, <2>12, <2>16
  <2> QED BY <2>2, <2>17
<1> QED BY <1>5

(* Whoever edits, adds or deletes rows, and however many: a record_hash that *)
(* append_event has given out vouches for all of the ledger up to its row,   *)
(* if verify_chain reports nothing up to there.                              *)
THEOREM HashAlwaysVouches == EditSpec => []HashVouchesForPast
<1>1. EditInv /\ Original!RowsHashed => HashVouchesForPast
  <2> SUFFICES ASSUME EditInv, Original!RowsHashed, NEW r \in events, NEW w \in written,
                      r.record_hash = w.record_hash,
                      \A d \in verify_chain(events) : d.sequence_num > r.sequence_num
               PROVE  UpTo(events, r.sequence_num) = UpTo(written, w.sequence_num)
    BY DEF HashVouchesForPast
  <2> DEFINE N == w.sequence_num
             Met(n) == \E q \in events, v \in written :
                         v.sequence_num = n /\ q.record_hash = v.record_hash
                         /\ HashedColumns(q) = HashedColumns(v) /\ q.sequence_num = n
  <2>0. /\ \A q \in events : q.sequence_num \in Int
        /\ \A q, p \in events : q.sequence_num = p.sequence_num => q = p
    BY DEF EditInv, EditsTracked, UniqueNumbers
  <2>1. ASSUME NEW q \in events, q.sequence_num <= r.sequence_num PROVE Clean(q)
    <3>1. q.sequence_num \in Int /\ r.sequence_num \in Int
      BY <2>0
    <3>2. \A field : [sequence_num |-> q.sequence_num, field |-> field] \notin verify_chain(events)
      BY <2>1, <3>1
    <3> QED BY <3>2 DEF Clean, verify_chain
  <2>2. \A n \in 1 .. N : Met(n)
    BY <2>1, NoRowMissing
  <2>3. r.sequence_num = N
    BY <2>0, <2>1, HashNamesRow DEF Clean
  <2>4. Original!ChainOf(written, chain_head) /\ chain_head.last_sequence_num \in Nat
    BY DEF EditInv, Original!IndInv, Original!TypeOK, Original!ChainIntact
  <2>5. /\ N \in Nat /\ 1 \in 1 .. N
        /\ \A v \in written : v.sequence_num \in Int /\ v.sequence_num >= 1
        /\ \A v, u \in written : v.sequence_num = u.sequence_num => v = u
    BY <2>4 DEF Original!ChainOf
  <2>6. ASSUME NEW v \in written, v.sequence_num <= N
        PROVE  \E q \in events : q.sequence_num <= N /\ HashedColumns(q) = HashedColumns(v)
    <3>1. Met(v.sequence_num)
      BY <2>2, <2>5, <2>6
    <3> QED BY <2>5, <2>6, <3>1
  <2>7. ASSUME NEW q \in events, q.sequence_num <= N
        PROVE  \E v \in written : v.sequence_num <= N /\ HashedColumns(v) = HashedColumns(q)
    <3>1. CASE q.sequence_num >= 1
      <4>1. Met(q.sequence_num)
        BY <2>0, <2>2, <2>5, <2>7, <3>1
      <4> QED BY <2>0, <2>7, <4>1
    <3>2. CASE q.sequence_num < 1
      <4>1. PICK first \in events, v \in written :
              v.sequence_num = 1 /\ HashedColumns(first) = HashedColumns(v) /\ first.sequence_num = 1
        BY <2>2, <2>5
      <4>2. first.prev_hash = GENESIS_HASH
        BY <2>4, <4>1 DEF Original!ChainOf, HashedColumns, GENESIS_HASH, Original!GENESIS_HASH
      <4>3. Clean(first) /\ Predecessors(events, first) # {}
        BY <2>1, <2>3, <2>5, <3>2, <4>1 DEF Predecessors
      <4>4. PICK p \in events : p.sequence_num < first.sequence_num /\ p.record_hash = GENESIS_HASH
        BY <4>2, <4>3, CleanRowLinks
      <4>5. Clean(p)
        <5>1. p.sequence_num <= r.sequence_num
          BY <2>0, <2>3, <2>5, <4>1, <4>4
        <5> QED BY <2>1, <5>1
      <4> QED BY <4>4, <4>5, NoHashIsGenesis DEF Clean, RecomputedHash
    <3> QED BY <2>0, <3>1, <3>2
  <2> QED BY <2>3, <2>6, <2>7 DEF UpTo
<1>2. Original!Spec => []Original!RowsHashed
  BY OriginalAssumptions, Original!RowsAlwaysHashed
<1> QED BY <1>1, <1>2, EditsLeaveHistory, PTL
=============================================================================
