-------------------------- MODULE LedgerStorageEdits --------------------------
(***************************************************************************)
(* The ledger when rows change underneath it.  The application role cannot *)
(* UPDATE or DELETE ledger.events and triggers reject both (migration      *)
(* 0004); a database superuser can disable them.  README.md and            *)
(* tests/test_append_chain.py say what verify_chain then makes of it.      *)
(***************************************************************************)
EXTENDS Ledger

CONSTANTS
  Numbers,       \* bound: the sequence numbers an edit gives a row
  MaxEdits       \* bound on the edits

ASSUME EditsAssumption == Numbers \subseteq Int /\ MaxEdits \in Nat

VARIABLES
  written,       \* the rows as append_event committed them
  edits

editVars == <<vars, written, edits>>

EditInit == Init /\ written = {} /\ edits = 0

\* sequence_num is UNIQUE, for superusers too.  An append that finds its number
\* taken fails, and its transaction is rolled back.
UniqueNumbers ==
  /\ \A r, q \in events : r.sequence_num = q.sequence_num => r = q
  /\ \A w \in Writers : lockHolder = w =>
       \A r \in events, q \in pending[w] : r.sequence_num # q.sequence_num

\* The application's own steps; written records what they commit.
AppStep ==
  /\ Next /\ UniqueNumbers'
  /\ written' = written \cup (events' \ events)
  /\ UNCHANGED edits

StoreRows(rows) ==
  /\ edits < MaxEdits /\ edits' = edits + 1
  /\ events' = rows
  /\ UNCHANGED <<chain_head, lockHolder, phase, request, cursor, pending, txHead, acks, clock,
                 written>>
  /\ UniqueNumbers'

\* The hashes an edit copies from elsewhere.
Digests == {GENESIS_HASH} \cup {q.record_hash : q \in written \cup events}

\* An UPDATE of any columns of a row, or an INSERT of another one: record_hash is
\* copied from some row, left as it is, or computed anew over the new columns.
EditRow ==
  \E replaced \in {{}} \cup {{r} : r \in events} :
  \E n \in Numbers, body \in {Jsonb[b] : b \in Body}, aux \in Aux, instant \in Instant,
     prev_hash \in Digests :
  \E record_hash \in Digests \cup {compute_record_hash(build_canonical_payload(
                                     n, body, instant, UTC, prev_hash))} :
    StoreRows((events \ replaced) \cup
      {[sequence_num |-> n, body |-> body, aux |-> aux, occurred_at |-> instant,
        received_at |-> clock, prev_hash |-> prev_hash, record_hash |-> record_hash]})

DeleteRow == \E r \in events : StoreRows(events \ {r})

EditNext == AppStep \/ EditRow \/ DeleteRow

EditSpec == EditInit /\ [][EditNext]_editVars

-----------------------------------------------------------------------------
HashedColumns(r) ==
  [sequence_num |-> r.sequence_num, body |-> r.body, occurred_at |-> r.occurred_at,
   prev_hash |-> r.prev_hash, record_hash |-> r.record_hash]

UpTo(rows, n) == {HashedColumns(r) : r \in {q \in rows : q.sequence_num <= n}}

\* The record_hash of a committed row, which its EventAck carries, vouches for the
\* whole ledger before it: if a stored row has it and verify_chain reports nothing
\* up to that row, then up to it no row is missing, added or changed in any hashed
\* column, whatever edits were made together.  So whoever changes a row and is not
\* reported there has had to compute every later hash anew.
HashVouchesForPast ==
  \A r \in events, w \in written :
    /\ r.record_hash = w.record_hash
    /\ \A d \in verify_chain(events) : d.sequence_num > r.sequence_num
    => UpTo(events, r.sequence_num) = UpTo(written, w.sequence_num)
=============================================================================
