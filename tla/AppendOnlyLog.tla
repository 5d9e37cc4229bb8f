---------------------------- MODULE AppendOnlyLog ----------------------------
(***************************************************************************)
(* What the ledger promises to whoever submits events: a single log that   *)
(* only grows, and grows by one whole request at a time.  Requests are     *)
(* all-or-nothing and never interleave with one another.  Ledger.tla is    *)
(* shown to implement this specification.                                  *)
(***************************************************************************)
EXTENDS Sequences

CONSTANT Batches   \* the requests a client may submit: sequences of entries

VARIABLE log       \* the entries, oldest first

Init == log = <<>>

\* One request is appended, whole.
AppendBatch(batch) == log' = log \o batch

Next == \E batch \in Batches : AppendBatch(batch)

Spec == Init /\ [][Next]_log
=============================================================================
