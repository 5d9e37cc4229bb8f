------------------------- MODULE MCLedgerStorageEdits -------------------------
(* One writer, so that the edits are what is explored.                       *)
EXTENDS LedgerStorageEdits

CONSTANTS w1, logon, count, stored, info, utc, naive

Ev(body) == [body |-> body, aux |-> info, instant |-> 0, offset |-> utc]

\* count holds a number that JSONB gives back as another: stored.
MCJsonb == [b \in Body |-> IF b = count THEN stored ELSE b]

MCBatches == {<<Ev(logon)>>, <<Ev(logon), Ev(count)>>}
=============================================================================
