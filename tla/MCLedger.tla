------------------------------- MODULE MCLedger -------------------------------
(* Small instances of Ledger: requests of one and of two events.            *)
EXTENDS Ledger

CONSTANTS w1, w2, w3, heartbeat, logon, count, stored, info, utc, naive, plus2

Ev(body, instant, offset) == [body |-> body, aux |-> info, instant |-> instant, offset |-> offset]

\* count holds a number that JSONB gives back as another (1e16, -0.0): stored.
MCJsonb == [b \in Body |-> IF b = count THEN stored ELSE b]

\* A single event and a batch of two, reported with the clocks of two clients.
MCBatches == {<<Ev(heartbeat, 1, utc)>>, <<Ev(logon, 1, plus2), Ev(count, 0, naive)>>}

\* One client that writes its timestamps with a +02:00 offset.
MCOffsetBatches == {<<Ev(heartbeat, 1, utc)>>, <<Ev(logon, 1, plus2)>>}
=============================================================================
