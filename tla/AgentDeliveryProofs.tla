-------------------------- MODULE AgentDeliveryProofs --------------------------
(***************************************************************************)
(* From the collectors to the ledger: what TLC finds on a small queue holds *)
(* for every number of events, every queue and batch size and every number  *)
(* of faults and restarts.                                                  *)
(*                                                                          *)
(* That no event vanishes rests on what the shipper's file names stand for  *)
(* while it waits (ShipmentOK).  The order of first copies holds until the  *)
(* first restart; it rests on every request in flight, the abandoned ones   *)
(* too, carrying only events whose elders are with it or will never be      *)
(* stored again (NothingOvertaken).  The number of copies is a budget: those *)
(* stored, those under way and the one the queue may still send.            *)
(***************************************************************************)
EXTENDS AgentDelivery, FiniteSetTheorems, TLAPS

Shipping == phase \in {"waiting", "answered"}

Increasing(s) == \A i, j \in DOMAIN s : i < j => s[i] < s[j]
Distinct(s) == \A i, j \in DOMAIN s : s[i] = s[j] => i = j

\* Files stand for events that were collected, each for one of its own.
FilesOK ==
  /\ IsFiniteSet(Directory)
  /\ \A n \in Directory : files[n] <= collected
  /\ \A m, n \in Directory : files[m] = files[n] /\ files[m] # Corrupt => m = n

\* A crash ends shipOne, and there is a start left after it; names collide only
\* after one.  Too old an event is refused for ever.
HistoryOK ==
  /\ ~running => phase = "idle" /\ restarts < MaxRestarts
  /\ collided # {} => restarts > 0
  /\ purged \subseteq aged
  /\ \A e \in skipped : Refused(e)

\* Until the first restart, names are as old as their events.
NamesInOrder ==
  restarts = 0 =>
    /\ running => \A n \in Directory \cup Range(paths) : n <= counter
    /\ running => \A n \in Directory : files[n] # Corrupt
    /\ \A m, n \in Directory :
         m < n => files[m] # Corrupt /\ (files[n] # Corrupt => files[m] < files[n])

\* shipOne holds the names it peeked, in order, and from ReadBatch on the events
\* of these files; a name stands for another event only after a collision.
ShipmentOK ==
  /\ paths \in Seq(Nat) /\ Increasing(paths)
  /\ phase = "idle" => paths = <<>>
  /\ ~Shipping => batch = <<>>
  /\ phase = "peeked" /\ restarts = 0 =>
       \A m \in Directory : \A i \in DOMAIN paths : m < paths[i] => m \in Range(paths)
  /\ Shipping => DOMAIN batch = DOMAIN paths
  /\ \A i \in DOMAIN batch :
       /\ \A n \in Directory : files[n] = batch[i] => n = paths[i]
       /\ paths[i] \in Directory => files[paths[i]] \in {batch[i]} \cup collided
       /\ phase = "answered" /\ reply = "accepted" => batch[i] \in Range(ledger) \cup skipped

\* An event that the ledger has, or that it will not get any more.
Settled(e) ==
  e \in Range(ledger) \cup dropped \cup torn \cup unshippable \/ Refused(e)

\* A request, under way or abandoned.
RequestOK(b) ==
  /\ b \in Seq(Events) /\ Len(b) \in 1 .. batchSize /\ Distinct(b)
  /\ \A i \in DOMAIN b : b[i] <= collected
  /\ restarts = 0 =>
       /\ Increasing(b)
       /\ \A i \in DOMAIN b :
            /\ b[i] \notin dropped \cup torn
            /\ \A e \in 1 .. b[i] - 1 : e \in Range(b) \/ Settled(e)

RequestsOK ==
  (Shipping => RequestOK(batch)) /\ \A r \in late : RequestOK(r.events)

\* What the ledger holds, and what it has overtaken.
NothingOvertaken ==
  /\ \A i \in DOMAIN ledger : ledger[i] <= collected
  /\ restarts = 0 =>
       /\ \A n \in Directory : files[n] \notin dropped \cup torn
       /\ \A i \in DOMAIN ledger :
            /\ ledger[i] \notin dropped \cup torn
            /\ \A e \in 1 .. ledger[i] - 1 : Settled(e)

\* Whether the queue or the request of the moment may still add a copy of e.
MayShip(e) ==
  /\ running
  /\ \/ phase = "waiting" /\ e \in Range(batch)
     \/ /\ e \in Queued
        /\ ~(phase = "answered" /\ reply = "accepted" /\ e \in Range(batch))

Abandoned(e) == {r \in late : e \in Range(r.events)}

CopiesBudgeted ==
  /\ IsFiniteSet(late)
  /\ \A e \in Events :
       Copies(e) + Cardinality(Abandoned(e)) + (IF MayShip(e) THEN 1 ELSE 0)
         <= 1 + faults + restarts

IndInv ==
  /\ TypeOK /\ FilesOK /\ HistoryOK /\ NamesInOrder /\ ShipmentOK /\ RequestsOK
  /\ NothingOvertaken /\ CopiesBudgeted
  /\ NothingVanishes /\ FirstCopiesInOrder

-----------------------------------------------------------------------------
(* The operators of the queue.                                               *)

(* Peek's sort: a finite set of names has its ascending order, in which each *)
(* of them has a place.                                                      *)
LEMMA InOrderSorts ==
  ASSUME NEW S, S \subseteq Nat, IsFiniteSet(S)
  PROVE  /\ Cardinality(S) \in Nat /\ InOrder(S) \in [1 .. Cardinality(S) -> S]
         /\ Increasing(InOrder(S))
         /\ \A m \in S : \E i \in 1 .. Cardinality(S) : InOrder(S)[i] = m
<1> DEFINE N == Cardinality(S)
           Below(m) == {k \in S : k < m}
           rank == [m \in S |-> Cardinality(Below(m)) + 1]
<1>1. N \in Nat
  BY FS_CardinalityType
<1>2. \A m \in S : IsFiniteSet(Below(m)) /\ Cardinality(Below(m)) \in Nat
  <2> SUFFICES ASSUME NEW m \in S PROVE IsFiniteSet(Below(m)) /\ Cardinality(Below(m)) \in Nat
    OBVIOUS
  <2>1. Below(m) \in SUBSET S
    OBVIOUS
  <2> HIDE DEF Below
  <2> QED BY <2>1, FS_Subset, FS_CardinalityType
<1>3. \A m \in S : Cardinality(Below(m)) + 1 \in 1 .. N
  <2> SUFFICES ASSUME NEW m \in S PROVE Cardinality(Below(m)) + 1 \in 1 .. N
    OBVIOUS
  <2>1. Below(m) \in SUBSET (S \ {m})
    OBVIOUS
  <2>2. IsFiniteSet(S \ {m}) /\ Cardinality(S \ {m}) = N - 1
    BY FS_RemoveElement
  <2> HIDE DEF Below
  <2>3. Cardinality(Below(m)) <= Cardinality(S \ {m})
    BY <2>1, <2>2, FS_Subset
  <2> QED BY <1>1, <1>2, <2>2, <2>3
<1>4. \A l, m \in S : l < m => Cardinality(Below(l)) < Cardinality(Below(m))
  <2> SUFFICES ASSUME NEW l \in S, NEW m \in S, l < m
               PROVE  Cardinality(Below(l)) < Cardinality(Below(m))
    OBVIOUS
  <2>0. \A k \in S : k \in Nat
    OBVIOUS
  <2>1. Below(l) \in SUBSET Below(m) /\ l \in Below(m) /\ l \notin Below(l)
    <3>1. \A k \in S : k < l => k < m
      BY <2>0
    <3>2. ~(l < l)
      BY <2>0
    <3> QED BY <3>1, <3>2
  <2> HIDE DEF Below
  <2>2. /\ Cardinality(Below(l)) <= Cardinality(Below(m))
        /\ Cardinality(Below(l)) # Cardinality(Below(m))
    BY <1>2, <2>1, FS_Subset
  <2> QED BY <1>2, <2>2
<1> HIDE DEF N, Below
<1>5. rank \in [S -> 1 .. N] /\ \A l, m \in S : l < m => rank[l] < rank[m]
  BY <1>2, <1>3, <1>4
<1> HIDE DEF rank
<1>6. \A l, m \in S : rank[l] = rank[m] => l = m
  BY <1>5
<1>7. IsFiniteSet(1 .. N) /\ Cardinality(1 .. N) = N
  BY <1>1, FS_Interval
<1>8. rank \in Surjection(S, 1 .. N)
  <2>1. rank \in Injection(S, 1 .. N)
    BY <1>5, <1>6 DEF Injection, IsInjective
  <2> QED BY <1>7, <2>1, FS_Injection DEF N
<1> DEFINE sorted == [i \in 1 .. N |-> CHOOSE m \in S : rank[m] = i]
<1>9. \A i \in 1 .. N : sorted[i] \in S /\ rank[sorted[i]] = i
  BY <1>8 DEF Surjection
<1>10. sorted \in [1 .. N -> S]
  BY <1>9
<1> HIDE DEF sorted
<1>11. Increasing(sorted)
  <2> SUFFICES ASSUME NEW i \in 1 .. N, NEW j \in 1 .. N, i < j PROVE sorted[i] < sorted[j]
    BY <1>10 DEF Increasing
  <2>1. sorted[i] \in S /\ sorted[j] \in S /\ sorted[i] \in Nat /\ sorted[j] \in Nat
    BY <1>9
  <2>2. ~(rank[sorted[j]] < rank[sorted[i]]) /\ sorted[i] # sorted[j]
    BY <1>1, <1>9
  <2>3. ~(sorted[j] < sorted[i])
    BY <1>5, <2>1, <2>2
  <2> QED BY <2>1, <2>2, <2>3
<1>12. InOrder(S) \in [1 .. N -> S] /\ Increasing(InOrder(S))
  BY <1>10, <1>11 DEF InOrder, Increasing, N
<1>13. InOrder(S) \in Surjection(1 .. N, S)
  <2>1. ASSUME NEW i \in 1 .. N, NEW j \in 1 .. N, InOrder(S)[i] = InOrder(S)[j] PROVE i = j
    <3>1. InOrder(S)[i] \in Nat
      BY <1>12
    <3>2. ~(InOrder(S)[i] < InOrder(S)[j]) /\ ~(InOrder(S)[j] < InOrder(S)[i])
      BY <2>1, <3>1
    <3>3. ~(i < j) /\ ~(j < i)
      BY <1>12, <3>2 DEF Increasing
    <3> QED BY <1>1, <3>3
  <2>2. InOrder(S) \in Injection(1 .. N, S)
    BY <1>12, <2>1 DEF Injection, IsInjective
  <2> QED BY <1>7, <2>2, FS_Injection DEF N
<1> QED BY <1>1, <1>12, <1>13 DEF Surjection, N

(* FirstOf keeps the elements' places.                                       *)
LEMMA FirstOfPrefix ==
  ASSUME NEW X, NEW s \in Seq(X), NEW n \in Nat
  PROVE  /\ FirstOf(s, n) \in Seq(X) /\ Len(FirstOf(s, n)) <= n /\ Len(FirstOf(s, n)) <= Len(s)
         /\ Len(FirstOf(s, n)) \in {n, Len(s)}
         /\ \A i \in DOMAIN FirstOf(s, n) : i \in DOMAIN s /\ FirstOf(s, n)[i] = s[i]
<1> DEFINE m == Min({Len(s), n})
<1>1. m \in {Len(s), n} /\ m <= Len(s) /\ m <= n
  <2>1. \E x \in {Len(s), n} : \A y \in {Len(s), n} : x =< y
    OBVIOUS
  <2> QED BY <2>1 DEF Min
<1> HIDE DEF m
<1> DEFINE q == FirstOf(s, n)
<1>2. q = [i \in 1 .. m |-> s[i]]
  BY <1>1 DEF FirstOf, m
<1>3. m \in Nat /\ \A i \in 1 .. m : i \in DOMAIN s /\ s[i] \in X
  BY <1>1
<1> HIDE DEF q
<1>4. q \in Seq(X) /\ Len(q) = m /\ DOMAIN q = 1 .. m
  BY <1>2, <1>3
<1> QED BY <1>1, <1>2, <1>3, <1>4 DEF q

(* PickedFrom keeps the order of what it picks, and picks each place once.   *)
LEMMA PickedFromSeq ==
  ASSUME NEW X, NEW s \in Seq(X), NEW S, S \subseteq DOMAIN s, NEW p, p = PickedFrom(s, S)
  PROVE  /\ p \in Seq(X) /\ Len(p) <= Len(s) /\ DOMAIN p = DOMAIN InOrder(S)
         /\ \A k \in DOMAIN p : InOrder(S)[k] \in S /\ p[k] = s[InOrder(S)[k]]
         /\ Increasing(InOrder(S))
         /\ \A i \in S : \E k \in DOMAIN p : InOrder(S)[k] = i
<1>1. IsFiniteSet(S) /\ Cardinality(S) <= Len(s) /\ S \subseteq Nat
  <2>1. IsFiniteSet(1 .. Len(s)) /\ Cardinality(1 .. Len(s)) = Len(s)
    <3>1. 1 \in Int /\ Len(s) \in Int /\ Len(s) \in Nat
      OBVIOUS
    <3> QED BY <3>1, FS_Interval
  <2>2. S \in SUBSET (1 .. Len(s))
    OBVIOUS
  <2> QED BY <2>1, <2>2, FS_Subset
<1>2. /\ Cardinality(S) \in Nat /\ InOrder(S) \in [1 .. Cardinality(S) -> S]
      /\ Increasing(InOrder(S))
      /\ \A m \in S : \E i \in 1 .. Cardinality(S) : InOrder(S)[i] = m
  BY <1>1, InOrderSorts
<1>3. p = [i \in 1 .. Cardinality(S) |-> s[InOrder(S)[i]]]
  BY DEF PickedFrom
<1>4. \A i \in 1 .. Cardinality(S) : s[InOrder(S)[i]] \in X
  BY <1>2
<1>5. p \in [1 .. Cardinality(S) -> X]
  BY <1>3, <1>4
<1>6. p \in Seq(X) /\ Len(p) = Cardinality(S)
  BY <1>2, <1>5
<1>7. /\ p \in Seq(X) /\ Len(p) <= Len(s) /\ DOMAIN p = DOMAIN InOrder(S)
      /\ \A k \in DOMAIN p : InOrder(S)[k] \in S /\ p[k] = s[InOrder(S)[k]]
  BY <1>1, <1>2, <1>3, <1>5, <1>6
<1>8. \A i \in S : \E k \in DOMAIN p : InOrder(S)[k] = i
  BY <1>2, <1>5
<1> QED BY <1>2, <1>7, <1>8

-----------------------------------------------------------------------------
(* What a step may do to the files, to the history and to the ledger.        *)

Shrinks == Directory' \subseteq Directory /\ \A n \in Directory' : files'[n] = files[n]
Adds(content) ==
  /\ Directory' = Directory \cup {counter + 1}
  /\ files'[counter + 1] = content
  /\ \A n \in Directory \ {counter + 1} : files'[n] = files[n]

(* Removing files, as Ack, ReadBatch and purgeStale do.                      *)
LEMMA WithoutShrinks ==
  ASSUME NEW T, files' = Without(T)
  PROVE  Shrinks /\ Directory' = Directory \ T
BY DEF Without, Shrinks, Directory

(* os.WriteFile.                                                             *)
LEMMA PutAdds ==
  ASSUME NEW content, files' = Put(counter + 1, content)
  PROVE  Adds(content)
BY DEF Put, Adds, Directory

(* Files come from Enqueue only, one at a time.                              *)
LEMMA StepFiles ==
  ASSUME [Next]_vars
  PROVE  \/ Shrinks
         \/ /\ Enqueue /\ Adds(collected + 1)
            /\ UNCHANGED <<phase, paths, batch, reply, late, ledger, faults, skipped, unshippable>>
         \/ CrashInEnqueue /\ Adds(Corrupt) /\ EndShipOne
<1>1. CASE files' = files
  BY <1>1 DEF Shrinks, Directory
<1>2. ASSUME NEW T, files' = Without(T) PROVE Shrinks
  BY <1>2, WithoutShrinks
<1>3. CASE AgentQueueStep
  <2>1. CASE PurgeStale
    BY <1>2, <2>1 DEF PurgeStale
  <2>2. CASE Enqueue
    BY <1>3, <2>2, PutAdds DEF Enqueue, AgentQueueStep, QueueOnly, Crash, CrashInEnqueue, EnqueueFull, New, Age, PurgeStale
  <2>3. CASE CrashInEnqueue /\ EndShipOne
    BY <2>3, PutAdds DEF CrashInEnqueue
  <2> QED BY <1>1, <1>3, <2>1, <2>2, <2>3 DEF AgentQueueStep, QueueOnly, Crash, EnqueueFull, New, Age
<1>4. CASE Ship
  BY <1>1, <1>2, <1>4 DEF Ship, ShipPeek, ShipRead, ShipKeeps, ShipDrops, ShipAcks, Ack, queueVars
<1>5. CASE \/ ShipGivesUp \/ BackendHandles \/ AnswerLost \/ LateRequestHandled \/ BackendFails
           \/ BackendRateLimits \/ AtBound \/ UNCHANGED vars
  BY <1>1, <1>5 DEF ShipGivesUp, BackendHandles, AnswerLost, LateRequestHandled, BackendFails,
                    BackendRateLimits, AtBound, vars, queueVars
<1> QED BY <1>3, <1>4, <1>5 DEF Next

\* What is remembered is not forgotten.
Grows ==
  /\ collected' \in {collected, collected + 1}
  /\ restarts' \in {restarts, restarts + 1} /\ faults' \in {faults, faults + 1}
  /\ aged \subseteq aged' /\ dropped \subseteq dropped' /\ torn \subseteq torn'
  /\ purged \subseteq purged' /\ collided \subseteq collided'
  /\ skipped \subseteq skipped' /\ unshippable \subseteq unshippable'

(* Counters count up and no set of past events loses one (queue.go, agent.py). *)
LEMMA StepGrows == TypeOK /\ [Next]_vars => Grows
<1> SUFFICES ASSUME TypeOK, [Next]_vars PROVE Grows
  OBVIOUS
<1>1. CASE AgentQueueStep
  <2>1. UNCHANGED <<faults, skipped, unshippable>>
    BY <1>1 DEF AgentQueueStep
  <2>2. CASE EnqueueFull \/ Enqueue
    BY <2>1, <2>2 DEF EnqueueFull, Enqueue, Grows
  <2>3. CASE New \/ Crash \/ CrashInEnqueue
    BY <2>1, <2>3 DEF New, Crash, CrashInEnqueue, Grows
  <2>4. CASE PurgeStale
    BY <2>1, <2>4 DEF PurgeStale, Grows
  <2>5. CASE Age
    BY <2>1, <2>5 DEF Age, Grows, TypeOK
  <2> QED BY <1>1, <2>2, <2>3, <2>4, <2>5 DEF AgentQueueStep, QueueOnly
<1>2. CASE Ship
  BY <1>2 DEF Ship, ShipPeek, ShipRead, ShipKeeps, ShipDrops, ShipAcks, queueVars, Grows
<1>3. CASE ShipGivesUp \/ BackendFails \/ BackendRateLimits \/ AtBound \/ UNCHANGED vars
  BY <1>3 DEF ShipGivesUp, BackendFails, BackendRateLimits, AtBound, vars, queueVars, Fault, Grows
<1>4. CASE BackendHandles \/ AnswerLost \/ LateRequestHandled
  <2>1. skipped \subseteq skipped'
    BY <1>4 DEF BackendHandles, AnswerLost, LateRequestHandled, Ingest
  <2> QED BY <1>4, <2>1 DEF BackendHandles, AnswerLost, LateRequestHandled, queueVars, Fault, Grows
<1> QED BY <1>1, <1>2, <1>3, <1>4 DEF Next

\* The events the handler stores of a batch, in its order; q gives their places.
Stored(b, p, q) ==
  /\ p \in Seq(Events) /\ q \in [DOMAIN p -> DOMAIN b] /\ Increasing(q)
  /\ \A k \in DOMAIN p : p[k] = b[q[k]] /\ ~Refused(p[k])

\* The handler got all of the batch: stored, or skipped.
Complete(b) ==
  \A i \in DOMAIN b : b[i] \in Range(ledger') \cup skipped'

(* The ledger's rows, and those a request appends.                           *)
LEMMA LedgerAppended ==
  ASSUME TypeOK, NEW p \in Seq(Events), ledger' = ledger \o p
  PROVE  /\ ledger' \in Seq(Events) /\ Len(ledger) \in Nat
         /\ DOMAIN ledger = 1 .. Len(ledger) /\ \A k \in DOMAIN p : k \in Nat /\ k >= 1
         /\ \A i \in DOMAIN ledger : i \in DOMAIN ledger' /\ ledger'[i] = ledger[i]
         /\ \A k \in DOMAIN p : Len(ledger) + k \in DOMAIN ledger' /\ ledger'[Len(ledger) + k] = p[k]
         /\ \A i \in DOMAIN ledger' : i \in DOMAIN ledger \/ \E k \in DOMAIN p : i = Len(ledger) + k
         /\ \A i \in DOMAIN ledger' : ledger'[i] \in Nat
<1>1. ledger \in Seq(Events)
  BY DEF TypeOK
<1>2. ledger' \in Seq(Events)
  BY <1>1
<1>3. \A i \in DOMAIN ledger' : i \notin DOMAIN ledger =>
        i - Len(ledger) \in DOMAIN p /\ i = Len(ledger) + (i - Len(ledger))
  BY <1>1
<1>4. \A i \in DOMAIN ledger' : ledger'[i] \in Nat
  <2>1. \A i \in DOMAIN ledger' : ledger'[i] \in Events
    BY <1>2
  <2> QED BY <2>1, QueueAssumption DEF Events
<1> QED BY <1>1, <1>2, <1>3, <1>4

(* agent_ingest_events on a batch that is not cut off: batches are not larger *)
(* than what it looks at.                                                    *)
LEMMA IngestStores ==
  ASSUME TypeOK, NEW b, RequestOK(b), Ingest(b)
  PROVE  /\ \E p, q : Stored(b, p, q) /\ ledger' = ledger \o p /\ (p # <<>> => Complete(b))
         /\ \A e \in skipped' : e \in skipped \/ (Refused(e) /\ e \in Range(b))
         /\ Storable(b) => Complete(b)
<1>1. b \in Seq(Events) /\ Len(b) <= ingestCap /\ Len(b) \in Nat /\ ingestCap \in Nat
  BY DeliveryAssumption DEF RequestOK
<1>2. Looked(b) = b
  <2>1. /\ Looked(b) \in Seq(Events) /\ Len(Looked(b)) = Len(b)
        /\ \A i \in DOMAIN Looked(b) : Looked(b)[i] = b[i]
    BY <1>1, FirstOfPrefix DEF Looked
  <2> QED BY <1>1, <2>1
<1>3. CASE ~Storable(b)
  <2>1. ledger' = ledger /\ skipped' = skipped
    BY <1>3 DEF Ingest
  <2>2. Stored(b, <<>>, <<>>) /\ ledger' = ledger \o <<>>
    BY <2>1 DEF Stored, Increasing, TypeOK
  <2>3. \E p, q : Stored(b, p, q) /\ ledger' = ledger \o p /\ (p # <<>> => Complete(b))
    BY <2>2, Zenon
  <2>4. \A e \in skipped' : e \in skipped \/ (Refused(e) /\ e \in Range(b))
    BY <2>1
  <2> QED BY <1>3, <2>3, <2>4, Zenon
<1>4. CASE Storable(b)
  <2> DEFINE S == Accepted(b)
             p == PickedFrom(b, S)
             q == InOrder(S)
  <2>1. ledger' = ledger \o p /\ skipped' = skipped \cup {e \in Range(b) : Refused(e)}
    BY <1>2, <1>4 DEF Ingest
  <2>2. S = {i \in DOMAIN b : ~Refused(b[i])}
    BY <1>2 DEF Accepted
  <2> HIDE DEF S
  <2>3. /\ p \in Seq(Events) /\ DOMAIN p = DOMAIN q
        /\ \A k \in DOMAIN p : q[k] \in S /\ p[k] = b[q[k]]
        /\ Increasing(q)
        /\ \A i \in S : \E k \in DOMAIN p : q[k] = i
    <3>1. S \subseteq DOMAIN b
      BY <2>2
    <3> QED BY <1>1, <3>1, PickedFromSeq
  <2> DEFINE r == [k \in DOMAIN p |-> q[k]]
  <2> HIDE DEF p, q
  <2>4. Stored(b, p, r)
    BY <2>2, <2>3 DEF Stored, Increasing
  <2>5. ASSUME NEW i \in DOMAIN b PROVE b[i] \in Range(ledger') \cup skipped'
    <3>1. CASE Refused(b[i])
      BY <2>1, <3>1 DEF Range
    <3>2. CASE ~Refused(b[i])
      <4>1. PICK k \in DOMAIN p : q[k] = i
        BY <2>2, <2>3, <3>2
      <4>2. Len(ledger) + k \in DOMAIN ledger' /\ ledger'[Len(ledger) + k] = b[i]
        BY <2>1, <2>3, <4>1, LedgerAppended
      <4> QED BY <4>2 DEF Range
    <3> QED BY <3>1, <3>2
  <2>6. Complete(b)
    BY <2>5 DEF Complete
  <2>7. \A e \in skipped' : e \in skipped \/ (Refused(e) /\ e \in Range(b))
    BY <2>1
  <2>8. \E pp, qq : Stored(b, pp, qq) /\ ledger' = ledger \o pp /\ (pp # <<>> => Complete(b))
    BY <2>1, <2>4, <2>6, Zenon
  <2> QED BY <2>6, <2>7, <2>8, Zenon
<1> QED BY <1>3, <1>4

(* The ledger changes only when the handler gets a request.                  *)
LEMMA StepLedger ==
  ASSUME IndInv, [Next]_vars
  PROVE  \/ UNCHANGED <<ledger, skipped>>
         \/ \E b : /\ RequestOK(b) /\ Ingest(b) /\ UNCHANGED <<queueVars, unshippable>>
                   /\ \/ phase = "waiting" /\ b = batch /\ late' = late
                      \/ \E r \in late : b = r.events /\ late' = late \ {r} /\ UNCHANGED <<phase, batch, faults>>
<1>1. CASE AgentQueueStep \/ Ship
  BY <1>1 DEF AgentQueueStep, Ship, ShipPeek, ShipRead, ShipKeeps, ShipDrops, ShipAcks
<1>2. CASE ShipGivesUp \/ BackendFails \/ BackendRateLimits \/ AtBound \/ UNCHANGED vars
  BY <1>2 DEF ShipGivesUp, BackendFails, BackendRateLimits, AtBound, vars
<1>3. CASE BackendHandles \/ AnswerLost
  <2>1. RequestOK(batch)
    BY <1>3 DEF IndInv, RequestsOK, Shipping, BackendHandles, AnswerLost
  <2> QED BY <1>3, <2>1 DEF BackendHandles, AnswerLost
<1>4. CASE LateRequestHandled
  <2>1. PICK r \in late : /\ Ingest(r.events) /\ late' = late \ {r}
                          /\ UNCHANGED <<queueVars, phase, paths, batch, reply, faults, unshippable>>
    BY <1>4 DEF LateRequestHandled
  <2>2. RequestOK(r.events)
    BY DEF IndInv, RequestsOK
  <2> QED BY <2>1, <2>2
<1> QED BY <1>1, <1>2, <1>3, <1>4 DEF Next

(* The ledger's rows stay where they are.                                    *)
LEMMA StepAppends ==
  ASSUME IndInv, [Next]_vars
  PROVE  \/ UNCHANGED <<ledger, skipped>>
         \/ \E b, p, q : /\ Stored(b, p, q) /\ RequestOK(b) /\ ledger' = ledger \o p
                         /\ p # <<>> => Complete(b)
<1>1. ASSUME NEW b, RequestOK(b), Ingest(b)
      PROVE  \E p, q : Stored(b, p, q) /\ RequestOK(b) /\ ledger' = ledger \o p /\ (p # <<>> => Complete(b))
  BY <1>1, IngestStores DEF IndInv
<1> QED BY <1>1, StepLedger

(* No event is taken out of the ledger.                                      *)
LEMMA LedgerKept ==
  ASSUME IndInv, [Next]_vars
  PROVE  Range(ledger) \subseteq Range(ledger')
<1>1. TypeOK
  BY DEF IndInv
<1>2. ASSUME NEW p \in Seq(Events), ledger' = ledger \o p PROVE Range(ledger) \subseteq Range(ledger')
  BY <1>1, <1>2, LedgerAppended DEF Range
<1>3. CASE UNCHANGED <<ledger, skipped>>
  BY <1>3
<1> QED BY <1>2, <1>3, StepAppends DEF Stored

(* What will not be stored any more never is.                                *)
LEMMA SettledKept ==
  ASSUME IndInv, [Next]_vars, NEW e, Settled(e)
  PROVE  Settled(e)'
<1>1. Grows /\ Range(ledger) \subseteq Range(ledger')
  BY StepGrows, LedgerKept DEF IndInv
<1> QED BY <1>1 DEF Settled, Refused, Grows

(* Peek: the first names there are, in order.                                *)
LEMMA PeekFacts ==
  ASSUME TypeOK, FilesOK, NEW p, p = Peek(batchSize)
  PROVE  /\ p \in Seq(Nat) /\ Increasing(p) /\ Len(p) <= batchSize
         /\ \A i \in DOMAIN p : p[i] \in Directory
         /\ \A m \in Directory : \A i \in DOMAIN p : m < p[i] => m \in Range(p)
<1> DEFINE s == InOrder(Directory)
           N == Cardinality(Directory)
<1>1. /\ N \in Nat /\ s \in [1 .. N -> Directory] /\ Increasing(s)
      /\ \A m \in Directory : \E i \in 1 .. N : s[i] = m
  BY InOrderSorts DEF TypeOK, FilesOK
<1>2. batchSize \in Nat /\ p = FirstOf(s, batchSize) /\ Directory \subseteq Nat
  BY DeliveryAssumption DEF Peek, TypeOK
<1> HIDE DEF s, N
<1>3. s \in Seq(Nat) /\ DOMAIN s = 1 .. N /\ Len(s) = N
  <2>1. s \in [1 .. N -> Nat]
    BY <1>1, <1>2
  <2> QED BY <1>1, <2>1
<1>4. /\ p \in Seq(Nat) /\ Len(p) <= batchSize
      /\ \A i \in DOMAIN p : i \in 1 .. N /\ p[i] = s[i]
  <2>1. /\ FirstOf(s, batchSize) \in Seq(Nat) /\ Len(FirstOf(s, batchSize)) <= batchSize
        /\ \A i \in DOMAIN FirstOf(s, batchSize) : i \in DOMAIN s /\ FirstOf(s, batchSize)[i] = s[i]
    BY <1>2, <1>3, FirstOfPrefix
  <2> QED BY <1>2, <1>3, <2>1
<1>5. Increasing(p)
  BY <1>1, <1>3, <1>4 DEF Increasing
<1>6. ASSUME NEW m \in Directory, NEW i \in DOMAIN p, m < p[i] PROVE m \in Range(p)
  <2>1. PICK j \in 1 .. N : s[j] = m
    BY <1>1
  <2>2. p[i] = s[i] /\ i \in 1 .. N /\ s[i] \in Nat /\ m \in Nat
    BY <1>1, <1>2, <1>4
  <2>3. ~(i < j) /\ i # j
    <3>1. i < j => s[i] < s[j]
      BY <1>1, <1>3, <2>2 DEF Increasing
    <3> QED BY <1>6, <2>1, <2>2, <3>1
  <2>4. j \in DOMAIN p /\ p[j] = m
    <3>1. j < i
      BY <1>1, <2>2, <2>3
    <3> QED BY <1>4, <2>1, <2>2, <3>1
  <2> QED BY <2>4 DEF Range
<1> QED BY <1>1, <1>4, <1>5, <1>6

(* ReadBatch: of the peeked names, those whose file parses, in order.        *)
LEMMA ReadFacts ==
  ASSUME ShipmentOK, NEW p, p = Readable(paths)
  PROVE  /\ p \in Seq(Nat) /\ Increasing(p) /\ Len(p) <= Len(paths)
         /\ \A k \in DOMAIN p : p[k] \in Range(paths) /\ p[k] \in Directory /\ files[p[k]] # Corrupt
         /\ \A n \in Range(paths) : n \in Directory /\ files[n] # Corrupt => n \in Range(p)
<1> DEFINE S == Parsable(paths)
<1>1. S = {i \in DOMAIN paths : paths[i] \in Directory /\ files[paths[i]] # Corrupt}
  BY DEF Parsable
<1>2. paths \in Seq(Nat) /\ Increasing(paths) /\ p = PickedFrom(paths, S)
  BY DEF ShipmentOK, Readable
<1> HIDE DEF S
<1>3. /\ p \in Seq(Nat) /\ Len(p) <= Len(paths) /\ DOMAIN p = DOMAIN InOrder(S)
      /\ \A k \in DOMAIN p : InOrder(S)[k] \in S /\ p[k] = paths[InOrder(S)[k]]
      /\ Increasing(InOrder(S))
      /\ \A i \in S : \E k \in DOMAIN p : InOrder(S)[k] = i
  <2>1. S \subseteq DOMAIN paths
    BY <1>1
  <2> QED BY <1>2, <2>1, PickedFromSeq
<1>4. Increasing(p)
  BY <1>1, <1>2, <1>3 DEF Increasing
<1>5. \A k \in DOMAIN p : p[k] \in Range(paths) /\ p[k] \in Directory /\ files[p[k]] # Corrupt
  BY <1>1, <1>3 DEF Range
<1>6. ASSUME NEW i \in DOMAIN paths, paths[i] \in Directory, files[paths[i]] # Corrupt
      PROVE  \E k \in DOMAIN p : p[k] = paths[i]
  <2>1. PICK k \in DOMAIN p : InOrder(S)[k] = i
    BY <1>1, <1>3, <1>6
  <2> QED BY <1>3, <2>1
<1>7. \A n \in Range(paths) : n \in Directory /\ files[n] # Corrupt => n \in Range(p)
  BY <1>6 DEF Range
<1> QED BY <1>3, <1>4, <1>5, <1>7

-----------------------------------------------------------------------------
(* The parts of the invariant, one by one.                                   *)

(* Enqueue numbers each event once.                                          *)
LEMMA StepFilesOK == IndInv /\ [Next]_vars => FilesOK'
<1> SUFFICES ASSUME IndInv, [Next]_vars PROVE FilesOK'
  OBVIOUS
<1>1. /\ FilesOK /\ Grows /\ collected \in Nat
      /\ \A n \in Directory : files[n] \in Nat /\ files[n] <= collected
  BY StepGrows, QueueAssumption DEF IndInv, TypeOK, FilesOK, Events, Corrupt
<1>2. CASE Shrinks
  <2>1. IsFiniteSet(Directory')
    <3>1. Directory' \in SUBSET Directory
      BY <1>2 DEF Shrinks
    <3> QED BY <1>1, <3>1, FS_Subset DEF FilesOK
  <2>2. \A n \in Directory' : n \in Directory /\ files'[n] = files[n]
    BY <1>2 DEF Shrinks
  <2>3. \A n \in Directory' : files'[n] <= collected'
    BY <1>1, <2>2 DEF Grows
  <2> QED BY <1>1, <2>1, <2>2, <2>3 DEF FilesOK
<1>3. ASSUME NEW x \in {Corrupt, collected + 1}, Adds(x), collected' = collected + 1 PROVE FilesOK'
  <2>1. IsFiniteSet(Directory')
    BY <1>1, <1>3, FS_AddElement DEF FilesOK, Adds
  <2>2. \A n \in Directory' : IF n = counter + 1 THEN files'[n] = x ELSE n \in Directory /\ files'[n] = files[n]
    BY <1>3 DEF Adds
  <2>3. \A n \in Directory' : files'[n] <= collected'
    BY <1>1, <1>3, <2>2 DEF Corrupt
  <2>4. \A n \in Directory : files[n] # collected + 1
    BY <1>1
  <2>5. \A m, n \in Directory' : files'[m] = files'[n] /\ files'[m] # Corrupt => m = n
    BY <1>1, <1>3, <2>2, <2>4 DEF FilesOK
  <2> QED BY <2>1, <2>3, <2>5 DEF FilesOK
<1> QED BY <1>2, <1>3, StepFiles DEF Enqueue, CrashInEnqueue

(* Names collide only after a restart; what is too old stays so.             *)
LEMMA StepHistory == IndInv /\ [Next]_vars => HistoryOK'
<1> SUFFICES ASSUME IndInv, [Next]_vars PROVE HistoryOK'
  OBVIOUS
<1>1. TypeOK /\ HistoryOK /\ NamesInOrder /\ Grows
  BY StepGrows DEF IndInv
<1>2. ~running' => phase' = "idle" /\ restarts' < MaxRestarts
  <2>1. CASE AgentQueueStep
    <3>1. CASE Crash \/ CrashInEnqueue
      BY <1>1, <2>1, <3>1 DEF HistoryOK, AgentQueueStep, QueueOnly, Crash, CrashInEnqueue, EndShipOne, Enqueue,
                         EnqueueFull, New, PurgeStale, Age
    <3>2. CASE New
      BY <3>2 DEF New
    <3>3. CASE (EnqueueFull \/ Enqueue \/ PurgeStale \/ Age) /\ phase' = phase
      BY <1>1, <3>3 DEF HistoryOK, EnqueueFull, Enqueue, PurgeStale, Age
    <3> QED BY <2>1, <3>1, <3>2, <3>3 DEF AgentQueueStep, QueueOnly
  <2>2. CASE Ship \/ ShipGivesUp
    BY <1>1, <2>2 DEF HistoryOK, Ship, ShipPeek, ShipRead, ShipKeeps, ShipDrops, ShipAcks, ShipGivesUp, queueVars
  <2>3. CASE BackendHandles \/ AnswerLost \/ LateRequestHandled \/ BackendFails \/ BackendRateLimits
    BY <1>1, <2>3 DEF HistoryOK, BackendHandles, AnswerLost, LateRequestHandled, BackendFails,
                      BackendRateLimits, queueVars
  <2>4. CASE AtBound \/ UNCHANGED vars
    BY <1>1, <2>4 DEF HistoryOK, AtBound, vars, queueVars
  <2> QED BY <2>1, <2>2, <2>3, <2>4 DEF Next
<1>3. collided' # {} => restarts' > 0
  <2>1. CASE collided' = collided
    BY <1>1, <2>1 DEF HistoryOK, Grows, TypeOK
  <2>2. CASE Enqueue
    <3>1. CASE counter + 1 \notin Directory \cup Range(paths)
      BY <2>1, <2>2, <3>1 DEF Enqueue
    <3>2. CASE counter + 1 \in Directory \cup Range(paths)
      <4>1. restarts # 0
        BY <1>1, <2>2, <3>2 DEF NamesInOrder, Enqueue, TypeOK
      <4> QED BY <1>1, <4>1 DEF TypeOK, Grows
    <3> QED BY <3>1, <3>2
  <2>3. Enqueue \/ collided' = collided
    BY DEF Next, AgentQueueStep, QueueOnly, EnqueueFull, New, PurgeStale, Age, Crash, CrashInEnqueue,
           Ship, ShipPeek, ShipRead, ShipKeeps, ShipDrops, ShipAcks, ShipGivesUp, BackendHandles,
           AnswerLost, LateRequestHandled, BackendFails, BackendRateLimits, AtBound, vars, queueVars
  <2> QED BY <2>1, <2>2, <2>3
<1>4. purged' \subseteq aged'
  <2>1. CASE purged' = purged
    BY <1>1, <2>1 DEF HistoryOK, Grows
  <2>2. CASE PurgeStale
    BY <1>1, <2>2 DEF PurgeStale, Stale, HistoryOK
  <2>3. PurgeStale \/ purged' = purged
    BY DEF Next, AgentQueueStep, QueueOnly, EnqueueFull, Enqueue, New, Age, Crash, CrashInEnqueue,
           Ship, ShipPeek, ShipRead, ShipKeeps, ShipDrops, ShipAcks, ShipGivesUp, BackendHandles,
           AnswerLost, LateRequestHandled, BackendFails, BackendRateLimits, AtBound, vars, queueVars
  <2> QED BY <2>1, <2>2, <2>3
<1>5. \A e \in skipped' : Refused(e)'
  <2>1. \A e : Refused(e) => Refused(e)'
    BY <1>1 DEF Refused, Grows
  <2>2. ASSUME NEW b, RequestOK(b), Ingest(b) PROVE \A e \in skipped' : e \in skipped \/ Refused(e)
    BY <1>1, <2>2, IngestStores
  <2>3. \A e \in skipped' : e \in skipped \/ Refused(e)
    BY <2>2, StepLedger
  <2> QED BY <1>1, <2>1, <2>3 DEF HistoryOK
<1> QED BY <1>2, <1>3, <1>4, <1>5 DEF HistoryOK

(* The names the shipper holds are names it held, or of the directory.       *)
LEMMA StepPaths ==
  ASSUME IndInv, [Next]_vars
  PROVE  /\ Range(paths') \subseteq Range(paths) \cup Directory
         /\ \/ New \/ Enqueue
            \/ counter' = counter /\ (running' => running)
<1>1. TypeOK /\ FilesOK /\ ShipmentOK
  BY DEF IndInv
<1>2. Range(<<>>) = {}
  BY DEF Range
<1>3. Range(paths') \subseteq Range(paths) \cup Directory
  <2>1. CASE paths' = paths \/ paths' = <<>>
    BY <1>2, <2>1
  <2>2. CASE ShipPeek
    BY <1>1, <2>2, PeekFacts DEF ShipPeek, Range
  <2>3. CASE ShipRead
    <3>1. CASE Readable(paths) = <<>>
      BY <1>2, <2>3, <3>1 DEF ShipRead, EndShipOne
    <3>2. CASE Readable(paths) # <<>>
      BY <1>1, <2>3, <3>2, ReadFacts DEF ShipRead, Range
    <3> QED BY <3>1, <3>2
  <2>4. ShipPeek \/ ShipRead \/ paths' = paths \/ paths' = <<>>
    BY DEF Next, AgentQueueStep, QueueOnly, EnqueueFull, Enqueue, New, PurgeStale, Age, Crash, CrashInEnqueue,
           Ship, ShipKeeps, ShipDrops, ShipAcks, ShipGivesUp, BackendHandles,
           AnswerLost, LateRequestHandled, BackendFails, BackendRateLimits, AtBound, vars, EndShipOne
  <2> QED BY <2>1, <2>2, <2>3, <2>4
<1>4. \/ New \/ Enqueue
      \/ counter' = counter /\ (running' => running)
  BY DEF Next, AgentQueueStep, QueueOnly, EnqueueFull, PurgeStale, Age, Crash, CrashInEnqueue,
         Ship, ShipPeek, ShipRead, ShipKeeps, ShipDrops, ShipAcks, ShipGivesUp, BackendHandles,
         AnswerLost, LateRequestHandled, BackendFails, BackendRateLimits, AtBound, vars, queueVars
<1> QED BY <1>3, <1>4

(* Until the first restart the counter only grows, and no file is torn while *)
(* the agent runs.                                                           *)
LEMMA StepNames == IndInv /\ [Next]_vars => NamesInOrder'
<1> SUFFICES ASSUME IndInv, [Next]_vars, restarts' = 0 PROVE NamesInOrder'
  BY DEF NamesInOrder
<1>1. /\ restarts = 0 /\ collected \in Nat /\ counter \in Nat
      /\ \A n \in Directory : n \in Nat /\ files[n] \in Nat /\ files[n] <= collected
  BY StepGrows, QueueAssumption DEF IndInv, TypeOK, FilesOK, Events, Corrupt, Grows
<1>2. /\ running => \A n \in Directory \cup Range(paths) : n <= counter
      /\ running => \A n \in Directory : files[n] # Corrupt
      /\ \A m, n \in Directory :
           m < n => files[m] # Corrupt /\ (files[n] # Corrupt => files[m] < files[n])
  BY <1>1 DEF IndInv, NamesInOrder
<1>3. ~New
  BY <1>1 DEF New
<1>4. CASE Shrinks
  <2>1. \A n \in Directory' : n \in Directory /\ files'[n] = files[n]
    BY <1>4 DEF Shrinks
  <2>2. CASE Enqueue
    <3>1. Directory' \cup Range(paths') \subseteq Directory \cup Range(paths) /\ counter' = counter + 1 /\ running
      BY <1>4, <2>2, StepPaths DEF Shrinks, Enqueue
    <3>2. \A n \in Directory' \cup Range(paths') : n <= counter'
      <4>1. Range(paths) \subseteq Nat
        BY DEF Range, IndInv, ShipmentOK
      <4> QED BY <1>1, <1>2, <3>1, <4>1
    <3> QED BY <1>2, <2>1, <3>1, <3>2 DEF NamesInOrder
  <2>3. CASE counter' = counter /\ (running' => running)
    BY <1>2, <1>4, <2>1, <2>3, StepPaths DEF NamesInOrder, Shrinks
  <2> QED BY <1>3, <2>2, <2>3, StepPaths
<1>5. CASE Enqueue /\ Adds(collected + 1) /\ paths' = paths
  <2>1. /\ running /\ counter' = counter + 1
        /\ Directory' = Directory \cup {counter + 1} /\ files'[counter + 1] = collected + 1
        /\ \A n \in Directory \ {counter + 1} : files'[n] = files[n]
    BY <1>5 DEF Enqueue, Adds
  <2>2. Range(paths) \subseteq Nat
    BY DEF Range, IndInv, ShipmentOK
  <2>3. \A n \in Directory' \cup Range(paths') : n <= counter'
    BY <1>1, <1>2, <1>5, <2>1, <2>2
  <2>4. \A n \in Directory : n < counter + 1 /\ files'[n] = files[n] /\ files[n] < collected + 1
    BY <1>1, <1>2, <2>1
  <2>5. \A n \in Directory' : files'[n] # Corrupt
    BY <1>1, <1>2, <2>1, <2>4 DEF Corrupt
  <2>6. \A m, n \in Directory' : m < n => files'[m] < files'[n]
    BY <1>1, <1>2, <2>1, <2>4
  <2> QED BY <2>3, <2>5, <2>6 DEF NamesInOrder
<1>6. CASE CrashInEnqueue /\ Adds(Corrupt)
  <2>1. /\ running /\ ~running'
        /\ Directory' = Directory \cup {counter + 1} /\ files'[counter + 1] = Corrupt
        /\ \A n \in Directory \ {counter + 1} : files'[n] = files[n]
    BY <1>6 DEF CrashInEnqueue, Adds
  <2>2. \A n \in Directory : n < counter + 1 /\ files'[n] = files[n] /\ files[n] # Corrupt
    BY <1>1, <1>2, <2>1
  <2>3. \A m, n \in Directory' : m < n => files'[m] # Corrupt /\ (files'[n] # Corrupt => files'[m] < files'[n])
    BY <1>1, <1>2, <2>1, <2>2
  <2> QED BY <2>1, <2>3 DEF NamesInOrder
<1> QED BY <1>4, <1>5, <1>6, StepFiles

(* What shipOne holds stands for the files it read, whatever Enqueue,        *)
(* purgeStale and the backend do meanwhile.                                  *)
LEMMA StepShipment == IndInv /\ [Next]_vars => ShipmentOK'
<1> SUFFICES ASSUME IndInv, [Next]_vars PROVE ShipmentOK'
  OBVIOUS
<1>1. /\ TypeOK /\ FilesOK /\ NamesInOrder /\ ShipmentOK /\ Grows /\ Range(ledger) \subseteq Range(ledger')
      /\ restarts' = 0 => restarts = 0
  BY StepGrows, LedgerKept DEF IndInv, TypeOK, Grows
<1>2. CASE EndShipOne
  <2>1. phase' = "idle" /\ paths' = <<>> /\ batch' = <<>> /\ <<>> \in Seq(Nat)
    BY <1>2 DEF EndShipOne
  <2> QED BY <2>1 DEF ShipmentOK, Shipping, Increasing
<1>3. CASE Shrinks /\ UNCHANGED <<phase, paths, batch, reply>>
  BY <1>1, <1>3 DEF ShipmentOK, Shipping, Shrinks, Grows
<1>4. CASE Enqueue /\ Adds(collected + 1) /\ UNCHANGED <<phase, paths, batch, reply, ledger, skipped>>
  <2>1. /\ running /\ Directory' = Directory \cup {counter + 1} /\ files'[counter + 1] = collected + 1
        /\ \A n \in Directory \ {counter + 1} : files'[n] = files[n]
    BY <1>4 DEF Enqueue, Adds
  <2>2. ASSUME NEW i \in DOMAIN batch
        PROVE  /\ \A n \in Directory' : files'[n] = batch[i] => n = paths[i]
               /\ paths[i] \in Directory' => files'[paths[i]] \in {batch[i]} \cup collided'
               /\ phase = "answered" /\ reply = "accepted" => batch[i] \in Range(ledger) \cup skipped
    <3>1. batch[i] # collected + 1 /\ i \in DOMAIN paths
      BY <1>1 DEF IndInv, RequestsOK, RequestOK, ShipmentOK, Shipping, Events, TypeOK
    <3>2. paths[i] = counter + 1 => collected + 1 \in collided'
      BY <1>4, <3>1 DEF Enqueue, Range
    <3>3. \A n \in Directory' : files'[n] = batch[i] => n = paths[i]
      BY <1>1, <2>1, <3>1 DEF ShipmentOK
    <3>4. paths[i] \in Directory' => files'[paths[i]] \in {batch[i]} \cup collided'
      BY <1>1, <2>1, <3>2 DEF ShipmentOK, Grows
    <3> QED BY <1>1, <3>3, <3>4 DEF ShipmentOK
  <2>3. phase = "peeked" /\ restarts' = 0 =>
          \A m \in Directory' : \A i \in DOMAIN paths : m < paths[i] => m \in Range(paths)
    <3> SUFFICES ASSUME phase = "peeked", restarts' = 0, NEW m \in Directory', NEW i \in DOMAIN paths, m < paths[i]
                 PROVE  m \in Range(paths)
      OBVIOUS
    <3>1. paths[i] \in Range(paths) /\ paths[i] \in Nat /\ counter \in Nat
      BY <1>1 DEF Range, ShipmentOK, TypeOK
    <3>2. paths[i] <= counter
      BY <1>1, <2>1, <3>1 DEF NamesInOrder
    <3>3. m \in Directory
      BY <2>1, <3>1, <3>2
    <3> QED BY <1>1, <3>3 DEF ShipmentOK
  <2> QED BY <1>1, <1>4, <2>2, <2>3 DEF ShipmentOK, Shipping
<1>5. CASE ShipPeek
  <2>1. paths' = Peek(batchSize) /\ phase = "idle" /\ phase' = "peeked" /\ batch' = batch /\ files' = files
    BY <1>5 DEF ShipPeek, queueVars
  <2>2. /\ paths' \in Seq(Nat) /\ Increasing(paths')
        /\ \A m \in Directory : \A i \in DOMAIN paths' : m < paths'[i] => m \in Range(paths')
    BY <1>1, <2>1, PeekFacts
  <2>3. batch' = <<>>
    BY <1>1, <2>1 DEF ShipmentOK, Shipping
  <2> QED BY <2>1, <2>2, <2>3 DEF ShipmentOK, Shipping, Directory, Increasing
<1>6. CASE ShipRead /\ Readable(paths) # <<>> /\ Shrinks
  <2>1. /\ phase' = "waiting" /\ paths' = Readable(paths)
        /\ batch' = [i \in DOMAIN Readable(paths) |-> files[Readable(paths)[i]]]
    BY <1>6 DEF ShipRead
  <2>2. /\ paths' \in Seq(Nat) /\ Increasing(paths')
        /\ \A k \in DOMAIN paths' : paths'[k] \in Directory /\ files[paths'[k]] # Corrupt
    BY <1>1, <2>1, ReadFacts
  <2>3. DOMAIN batch' = DOMAIN paths' /\ \A i \in DOMAIN batch' : batch'[i] = files[paths'[i]]
    BY <2>1
  <2>4. \A n \in Directory' : n \in Directory /\ files'[n] = files[n]
    BY <1>6 DEF Shrinks
  <2>5. ASSUME NEW i \in DOMAIN batch'
        PROVE  /\ \A n \in Directory' : files'[n] = batch'[i] => n = paths'[i]
               /\ paths'[i] \in Directory' => files'[paths'[i]] \in {batch'[i]} \cup collided'
    BY <1>1, <2>2, <2>3, <2>4 DEF FilesOK
  <2> QED BY <2>1, <2>2, <2>3, <2>5 DEF ShipmentOK, Shipping
<1>7. CASE BackendHandles
  <2>1. UNCHANGED <<paths, batch, files, collided>> /\ phase = "waiting" /\ phase' = "answered" /\ Ingest(batch)
    BY <1>7 DEF BackendHandles, queueVars
  <2>2. RequestOK(batch)
    BY <2>1 DEF IndInv, RequestsOK, Shipping
  <2>3. reply' = "accepted" => Complete(batch)
    BY <1>1, <1>7, <2>1, <2>2, IngestStores DEF BackendHandles
  <2> QED BY <1>1, <2>1, <2>3 DEF ShipmentOK, Shipping, Complete, Directory
<1>8. CASE BackendFails \/ BackendRateLimits
  <2>1. /\ UNCHANGED <<paths, batch, files, collided>> /\ phase = "waiting" /\ phase' = "answered"
        /\ reply' # "accepted"
    BY <1>8 DEF BackendFails, BackendRateLimits, queueVars
  <2> QED BY <1>1, <2>1 DEF ShipmentOK, Shipping, Directory
<1>9. \/ EndShipOne
      \/ Shrinks /\ UNCHANGED <<phase, paths, batch, reply>>
      \/ Enqueue /\ Adds(collected + 1) /\ UNCHANGED <<phase, paths, batch, reply, ledger, skipped>>
      \/ ShipPeek
      \/ ShipRead /\ Readable(paths) # <<>> /\ Shrinks
      \/ BackendHandles \/ BackendFails \/ BackendRateLimits
  <2>1. CASE ~Shrinks
    BY <2>1, StepFiles
  <2>2. CASE Shrinks
    <3>1. CASE AgentQueueStep
      <4>1. CASE Crash \/ CrashInEnqueue
        BY <3>1, <4>1 DEF AgentQueueStep, QueueOnly, Crash, CrashInEnqueue, EnqueueFull, Enqueue, New, PurgeStale, Age
      <4>2. CASE UNCHANGED <<phase, paths, batch, reply>>
        BY <2>2, <4>2
      <4> QED BY <3>1, <4>1, <4>2 DEF AgentQueueStep, QueueOnly, EnqueueFull, Enqueue, New, PurgeStale, Age
    <3>2. CASE Ship
      BY <2>2, <3>2 DEF Ship, ShipRead, ShipKeeps, ShipDrops, ShipAcks
    <3>3. CASE ShipGivesUp \/ AnswerLost
      BY <3>3 DEF ShipGivesUp, AnswerLost
    <3>4. CASE LateRequestHandled \/ AtBound \/ UNCHANGED vars
      BY <2>2, <3>4 DEF LateRequestHandled, AtBound, vars
    <3> QED BY <3>1, <3>2, <3>3, <3>4 DEF Next
  <2> QED BY <2>1, <2>2
<1> QED BY <1>2, <1>3, <1>4, <1>5, <1>6, <1>7, <1>8, <1>9

(* What is dropped or torn by a step is the event being enqueued, until a    *)
(* restart lets names collide.                                               *)
LEMMA StepDrops ==
  ASSUME IndInv, [Next]_vars, restarts' = 0
  PROVE  dropped' \cup torn' \subseteq dropped \cup torn \cup {collected + 1}
<1>1. restarts = 0 /\ TypeOK /\ NamesInOrder
  BY StepGrows DEF IndInv, TypeOK, Grows
<1>2. CASE CrashInEnqueue
  <2>1. counter + 1 \notin Directory
    BY <1>1, <1>2 DEF CrashInEnqueue, NamesInOrder, TypeOK
  <2>2. dropped' = dropped /\ torn' = torn \cup {collected + 1}
    BY <1>2, <2>1 DEF CrashInEnqueue
  <2> QED BY <2>2
<1>3. CASE EnqueueFull
  BY <1>3 DEF EnqueueFull
<1>4. CASE UNCHANGED <<dropped, torn>>
  BY <1>4
<1>5. CrashInEnqueue \/ EnqueueFull \/ UNCHANGED <<dropped, torn>>
  BY DEF Next, AgentQueueStep, QueueOnly, Enqueue, New, PurgeStale, Age, Crash,
         Ship, ShipPeek, ShipRead, ShipKeeps, ShipDrops, ShipAcks, ShipGivesUp, BackendHandles,
         AnswerLost, LateRequestHandled, BackendFails, BackendRateLimits, AtBound, vars, queueVars
<1> QED BY <1>2, <1>3, <1>4, <1>5

(* A request keeps carrying what it may, however long it is under way.       *)
LEMMA RequestKept ==
  ASSUME IndInv, [Next]_vars, NEW b, RequestOK(b)
  PROVE  RequestOK(b)'
<1>1. Grows /\ collected \in Nat /\ (restarts' = 0 => restarts = 0)
  BY StepGrows DEF IndInv, TypeOK, Grows, Events
<1>2. \A i \in DOMAIN b : b[i] \in Nat /\ b[i] <= collected
  <2>1. \A i \in DOMAIN b : b[i] \in Events
    BY DEF RequestOK
  <2> QED BY <2>1, QueueAssumption DEF RequestOK, Events
<1>3. \A i \in DOMAIN b : b[i] <= collected'
  BY <1>1, <1>2 DEF Grows
<1>4. ASSUME restarts' = 0
      PROVE  /\ Increasing(b)
             /\ \A i \in DOMAIN b : /\ b[i] \notin dropped' \cup torn'
                                    /\ \A e \in 1 .. b[i] - 1 : e \in Range(b) \/ Settled(e)'
  <2>1. \A i \in DOMAIN b : b[i] # collected + 1
    BY <1>1, <1>2
  <2>2. \A i \in DOMAIN b : b[i] \notin dropped' \cup torn'
    BY <1>1, <1>4, <2>1, StepDrops DEF RequestOK
  <2>3. \A e : Settled(e) => Settled(e)'
    BY SettledKept
  <2> QED BY <1>1, <1>4, <2>2, <2>3 DEF RequestOK
<1> QED BY <1>3, <1>4 DEF RequestOK

(* What ReadBatch makes of the peeked names: the oldest events there are.    *)
LEMMA ReadRequest ==
  ASSUME IndInv, phase = "peeked", running, NEW p, p = Readable(paths), p # <<>>,
         NEW b, b = [i \in DOMAIN p |-> files[p[i]]]
  PROVE  RequestOK(b)
<1>1. /\ TypeOK /\ FilesOK /\ HistoryOK /\ NamesInOrder /\ ShipmentOK /\ NothingOvertaken /\ NothingVanishes
      /\ collected \in 0 .. MaxEvents /\ MaxEvents \in Nat
  BY QueueAssumption DEF IndInv, TypeOK
<1>2. /\ p \in Seq(Nat) /\ Increasing(p) /\ Len(p) <= Len(paths) /\ Len(p) \in Nat
      /\ \A k \in DOMAIN p : p[k] \in Range(paths) /\ p[k] \in Directory /\ files[p[k]] # Corrupt
      /\ \A n \in Range(paths) : n \in Directory /\ files[n] # Corrupt => n \in Range(p)
  BY <1>1, ReadFacts
<1>3. \A i \in DOMAIN p : files[p[i]] \in Events
  BY <1>1, <1>2 DEF TypeOK
<1>4. DOMAIN p = 1 .. Len(p) /\ \A i \in DOMAIN p : p[i] \in Nat /\ i \in Nat
  BY <1>2
<1>5. b \in Seq(Events) /\ Len(b) = Len(p) /\ DOMAIN b = DOMAIN p
  BY <1>2, <1>3, <1>4
<1>6. \A i \in DOMAIN b : b[i] = files[p[i]]
  BY <1>5
<1>7. Len(b) \in 1 .. batchSize
  <2>1. Len(p) # 0
    BY <1>2
  <2>2. Len(paths) <= batchSize /\ batchSize \in Nat /\ Len(paths) \in Nat
    BY <1>1, DeliveryAssumption DEF TypeOK, ShipmentOK
  <2> QED BY <1>2, <1>5, <2>1, <2>2
<1>8. Distinct(b)
  <2> SUFFICES ASSUME NEW i \in DOMAIN p, NEW j \in DOMAIN p, b[i] = b[j] PROVE i = j
    BY <1>5 DEF Distinct
  <2>1. p[i] = p[j]
    BY <1>1, <1>2, <1>5, <1>6 DEF FilesOK
  <2>2. ~(i < j) /\ ~(j < i)
    <3>1. ~(p[i] < p[j]) /\ ~(p[j] < p[i])
      BY <1>4, <2>1
    <3> QED BY <1>2, <3>1 DEF Increasing
  <2> QED BY <1>4, <2>2
<1>9. \A i \in DOMAIN b : b[i] <= collected
  BY <1>1, <1>2, <1>5, <1>6 DEF FilesOK
<1>10. ASSUME restarts = 0
       PROVE  /\ Increasing(b)
              /\ \A i \in DOMAIN b :
                   /\ b[i] \notin dropped \cup torn
                   /\ \A e \in 1 .. b[i] - 1 : e \in Range(b) \/ Settled(e)
  <2>1. \A m, n \in Directory : m < n => files[m] < files[n]
    BY <1>1, <1>10 DEF NamesInOrder
  <2>2. Increasing(b)
    BY <1>2, <1>5, <1>6, <2>1 DEF Increasing
  <2>3. \A i \in DOMAIN b : b[i] \notin dropped \cup torn
    BY <1>1, <1>2, <1>5, <1>6, <1>10 DEF NothingOvertaken
  <2>4. ASSUME NEW i \in DOMAIN b, NEW e \in 1 .. b[i] - 1 PROVE e \in Range(b) \/ Settled(e)
    <3>1. e \in 1 .. collected /\ b[i] \in Nat /\ e < b[i] /\ e \in Nat
      BY <1>1, <1>3, <1>5, <1>6, <1>9, <2>4 DEF Events
    <3>2. CASE e \in Queued
      <4>1. PICK m \in Directory : files[m] = e /\ e # Corrupt
        BY <3>2 DEF Queued
      <4>2. p[i] \in Directory /\ files[p[i]] = b[i] /\ p[i] \in Range(paths) /\ p[i] \in Nat /\ m \in Nat
        BY <1>1, <1>2, <1>4, <1>5, <1>6 DEF TypeOK
      <4>3. m < p[i]
        <5>1. p[i] < m => b[i] < e
          BY <2>1, <4>1, <4>2
        <5>2. p[i] # m
          BY <3>1, <4>1, <4>2
        <5> QED BY <3>1, <4>2, <5>1, <5>2
      <4>4. m \in Range(paths)
        BY <1>1, <1>10, <4>2, <4>3 DEF ShipmentOK, Range
      <4>5. m \in Range(p)
        BY <1>2, <4>1, <4>4
      <4>6. PICK k \in DOMAIN p : p[k] = m
        BY <4>5 DEF Range
      <4> QED BY <1>5, <1>6, <4>1, <4>6 DEF Range
    <3>3. CASE e \notin Queued
      BY <1>1, <1>10, <3>1, <3>3 DEF NothingVanishes, Settled, Refused, HistoryOK
    <3> QED BY <3>2, <3>3
  <2> QED BY <2>2, <2>3, <2>4
<1> QED BY <1>5, <1>7, <1>8, <1>9, <1>10 DEF RequestOK

(* Every request under way was read from the queue in its order.             *)
LEMMA StepRequests == IndInv /\ [Next]_vars => RequestsOK'
<1> SUFFICES ASSUME IndInv, [Next]_vars PROVE RequestsOK'
  OBVIOUS
<1>1. RequestsOK
  BY DEF IndInv
<1>2. \A r \in late' : r \in late \/ (phase = "waiting" /\ r.events = batch)
  <2>1. CASE late' \subseteq late
    BY <2>1
  <2>2. CASE ShipGivesUp
    BY <2>2 DEF ShipGivesUp
  <2>3. CASE AgentQueueStep
    BY <2>3 DEF AgentQueueStep, QueueOnly
  <2>4. ShipGivesUp \/ AgentQueueStep \/ late' \subseteq late
    BY DEF Next, Ship, ShipPeek, ShipRead, ShipKeeps, ShipDrops, ShipAcks, BackendHandles,
           AnswerLost, LateRequestHandled, BackendFails, BackendRateLimits, AtBound, vars
  <2> QED BY <2>1, <2>2, <2>3, <2>4
<1>3. ASSUME NEW r \in late' PROVE RequestOK(r.events)'
  <2>1. RequestOK(r.events)
    BY <1>1, <1>2 DEF RequestsOK, Shipping
  <2> QED BY <2>1, RequestKept
<1>4. ASSUME Shipping' PROVE RequestOK(batch)'
  <2>1. CASE Shipping /\ batch' = batch
    <3>1. PICK b : b = batch
      OBVIOUS
    <3>2. RequestOK(b)'
      BY <1>1, <2>1, <3>1, RequestKept DEF RequestsOK
    <3>3. b = batch'
      BY <2>1, <3>1
    <3> QED BY <3>2, <3>3 DEF RequestOK
  <2>2. CASE ShipRead /\ Readable(paths) # <<>>
    <3>1. PICK b : b = [i \in DOMAIN Readable(paths) |-> files[Readable(paths)[i]]]
      OBVIOUS
    <3>2. RequestOK(b)
      BY <2>2, <3>1, ReadRequest DEF ShipRead
    <3>3. RequestOK(b)' /\ b = batch'
      BY <2>2, <3>1, <3>2, RequestKept DEF ShipRead
    <3> QED BY <3>3 DEF RequestOK
  <2>3. \/ Shipping /\ batch' = batch
        \/ ShipRead /\ Readable(paths) # <<>>
    BY <1>4 DEF Next, AgentQueueStep, QueueOnly, Ship, ShipPeek, ShipRead, ShipKeeps, ShipDrops, ShipAcks,
           ShipGivesUp, EndShipOne, BackendHandles, AnswerLost, LateRequestHandled, BackendFails,
           BackendRateLimits, AtBound, vars, Shipping
  <2> QED BY <2>1, <2>2, <2>3
<1> QED BY <1>3, <1>4 DEF RequestsOK

(* What the ledger overtakes will never be stored.                           *)
LEMMA StepOvertaken == IndInv /\ [Next]_vars => NothingOvertaken'
<1> SUFFICES ASSUME IndInv, [Next]_vars PROVE NothingOvertaken'
  OBVIOUS
<1>1. /\ TypeOK /\ FilesOK /\ NothingOvertaken /\ Grows /\ HistoryOK'
      /\ collected \in Nat /\ ledger \in Seq(Events) /\ Events \subseteq Nat
      /\ dropped \cup torn \subseteq 1 .. collected
      /\ restarts' = 0 => restarts = 0
  BY StepGrows, StepHistory, QueueAssumption DEF IndInv, TypeOK, Grows, Events
<1>2. ASSUME restarts' = 0, NEW n \in Directory' PROVE files'[n] \notin dropped' \cup torn'
  <2>1. dropped' \cup torn' \subseteq dropped \cup torn \cup {collected + 1}
    BY <1>2, StepDrops
  <2>2. \A m \in Directory : files[m] # collected + 1 /\ files[m] \notin dropped \cup torn
    BY <1>1, <1>2 DEF FilesOK, NothingOvertaken, TypeOK, Events, Corrupt
  <2>3. CASE Shrinks
    BY <1>2, <2>1, <2>2, <2>3 DEF Shrinks
  <2>4. CASE Enqueue /\ Adds(collected + 1)
    <3>1. dropped' = dropped /\ torn' = torn /\ collected + 1 \notin dropped \cup torn
      BY <1>1, <2>4 DEF Enqueue
    <3> QED BY <1>2, <2>2, <2>4, <3>1 DEF Adds
  <2>5. CASE Adds(Corrupt)
    <3>1. Corrupt \notin dropped \cup torn \cup {collected + 1}
      BY <1>1 DEF Corrupt
    <3> QED BY <1>2, <2>1, <2>2, <2>5, <3>1 DEF Adds
  <2> QED BY <2>3, <2>4, <2>5, StepFiles
\* An event of the ledger, or of what is appended to it.
<1> DEFINE Fits(x) == /\ x <= collected
                      /\ restarts' = 0 => /\ x \notin dropped \cup torn
                                          /\ \A e \in 1 .. x - 1 : Settled(e)'
<1>3. ASSUME NEW i \in DOMAIN ledger PROVE Fits(ledger[i])
  <2>1. \A e : Settled(e) => Settled(e)'
    BY SettledKept
  <2> QED BY <1>1, <1>3, <2>1 DEF NothingOvertaken
<1>4. ASSUME NEW b, NEW p, NEW q, Stored(b, p, q), RequestOK(b), Complete(b), NEW k \in DOMAIN p
      PROVE  Fits(p[k])
  <2>1. q[k] \in DOMAIN b /\ p[k] = b[q[k]]
    BY <1>4 DEF Stored
  <2>2. \A e : Settled(e) => Settled(e)'
    BY SettledKept
  <2>3. \A e \in Range(b) : Settled(e)'
    BY <1>1, <1>4 DEF Complete, HistoryOK, Settled, Range
  <2> QED BY <1>1, <1>4, <2>1, <2>2, <2>3 DEF RequestOK
<1>5. \A i \in DOMAIN ledger' : Fits(ledger'[i]) /\ ledger'[i] \in Nat
  <2>1. CASE ledger' = ledger
    <3>1. \A i \in DOMAIN ledger : ledger[i] \in Nat
      <4>1. \A i \in DOMAIN ledger : ledger[i] \in Events
        BY <1>1
      <4> QED BY <1>1, <4>1
    <3> QED BY <1>3, <2>1, <3>1
  <2>2. ASSUME NEW b, NEW p, NEW q, Stored(b, p, q), RequestOK(b), ledger' = ledger \o p, p # <<>> => Complete(b),
               NEW i \in DOMAIN ledger'
        PROVE  Fits(ledger'[i]) /\ ledger'[i] \in Nat
    <3>1. p \in Seq(Events)
      BY <2>2 DEF Stored
    <3>2. CASE i \in DOMAIN ledger
      <4>1. ledger'[i] = ledger[i] /\ ledger[i] \in Nat
        BY <1>1, <2>2, <3>1, <3>2, LedgerAppended
      <4> QED BY <1>3, <3>2, <4>1
    <3>3. CASE i \notin DOMAIN ledger
      <4>1. PICK k \in DOMAIN p : i = Len(ledger) + k
        BY <1>1, <2>2, <3>1, <3>3, LedgerAppended
      <4>2. ledger'[i] = p[k] /\ ledger'[i] \in Nat
        BY <1>1, <2>2, <3>1, <4>1, LedgerAppended
      <4>3. p # <<>>
        BY <4>1
      <4>4. Fits(p[k])
        BY <1>4, <2>2, <4>3
      <4> QED BY <4>2, <4>4
    <3> QED BY <3>2, <3>3
  <2> QED BY <2>1, <2>2, StepAppends
<1>6. \A i \in DOMAIN ledger' : ledger'[i] <= collected'
  BY <1>1, <1>5 DEF Grows
<1>7. ASSUME restarts' = 0, NEW i \in DOMAIN ledger'
      PROVE  /\ ledger'[i] \notin dropped' \cup torn'
             /\ \A e \in 1 .. ledger'[i] - 1 : Settled(e)'
  <2>1. ledger'[i] # collected + 1
    BY <1>1, <1>5
  <2>2. dropped' \cup torn' \subseteq dropped \cup torn \cup {collected + 1}
    BY <1>7, StepDrops
  <2> QED BY <1>5, <1>7, <2>1, <2>2
<1> QED BY <1>2, <1>6, <1>7 DEF NothingOvertaken

(* First copies come in order: what is appended is sorted, and what it is    *)
(* older than has been stored before.                                        *)
LEMMA StepOrder == IndInv /\ [Next]_vars => FirstCopiesInOrder'
<1> SUFFICES ASSUME IndInv, [Next]_vars PROVE FirstCopiesInOrder'
  OBVIOUS
<1>1. /\ TypeOK /\ NothingOvertaken /\ FirstCopiesInOrder /\ Grows
      /\ ledger \in Seq(Events) /\ \A x \in Events : x \in Nat
      /\ restarts \in Nat /\ restarts' \in Nat /\ (restarts' = 0 => restarts = 0)
  BY StepGrows, QueueAssumption DEF IndInv, TypeOK, Grows, Events
<1>2. CASE ledger' = ledger
  BY <1>1, <1>2 DEF FirstCopiesInOrder, Grows
<1>3. ASSUME NEW b, NEW p, NEW q, Stored(b, p, q), RequestOK(b), ledger' = ledger \o p
      PROVE  FirstCopiesInOrder'
  <2>0. p \in Seq(Events)
    BY <1>3 DEF Stored
  <2>1. /\ \A i \in DOMAIN ledger : i \in DOMAIN ledger' /\ ledger'[i] = ledger[i]
        /\ \A k \in DOMAIN p : Len(ledger) + k \in DOMAIN ledger' /\ ledger'[Len(ledger) + k] = p[k]
        /\ \A i \in DOMAIN ledger' : i \in DOMAIN ledger \/ \E k \in DOMAIN p : i = Len(ledger) + k
        /\ Len(ledger) \in Nat /\ DOMAIN ledger = 1 .. Len(ledger) /\ \A k \in DOMAIN p : k \in Nat /\ k >= 1
    BY <1>1, <1>3, <2>0, LedgerAppended
  <2> SUFFICES ASSUME restarts' = 0, NEW i \in DOMAIN ledger', NEW j \in DOMAIN ledger', i < j,
                      ledger'[j] < ledger'[i], ledger'[j] \notin unshippable'
               PROVE  \E k \in 1 .. (i - 1) : ledger'[k] = ledger'[j]
    BY <1>1 DEF FirstCopiesInOrder
  <2>2. i \in Nat /\ j \in Nat /\ restarts = 0 /\ ledger'[j] \notin unshippable
    BY <1>1, <2>1 DEF Grows
  \* An event of the ledger older than the one at place i came before it.
  <2>3. ASSUME i \in DOMAIN ledger, NEW l \in DOMAIN ledger, ledger[l] = ledger'[j]
        PROVE  \E k \in 1 .. (i - 1) : ledger'[k] = ledger'[j]
    <3>1. CASE l < i
      <4>1. l \in 1 .. (i - 1)
        BY <2>1, <2>2, <2>3, <3>1
      <4> QED BY <2>1, <2>3, <4>1
    <3>2. CASE i < l
      <4>1. PICK k \in 1 .. (i - 1) : ledger[k] = ledger[l]
        BY <1>1, <2>1, <2>2, <2>3, <3>2 DEF FirstCopiesInOrder
      <4>2. k \in DOMAIN ledger
        BY <2>1, <2>2, <2>3, <4>1
      <4> QED BY <2>1, <2>3, <4>1, <4>2
    <3>3. CASE l = i
      <4>1. ledger[i] \in Nat /\ ledger'[i] = ledger[i]
        BY <1>1, <2>1, <2>3
      <4> QED BY <2>3, <3>3, <4>1
    <3> QED BY <2>1, <2>2, <3>1, <3>2, <3>3
  <2>4. CASE j \in DOMAIN ledger
    <3>1. i \in DOMAIN ledger
      BY <2>1, <2>2, <2>4
    <3> QED BY <2>1, <2>3, <2>4, <3>1
  <2>5. CASE j \notin DOMAIN ledger /\ i \in DOMAIN ledger
    <3>1. PICK k \in DOMAIN p : j = Len(ledger) + k
      BY <2>1, <2>5
    <3>2. /\ ledger'[j] = p[k] /\ p[k] = b[q[k]] /\ q[k] \in DOMAIN b /\ ~Refused(p[k])
          /\ p[k] \in Nat /\ p[k] >= 1
      <4>1. p[k] \in Events
        BY <2>0
      <4> QED BY <1>1, <1>3, <2>1, <3>1, <4>1, QueueAssumption DEF Stored, Events
    <3>3. p[k] \notin dropped \cup torn
      BY <1>3, <2>2, <3>2 DEF RequestOK
    <3>4. ledger'[i] = ledger[i] /\ ledger[i] \in Nat
      BY <1>1, <2>1, <2>5
    <3>5. Settled(p[k])
      <4>1. p[k] \in 1 .. ledger[i] - 1
        BY <3>2, <3>4
      <4> QED BY <1>1, <2>2, <2>5, <4>1 DEF NothingOvertaken
    <3>6. p[k] \in Range(ledger)
      BY <2>2, <3>2, <3>3, <3>5 DEF Settled
    <3> QED BY <2>3, <2>5, <3>2, <3>6 DEF Range
  <2>6. CASE j \notin DOMAIN ledger /\ i \notin DOMAIN ledger
    <3>1. PICK k \in DOMAIN p : j = Len(ledger) + k
      BY <2>1, <2>6
    <3>2. PICK l \in DOMAIN p : i = Len(ledger) + l
      BY <2>1, <2>6
    <3>3. l < k /\ ledger'[j] = p[k] /\ ledger'[i] = p[l]
      BY <2>1, <3>1, <3>2
    <3>4. q[l] < q[k] /\ q[l] \in DOMAIN b /\ q[k] \in DOMAIN b /\ p[k] = b[q[k]] /\ p[l] = b[q[l]]
      BY <1>3, <3>3 DEF Stored, Increasing
    <3>5. p[l] < p[k] /\ p[l] \in Nat /\ p[k] \in Nat
      BY <1>1, <1>3, <2>0, <2>2, <3>4 DEF RequestOK, Increasing
    <3> QED BY <3>3, <3>5
  <2> QED BY <2>4, <2>5, <2>6
<1> QED BY <1>2, <1>3, StepAppends

(* Whoever removes or overwrites a file answers for the event in it.         *)
LEMMA RemovedFile ==
  ASSUME IndInv, [Next]_vars, NEW n \in Directory, files[n] # Corrupt,
         ~(n \in Directory' /\ files'[n] = files[n])
  PROVE  files[n] \in Range(ledger') \cup skipped' \cup unshippable' \cup purged' \cup torn' \cup collided'
<1>1. /\ ShipmentOK /\ Grows /\ Range(ledger) \subseteq Range(ledger')
  BY StepGrows, LedgerKept DEF IndInv
<1>2. ASSUME NEW T, files' = Without(T) PROVE n \in T
  BY <1>2, WithoutShrinks DEF Shrinks
<1>3. ASSUME NEW content, files' = Put(counter + 1, content) PROVE n = counter + 1
  BY <1>3, PutAdds DEF Adds
<1>4. CASE AgentQueueStep
  <2>1. CASE PurgeStale
    <3>1. PICK old \in SUBSET TornFiles : files' = Without(Stale \cup old)
      BY <2>1 DEF PurgeStale
    <3>2. n \in Stale
      BY <1>2, <3>1 DEF TornFiles
    <3> QED BY <2>1, <3>2 DEF PurgeStale
  <2>2. CASE Enqueue
    <3>1. n = counter + 1
      BY <1>3, <2>2 DEF Enqueue
    <3> QED BY <2>2, <3>1 DEF Enqueue
  <2>3. CASE CrashInEnqueue
    <3>1. n = counter + 1
      BY <1>3, <2>3 DEF CrashInEnqueue
    <3> QED BY <2>3, <3>1 DEF CrashInEnqueue
  <2>4. files' = files \/ Enqueue \/ PurgeStale \/ CrashInEnqueue
    BY <1>4 DEF AgentQueueStep, QueueOnly, EnqueueFull, New, Age, Crash
  <2>5. files' # files
    BY DEF Directory
  <2> QED BY <2>1, <2>2, <2>3, <2>4, <2>5
<1>5. CASE ShipRead
  <2>1. n \in Unparsable(paths)
    BY <1>2, <1>5 DEF ShipRead
  <2> QED BY <2>1 DEF Unparsable
<1>6. CASE ShipDrops \/ ShipAcks
  <2>1. n \in Range(paths) /\ phase = "answered"
    BY <1>2, <1>6 DEF ShipDrops, ShipAcks, Ack
  <2>2. PICK i \in DOMAIN paths : paths[i] = n
    BY <2>1 DEF Range
  <2>3. i \in DOMAIN batch /\ files[n] \in {batch[i]} \cup collided
    BY <1>1, <2>1, <2>2 DEF ShipmentOK, Shipping
  <2>4. ShipDrops => batch[i] \in unshippable'
    BY <2>3 DEF ShipDrops, Range
  <2>5. ShipAcks => batch[i] \in Range(ledger) \cup skipped
    BY <1>1, <2>3 DEF ShipAcks, ShipmentOK
  <2> QED BY <1>1, <1>6, <2>3, <2>4, <2>5 DEF Grows
<1>7. files' = files \/ AgentQueueStep \/ ShipRead \/ ShipDrops \/ ShipAcks
  BY DEF Next, Ship, ShipPeek, ShipKeeps, ShipGivesUp, BackendHandles,
         AnswerLost, LateRequestHandled, BackendFails, BackendRateLimits, AtBound, vars, queueVars
<1>8. files' # files
  BY DEF Directory
<1> QED BY <1>4, <1>5, <1>6, <1>7, <1>8

(* Every event collected stays accounted for.                                *)
LEMMA StepVanishes == IndInv /\ [Next]_vars => NothingVanishes'
<1> SUFFICES ASSUME IndInv, [Next]_vars PROVE NothingVanishes'
  OBVIOUS
<1>1. /\ TypeOK /\ NothingVanishes /\ Grows /\ HistoryOK' /\ Range(ledger) \subseteq Range(ledger')
      /\ collected \in Nat /\ restarts \in Nat
  BY StepGrows, StepHistory, LedgerKept DEF IndInv, TypeOK
<1> SUFFICES ASSUME NEW e \in 1 .. collected'
             PROVE  \/ e \in Queued' \/ e \in Range(ledger')
                    \/ e \in dropped' \cup purged' \cup torn' \cup skipped' \cup unshippable'
                    \/ e \in collided' /\ restarts' > 0
  BY DEF NothingVanishes
<1>2. CASE e \in 1 .. collected
  <2>1. CASE e \in Queued
    <3>1. PICK n \in Directory : files[n] = e /\ files[n] # Corrupt
      BY <2>1 DEF Queued
    <3>2. CASE n \in Directory' /\ files'[n] = files[n]
      BY <3>1, <3>2 DEF Queued
    <3>3. CASE ~(n \in Directory' /\ files'[n] = files[n])
      <4>1. e \in Range(ledger') \cup skipped' \cup unshippable' \cup purged' \cup torn' \cup collided'
        BY <3>1, <3>3, RemovedFile
      <4> QED BY <1>1, <4>1 DEF HistoryOK
    <3> QED BY <3>2, <3>3
  <2>2. CASE e \notin Queued
    <3>1. restarts > 0 => restarts' > 0
      BY <1>1 DEF Grows
    <3> QED BY <1>1, <1>2, <2>2, <3>1 DEF NothingVanishes, Grows
  <2> QED BY <2>1, <2>2
<1>3. CASE e \notin 1 .. collected
  <2>1. e = collected + 1 /\ collected' = collected + 1
    BY <1>1, <1>3 DEF Grows
  <2>2. CASE EnqueueFull \/ CrashInEnqueue
    BY <2>1, <2>2 DEF EnqueueFull, CrashInEnqueue
  <2>3. CASE Enqueue
    <3>1. Adds(collected + 1)
      BY <2>3, PutAdds DEF Enqueue
    <3>2. counter + 1 \in Directory' /\ files'[counter + 1] = e /\ e # Corrupt
      BY <1>1, <2>1, <3>1 DEF Adds, Corrupt
    <3> QED BY <3>2 DEF Queued
  <2>4. EnqueueFull \/ CrashInEnqueue \/ Enqueue \/ collected' = collected
    BY DEF Next, AgentQueueStep, QueueOnly, New, PurgeStale, Age, Crash,
         Ship, ShipPeek, ShipRead, ShipKeeps, ShipDrops, ShipAcks, ShipGivesUp, BackendHandles,
         AnswerLost, LateRequestHandled, BackendFails, BackendRateLimits, AtBound, vars, queueVars
  <2> QED BY <1>1, <2>1, <2>2, <2>3, <2>4
<1> QED BY <1>2, <1>3

-----------------------------------------------------------------------------
(* How many copies of an event there can be.                                 *)

Places(e) == {i \in DOMAIN ledger : ledger[i] = e}

(* The copies in the ledger can be counted.                                  *)
LEMMA CopiesCounted ==
  ASSUME TypeOK, NEW e
  PROVE  /\ IsFiniteSet(Places(e)) /\ Copies(e) = Cardinality(Places(e)) /\ Copies(e) \in Nat
         /\ e \notin Range(ledger) => Copies(e) = 0
<1>1. ledger \in Seq(Events)
  BY DEF TypeOK
<1>2. IsFiniteSet(1 .. Len(ledger))
  <2>1. 1 \in Int /\ Len(ledger) \in Int
    BY <1>1
  <2> QED BY <2>1, FS_Interval
<1>3. Places(e) \in SUBSET (1 .. Len(ledger))
  BY <1>1 DEF Places
<1>4. IsFiniteSet(Places(e)) /\ Cardinality(Places(e)) \in Nat
  BY <1>2, <1>3, FS_Subset, FS_CardinalityType
<1>5. Copies(e) = Cardinality(Places(e))
  BY DEF Copies, Places
<1>6. e \notin Range(ledger) => Places(e) = {}
  BY DEF Range, Places
<1> QED BY <1>4, <1>5, <1>6, FS_EmptySet

(* The handler stores an event of a batch once, and no event of another.     *)
LEMMA IngestCopies ==
  ASSUME TypeOK, NEW b, RequestOK(b), Ingest(b), NEW e
  PROVE  /\ Copies(e) \in Nat /\ Copies(e)' \in Nat /\ Copies(e)' <= Copies(e) + 1
         /\ e \notin Range(b) \/ ~Storable(b) => Copies(e)' = Copies(e)
<1>1. PICK p, q : Stored(b, p, q) /\ ledger' = ledger \o p
  BY IngestStores
<1>2. p \in Seq(Events)
  BY <1>1 DEF Stored
<1>3. /\ Len(ledger) \in Nat /\ DOMAIN ledger = 1 .. Len(ledger)
      /\ \A i \in DOMAIN ledger : i \in DOMAIN ledger' /\ ledger'[i] = ledger[i]
      /\ \A k \in DOMAIN p : Len(ledger) + k \in DOMAIN ledger' /\ ledger'[Len(ledger) + k] = p[k]
      /\ \A i \in DOMAIN ledger' : i \in DOMAIN ledger \/ \E k \in DOMAIN p : i = Len(ledger) + k
  BY <1>1, <1>2, LedgerAppended
<1>4. /\ IsFiniteSet(Places(e)) /\ Copies(e) = Cardinality(Places(e)) /\ Copies(e) \in Nat
  BY CopiesCounted
<1>5. Copies(e)' = Cardinality(Places(e)')
  BY DEF Copies, Places
<1>6. CASE Places(e)' = Places(e)
  BY <1>4, <1>5, <1>6
<1>7. ASSUME NEW k \in DOMAIN p, p[k] = e
      PROVE  Places(e)' = Places(e) \cup {Len(ledger) + k}
  <2>1. \A l \in DOMAIN p : p[l] = e => l = k
    <3> SUFFICES ASSUME NEW l \in DOMAIN p, p[l] = e PROVE l = k
      OBVIOUS
    <3>1. q[k] \in DOMAIN b /\ q[l] \in DOMAIN b /\ b[q[k]] = e /\ b[q[l]] = e
      BY <1>1, <1>7 DEF Stored
    <3>2. q[k] = q[l] /\ q[k] \in Nat
      BY <3>1 DEF RequestOK, Distinct
    <3>3. ~(k < l) /\ ~(l < k)
      BY <1>1, <3>2 DEF Stored, Increasing
    <3> QED BY <1>2, <3>3
  <2> QED BY <1>3, <1>7, <2>1 DEF Places
<1>8. CASE \A k \in DOMAIN p : p[k] # e
  <2>1. Places(e)' = Places(e)
    BY <1>3, <1>8 DEF Places
  <2> QED BY <1>6, <2>1
<1>9. CASE \E k \in DOMAIN p : p[k] = e
  <2>1. PICK k \in DOMAIN p : p[k] = e
    BY <1>9
  <2>2. Places(e)' = Places(e) \cup {Len(ledger) + k}
    BY <1>7, <2>1
  <2>3. Copies(e)' \in {Copies(e), Copies(e) + 1}
    BY <1>4, <1>5, <2>2, FS_AddElement
  <2>4. e \in Range(b)
    BY <1>1, <2>1 DEF Stored, Range
  <2>5. ~Storable(b) => ledger' = ledger
    BY DEF Ingest
  <2>6. ~Storable(b) => Copies(e)' = Copies(e)
    BY <2>5 DEF Copies
  <2> QED BY <1>4, <2>3, <2>4, <2>6
<1> QED BY <1>6, <1>8, <1>9

(* Requests given up on, one by one.                                         *)
LEMMA AbandonedKept ==
  ASSUME IsFiniteSet(late), late' \subseteq late, NEW e
  PROVE  /\ IsFiniteSet(late') /\ Cardinality(Abandoned(e)) \in Nat
         /\ Cardinality(Abandoned(e)') \in Nat
         /\ Cardinality(Abandoned(e)') <= Cardinality(Abandoned(e))
<1>1. IsFiniteSet(late')
  BY FS_Subset
<1>2. Abandoned(e) \in SUBSET late /\ Abandoned(e)' \in SUBSET Abandoned(e)
  BY DEF Abandoned
<1>3. IsFiniteSet(Abandoned(e))
  BY <1>2, FS_Subset
<1>4. IsFiniteSet(Abandoned(e)') /\ Cardinality(Abandoned(e)') <= Cardinality(Abandoned(e))
  BY <1>2, <1>3, FS_Subset
<1> QED BY <1>1, <1>3, <1>4, FS_CardinalityType

(* One that is handled after all is not under way any more.                  *)
LEMMA AbandonedHandled ==
  ASSUME IsFiniteSet(late), NEW r \in late, late' = late \ {r}, NEW e, e \in Range(r.events)
  PROVE  Cardinality(Abandoned(e)') = Cardinality(Abandoned(e)) - 1
<1>1. Abandoned(e) \in SUBSET late /\ r \in Abandoned(e) /\ Abandoned(e)' = Abandoned(e) \ {r}
  BY DEF Abandoned
<1>2. IsFiniteSet(Abandoned(e))
  BY <1>1, FS_Subset
<1> QED BY <1>1, <1>2, FS_RemoveElement

(* A new one counts for the events it carries.                               *)
LEMMA AbandonedMore ==
  ASSUME IsFiniteSet(late), NEW r, late' = late \cup {r}, NEW e
  PROVE  /\ IsFiniteSet(late') /\ Cardinality(Abandoned(e)) \in Nat
         /\ Cardinality(Abandoned(e)') \in Nat
         /\ Cardinality(Abandoned(e)') <= Cardinality(Abandoned(e)) + 1
         /\ e \notin Range(r.events) => Cardinality(Abandoned(e)') <= Cardinality(Abandoned(e))
<1>1. IsFiniteSet(late')
  BY FS_AddElement
<1>2. Abandoned(e) \in SUBSET late
  BY DEF Abandoned
<1>3. IsFiniteSet(Abandoned(e)) /\ Cardinality(Abandoned(e)) \in Nat
  BY <1>2, FS_Subset, FS_CardinalityType
<1>4. CASE e \in Range(r.events)
  <2>1. Abandoned(e)' = Abandoned(e) \cup {r}
    BY <1>4 DEF Abandoned
  <2>2. Cardinality(Abandoned(e)') \in {Cardinality(Abandoned(e)), Cardinality(Abandoned(e)) + 1}
    BY <1>3, <2>1, FS_AddElement
  <2> QED BY <1>1, <1>3, <1>4, <2>2
<1>5. CASE e \notin Range(r.events)
  <2>1. Abandoned(e)' = Abandoned(e)
    BY <1>5 DEF Abandoned
  <2> QED BY <1>1, <1>3, <2>1
<1> QED BY <1>4, <1>5

(* An event comes under way again only by being enqueued or by a restart.    *)
LEMMA StepMayShip ==
  ASSUME IndInv, [Next]_vars, NEW e, MayShip(e)'
  PROVE  MayShip(e) \/ New \/ (Enqueue /\ e = collected + 1)
<1> SUFFICES ASSUME ~New, ~(Enqueue /\ e = collected + 1) PROVE MayShip(e)
  OBVIOUS
<1>1. TypeOK /\ FilesOK /\ HistoryOK /\ ShipmentOK
  BY DEF IndInv
<1>2. running
  <2>1. CASE Enqueue
    BY <2>1 DEF Enqueue
  <2>2. CASE running' => running
    BY <2>2 DEF MayShip
  <2> QED BY <2>1, <2>2, StepPaths
<1>3. ASSUME e \in Queued' PROVE e \in Queued
  <2>1. PICK n \in Directory' : files'[n] = e /\ e # Corrupt
    BY <1>3 DEF Queued
  <2>2. CASE n \in Directory /\ files'[n] = files[n]
    BY <2>1, <2>2 DEF Queued
  <2>3. n \in Directory /\ files'[n] = files[n]
    BY <2>1, StepFiles DEF Shrinks, Adds
  <2> QED BY <2>2, <2>3
<1>4. CASE phase' = "waiting" /\ e \in Range(batch')
  <2>1. CASE ShipRead /\ Readable(paths) # <<>>
    <3>1. batch' = [i \in DOMAIN Readable(paths) |-> files[Readable(paths)[i]]] /\ phase = "peeked"
      BY <2>1 DEF ShipRead
    <3>2. PICK i \in DOMAIN Readable(paths) : e = files[Readable(paths)[i]]
      BY <1>4, <3>1 DEF Range
    <3>3. Readable(paths)[i] \in Directory /\ files[Readable(paths)[i]] # Corrupt
      BY <1>1, <3>2, ReadFacts
    <3>4. e \in Queued
      BY <3>2, <3>3 DEF Queued
    <3> QED BY <1>2, <3>1, <3>4 DEF MayShip
  <2>2. CASE phase = "waiting" /\ batch' = batch
    BY <1>2, <1>4, <2>2 DEF MayShip
  <2>3. \/ ShipRead /\ Readable(paths) # <<>>
        \/ phase = "waiting" /\ batch' = batch
    BY <1>4 DEF Next, AgentQueueStep, QueueOnly, Ship, ShipPeek, ShipRead, ShipKeeps, ShipDrops, ShipAcks,
           ShipGivesUp, EndShipOne, BackendHandles, AnswerLost, LateRequestHandled, BackendFails,
           BackendRateLimits, AtBound, vars
  <2> QED BY <2>1, <2>2, <2>3
<1>5. CASE e \in Queued' /\ ~(phase' = "answered" /\ reply' = "accepted" /\ e \in Range(batch'))
  <2> SUFFICES ASSUME phase = "answered", reply = "accepted", e \in Range(batch) PROVE FALSE
    BY <1>2, <1>3, <1>5 DEF MayShip
  <2>1. ~UNCHANGED <<phase, reply, batch>>
    BY <1>5
  <2>2. CASE ShipAcks
    <3>1. PICK n \in Directory' : files'[n] = e /\ e # Corrupt
      BY <1>5 DEF Queued
    <3>2. Directory' = Directory \ Range(paths) /\ files'[n] = files[n]
      BY <2>2, <3>1, WithoutShrinks DEF ShipAcks, Ack, Shrinks
    <3>3. PICK i \in DOMAIN batch : batch[i] = e
      BY DEF Range
    <3>4. n = paths[i] /\ i \in DOMAIN paths
      BY <1>1, <3>1, <3>2, <3>3 DEF ShipmentOK, Shipping
    <3> QED BY <3>1, <3>2, <3>4 DEF Range
  <2>3. CASE Crash \/ CrashInEnqueue
    BY <1>5, <2>3 DEF MayShip, Crash, CrashInEnqueue
  <2>4. ShipAcks \/ Crash \/ CrashInEnqueue
    BY <2>1 DEF Next, AgentQueueStep, QueueOnly, Ship, ShipPeek, ShipRead, ShipKeeps, ShipDrops,
           ShipGivesUp, BackendHandles, AnswerLost, LateRequestHandled, BackendFails,
           BackendRateLimits, AtBound, vars
  <2> QED BY <2>2, <2>3, <2>4
<1> QED BY <1>4, <1>5 DEF MayShip

\* The budget of one event, and what may still be sent of it.
Budget == 1 + faults + restarts
Sendable(e) == IF MayShip(e) THEN 1 ELSE 0

(* An event not yet collected is nowhere.                                    *)
LEMMA NewIsNowhere ==
  ASSUME IndInv, NEW e, e = collected + 1
  PROVE  e \notin Range(ledger) /\ Abandoned(e) = {}
<1>1. \A n \in Nat : n <= collected => n # e
  BY DEF IndInv, TypeOK
<1>2. \A i \in DOMAIN ledger : ledger[i] \in Nat /\ ledger[i] <= collected
  <2>1. \A i \in DOMAIN ledger : ledger[i] \in Events
    BY DEF IndInv, TypeOK
  <2> QED BY <2>1, QueueAssumption DEF IndInv, NothingOvertaken, Events
<1>3. \A r \in late : \A i \in DOMAIN r.events : r.events[i] \in Nat /\ r.events[i] <= collected
  <2> SUFFICES ASSUME NEW r \in late, NEW i \in DOMAIN r.events
               PROVE  r.events[i] \in Nat /\ r.events[i] <= collected
    OBVIOUS
  <2>1. r.events \in Seq(Events) /\ r.events[i] <= collected
    BY DEF IndInv, RequestsOK, RequestOK
  <2>2. r.events[i] \in Events
    BY <2>1
  <2> QED BY <2>1, <2>2, QueueAssumption DEF Events
<1> QED BY <1>1, <1>2, <1>3 DEF Range, Abandoned

(* A further copy takes a lost answer, an abandoned request or a restart:    *)
(* every step keeps the account of stored, abandoned and sendable copies.    *)
LEMMA StepCopies == IndInv /\ [Next]_vars => CopiesBudgeted'
<1> SUFFICES ASSUME IndInv, [Next]_vars PROVE CopiesBudgeted'
  OBVIOUS
<1>1. TypeOK /\ HistoryOK /\ RequestsOK /\ Grows /\ IsFiniteSet(late)
  BY StepGrows DEF IndInv, CopiesBudgeted
<1>2. restarts \in Nat /\ faults \in Nat /\ restarts' \in Nat /\ faults' \in Nat
  BY <1>1 DEF TypeOK, Grows
\* What a step does to late: nothing, one request more, one request less.
<1> DEFINE More(r) == late' = late \cup {r} /\ r.events = batch /\ phase = "waiting"
<1>3. late' = late \/ (\E r : More(r)) \/ \E r \in late : late' = late \ {r}
  <2>1. CASE ShipGivesUp
    BY <2>1 DEF ShipGivesUp
  <2>2. CASE AgentQueueStep
    BY <2>2 DEF AgentQueueStep, QueueOnly
  <2>3. CASE LateRequestHandled
    BY <2>3 DEF LateRequestHandled
  <2>4. ShipGivesUp \/ AgentQueueStep \/ LateRequestHandled \/ late' = late
    BY DEF Next, Ship, ShipPeek, ShipRead, ShipKeeps, ShipDrops, ShipAcks, BackendHandles,
           AnswerLost, BackendFails, BackendRateLimits, AtBound, vars
  <2> QED BY <2>1, <2>2, <2>3, <2>4
<1>4. IsFiniteSet(late')
  <2>1. CASE late' \subseteq late
    BY <1>1, <2>1, FS_Subset
  <2>2. CASE \E r : late' = late \cup {r}
    BY <1>1, <2>2, FS_AddElement
  <2> QED BY <1>3, <2>1, <2>2
<1>5. ASSUME NEW e \in Events
      PROVE  Copies(e)' + Cardinality(Abandoned(e)') + Sendable(e)' <= Budget'
  \* The account before the step and after it.
  <2>1. PICK c, a, m, f, r : /\ c = Copies(e) /\ a = Cardinality(Abandoned(e)) /\ m = Sendable(e)
                             /\ f = faults /\ r = restarts
    OBVIOUS
  <2>2. PICK cc, aa, mm, ff, rr : /\ cc = Copies(e)' /\ aa = Cardinality(Abandoned(e)') /\ mm = Sendable(e)'
                                  /\ ff = faults' /\ rr = restarts'
    OBVIOUS
  <2>3. c \in Nat /\ a \in Nat /\ f \in Nat /\ r \in Nat /\ ff \in Nat /\ rr \in Nat
    <3>1. Abandoned(e) \in SUBSET late
      BY DEF Abandoned
    <3>2. Cardinality(Abandoned(e)) \in Nat
      BY <1>1, <3>1, FS_Subset, FS_CardinalityType
    <3>3. Copies(e) \in Nat
      BY <1>1, CopiesCounted
    <3> QED BY <1>2, <2>1, <2>2, <3>2, <3>3
  <2>4. ff \in {f, f + 1} /\ rr \in {r, r + 1}
    BY <1>1, <2>1, <2>2 DEF Grows
  <2>5. /\ m \in {0, 1} /\ mm \in {0, 1}
        /\ MayShip(e) <=> m = 1
        /\ MayShip(e)' <=> mm = 1
    BY <2>1, <2>2 DEF Sendable
  <2>6. c + a + m <= 1 + f + r
    BY <2>1 DEF IndInv, CopiesBudgeted, Sendable
  <2>7. late' = late => aa = a
    BY <2>1, <2>2 DEF Abandoned
  <2>8. ledger' = ledger => cc = c
    BY <2>1, <2>2 DEF Copies
  <2>9. ASSUME NEW l, More(l)
        PROVE  aa \in Nat /\ aa <= a + 1 /\ (e \notin Range(batch) => aa <= a)
    BY <1>1, <2>1, <2>2, <2>9, AbandonedMore
  <2> HIDE DEF More
  <2> SUFFICES cc + aa + mm <= 1 + ff + rr
    BY <2>2 DEF Budget
  <2>10. CASE UNCHANGED <<ledger, late>> /\ (MayShip(e)' => MayShip(e))
    BY <2>3, <2>4, <2>5, <2>6, <2>7, <2>8, <2>10
  <2>11. CASE AgentQueueStep /\ New
    <3>1. UNCHANGED <<ledger, late, faults>> /\ restarts' = restarts + 1 /\ ~running
      BY <2>11 DEF AgentQueueStep, QueueOnly, New, Crash, CrashInEnqueue
    <3>2. ~MayShip(e) /\ rr = r + 1 /\ ff = f
      BY <2>1, <2>2, <3>1 DEF MayShip
    <3> QED BY <2>3, <2>5, <2>6, <2>7, <2>8, <3>1, <3>2
  <2>12. CASE AgentQueueStep /\ Enqueue /\ e = collected + 1
    <3>1. ledger' = ledger
      BY <2>12 DEF AgentQueueStep
    <3>2. late' = late
      BY <2>12 DEF AgentQueueStep, QueueOnly, Enqueue, Crash, CrashInEnqueue
    <3>3. e \notin Range(ledger) /\ Abandoned(e) = {}
      BY <2>12, NewIsNowhere
    <3>4. c = 0 /\ a = 0
      BY <1>1, <2>1, <3>3, CopiesCounted, FS_EmptySet
    <3> QED BY <2>3, <2>5, <2>7, <2>8, <3>1, <3>2, <3>4
  <2>13. CASE AgentQueueStep /\ ~New /\ ~(Enqueue /\ e = collected + 1)
    <3>1. ledger' = ledger /\ (MayShip(e)' => MayShip(e))
      BY <2>13, StepMayShip DEF AgentQueueStep
    <3>2. CASE late' = late
      BY <2>10, <3>1, <3>2
    <3>3. CASE late' # late
      <4>1. running /\ ~running' /\ phase = "waiting" /\ \E l : More(l)
        BY <2>13, <3>3 DEF AgentQueueStep, QueueOnly, Crash, CrashInEnqueue, More
      <4>2. ~MayShip(e)' /\ (e \in Range(batch) => MayShip(e))
        BY <4>1 DEF MayShip
      <4>3. aa \in Nat /\ aa <= a + 1 /\ (e \notin Range(batch) => aa <= a)
        BY <2>9, <4>1
      <4> QED BY <2>3, <2>4, <2>5, <2>6, <2>8, <3>1, <4>2, <4>3
    <3> QED BY <3>2, <3>3
  <2>14. CASE ShipGivesUp
    <3>1. UNCHANGED <<ledger, restarts, collected>> /\ faults' = faults + 1
      BY <2>14 DEF ShipGivesUp, Fault, queueVars
    <3>2. late' = late \/ \E l : More(l)
      BY <2>14 DEF ShipGivesUp, More
    <3>3. MayShip(e)' => MayShip(e)
      <4>1. ~New /\ ~Enqueue
        BY <1>1, <1>2, <3>1 DEF New, Enqueue, TypeOK
      <4> QED BY <4>1, StepMayShip
    <3>4. aa \in Nat /\ aa <= a + 1
      BY <2>3, <2>7, <2>9, <3>2
    <3>5. ff = f + 1 /\ rr = r
      BY <2>1, <2>2, <3>1
    <3> QED BY <2>3, <2>5, <2>6, <2>8, <3>1, <3>3, <3>4, <3>5
  <2>15. CASE BackendHandles \/ AnswerLost \/ LateRequestHandled
    <3>1. UNCHANGED queueVars
      BY <2>15 DEF BackendHandles, AnswerLost, LateRequestHandled
    <3>2. MayShip(e)' => MayShip(e)
      <4>1. ~New /\ ~Enqueue
        BY <1>1, <1>2, <3>1 DEF New, Enqueue, queueVars, TypeOK
      <4> QED BY <4>1, StepMayShip
    <3>3. ASSUME NEW b, RequestOK(b), Ingest(b)
          PROVE  cc \in Nat /\ cc <= c + 1 /\ (e \notin Range(b) \/ ~Storable(b) => cc = c)
      BY <1>1, <2>1, <2>2, <3>3, IngestCopies
    <3>4. CASE BackendHandles
      <4>1. /\ late' = late /\ phase = "waiting" /\ Ingest(batch) /\ batch' = batch /\ phase' = "answered"
            /\ Storable(batch) => reply' = "accepted"
        BY <3>4 DEF BackendHandles
      <4>2. cc \in Nat /\ cc <= c + 1 /\ (e \notin Range(batch) \/ ~Storable(batch) => cc = c)
        BY <1>1, <3>3, <4>1 DEF RequestsOK, Shipping
      <4>3. e \in Range(batch) => MayShip(e)
        BY <1>1, <4>1 DEF MayShip, HistoryOK
      <4>4. Storable(batch) /\ e \in Range(batch) => ~MayShip(e)'
        BY <4>1 DEF MayShip
      <4> QED BY <2>3, <2>4, <2>5, <2>6, <2>7, <3>2, <4>1, <4>2, <4>3, <4>4
    <3>5. CASE AnswerLost
      <4>1. /\ late' = late /\ phase = "waiting" /\ Ingest(batch)
            /\ faults' = faults + 1 /\ restarts' = restarts
        BY <3>5 DEF AnswerLost, Fault, queueVars
      <4>2. cc \in Nat /\ cc <= c + 1
        BY <1>1, <3>3, <4>1 DEF RequestsOK, Shipping
      <4>3. ff = f + 1 /\ rr = r
        BY <2>1, <2>2, <4>1
      <4> QED BY <2>3, <2>5, <2>6, <2>7, <3>2, <4>1, <4>2, <4>3
    <3>6. CASE LateRequestHandled
      <4>1. PICK l \in late : Ingest(l.events) /\ late' = late \ {l}
        BY <3>6 DEF LateRequestHandled
      <4>2. cc \in Nat /\ cc <= c + 1 /\ (e \notin Range(l.events) => cc = c)
        BY <1>1, <3>3, <4>1 DEF RequestsOK
      <4>3. aa \in Nat /\ aa <= a
        <5>1. late' \subseteq late
          BY <4>1
        <5> QED BY <1>1, <2>1, <2>2, <5>1, AbandonedKept
      <4>4. e \in Range(l.events) => aa = a - 1
        BY <1>1, <2>1, <2>2, <4>1, AbandonedHandled
      <4> QED BY <2>3, <2>4, <2>5, <2>6, <3>2, <4>2, <4>3, <4>4
    <3> QED BY <2>15, <3>4, <3>5, <3>6
  <2>16. CASE Ship \/ BackendFails \/ BackendRateLimits \/ AtBound \/ UNCHANGED vars
    <3>1. UNCHANGED <<ledger, late, collected, restarts>>
      BY <2>16 DEF Ship, ShipPeek, ShipRead, ShipKeeps, ShipDrops, ShipAcks, BackendFails, BackendRateLimits,
                   AtBound, vars, queueVars
    <3>2. ~New /\ ~Enqueue
      BY <1>1, <1>2, <3>1 DEF New, Enqueue, TypeOK
    <3> QED BY <2>10, <3>1, <3>2, StepMayShip
  <2> QED BY <2>11, <2>12, <2>13, <2>14, <2>15, <2>16 DEF Next
<1> QED BY <1>4, <1>5 DEF CopiesBudgeted, Sendable, Budget

(* No step leaves the shape of the state.                                    *)
LEMMA StepTypes == IndInv /\ [Next]_vars => TypeOK'
<1> SUFFICES ASSUME IndInv, [Next]_vars PROVE TypeOK'
  OBVIOUS
<1>1. /\ TypeOK /\ FilesOK /\ HistoryOK /\ ShipmentOK /\ RequestsOK /\ Grows /\ RequestsOK' /\ FilesOK' /\ HistoryOK'
      /\ MaxEvents \in Nat /\ MaxRestarts \in Nat /\ maxQueueFiles \in Nat /\ batchSize \in Nat /\ MaxFaults \in Nat
  BY StepGrows, StepRequests, StepFilesOK, StepHistory, QueueAssumption, DeliveryAssumption DEF IndInv
<1>2. collected' \in 0 .. MaxEvents /\ restarts' \in 0 .. MaxRestarts /\ faults' \in 0 .. MaxFaults
  <2>1. collected' = collected \/ collected < MaxEvents
    BY DEF Next, AgentQueueStep, QueueOnly, EnqueueFull, Enqueue, New, PurgeStale, Age, Crash, CrashInEnqueue,
           Ship, ShipPeek, ShipRead, ShipKeeps, ShipDrops, ShipAcks, ShipGivesUp, BackendHandles,
           AnswerLost, LateRequestHandled, BackendFails, BackendRateLimits, AtBound, vars, queueVars
  <2>2. restarts' = restarts \/ restarts < MaxRestarts
    BY <1>1 DEF HistoryOK, Next, AgentQueueStep, QueueOnly, EnqueueFull, Enqueue, New, PurgeStale, Age, Crash, CrashInEnqueue,
           Ship, ShipPeek, ShipRead, ShipKeeps, ShipDrops, ShipAcks, ShipGivesUp, BackendHandles,
           AnswerLost, LateRequestHandled, BackendFails, BackendRateLimits, AtBound, vars, queueVars
  <2>3. faults' = faults \/ faults < MaxFaults
    BY DEF Next, AgentQueueStep,
           Ship, ShipPeek, ShipRead, ShipKeeps, ShipDrops, ShipAcks, ShipGivesUp, BackendHandles,
           AnswerLost, LateRequestHandled, BackendFails, BackendRateLimits, AtBound, vars, Fault
  <2> QED BY <1>1, <2>1, <2>2, <2>3 DEF TypeOK, Grows
<1>3. counter' \in Nat
  <2>1. CASE New
    <3>1. Cardinality(Directory) \in Nat
      BY <1>1, FS_CardinalityType DEF FilesOK
    <3> QED BY <2>1, <3>1, QueueAssumption DEF New
  <2>2. CASE Enqueue
    BY <1>1, <2>2 DEF Enqueue, TypeOK
  <2> QED BY <1>1, <2>1, <2>2, StepPaths DEF TypeOK
<1>4. /\ Directory' \subseteq Nat /\ Cardinality(Directory') <= maxQueueFiles
      /\ \A n \in Directory' : files'[n] \in Events \cup {Corrupt}
  <2>1. Cardinality(Directory) \in Nat /\ Cardinality(Directory') \in Nat
    BY <1>1, FS_CardinalityType DEF FilesOK
  <2>2. CASE Shrinks
    <3>1. Directory' \in SUBSET Directory
      BY <2>2 DEF Shrinks
    <3>2. Cardinality(Directory') <= Cardinality(Directory)
      BY <1>1, <3>1, FS_Subset DEF FilesOK
    <3>3. Cardinality(Directory') <= maxQueueFiles
      BY <1>1, <2>1, <3>2 DEF TypeOK
    <3> QED BY <1>1, <2>2, <3>3 DEF TypeOK, Shrinks
  <2>3. ASSUME NEW x \in Events \cup {Corrupt}, Adds(x), Cardinality(Directory) < maxQueueFiles
        PROVE  /\ Directory' \subseteq Nat /\ Cardinality(Directory') <= maxQueueFiles
               /\ \A n \in Directory' : files'[n] \in Events \cup {Corrupt}
    <3>1. Cardinality(Directory') \in {Cardinality(Directory), Cardinality(Directory) + 1}
      BY <1>1, <2>3, FS_AddElement DEF FilesOK, Adds
    <3>2. Cardinality(Directory') <= maxQueueFiles
      BY <1>1, <2>1, <2>3, <3>1
    <3>3. \A n \in Directory' : IF n = counter + 1 THEN files'[n] = x ELSE n \in Directory /\ files'[n] = files[n]
      BY <2>3 DEF Adds
    <3> QED BY <1>1, <2>3, <3>2, <3>3 DEF TypeOK, Adds
  <2>4. Enqueue => collected + 1 \in Events
    BY <1>1 DEF Enqueue, Events, TypeOK
  <2> QED BY <2>2, <2>3, <2>4, StepFiles DEF Enqueue, CrashInEnqueue
<1>5. running' \in BOOLEAN /\ purging' \in BOOLEAN
  BY <1>1 DEF TypeOK, Next, AgentQueueStep, QueueOnly, EnqueueFull, Enqueue, New, PurgeStale, Age, Crash, CrashInEnqueue,
         Ship, ShipPeek, ShipRead, ShipKeeps, ShipDrops, ShipAcks, ShipGivesUp, BackendHandles,
         AnswerLost, LateRequestHandled, BackendFails, BackendRateLimits, AtBound, vars, queueVars
<1>6. /\ phase' \in {"idle", "peeked", "waiting", "answered"}
      /\ reply' \in {"none", "accepted", "retry", "client_error"}
  BY <1>1 DEF TypeOK, Next, AgentQueueStep, QueueOnly,
         Ship, ShipPeek, ShipRead, ShipKeeps, ShipDrops, ShipAcks, ShipGivesUp, EndShipOne, BackendHandles,
         AnswerLost, LateRequestHandled, BackendFails, BackendRateLimits, AtBound, vars
<1>7. ledger' \in Seq(Events)
  <2>1. ASSUME NEW b, NEW p, NEW q, Stored(b, p, q), ledger' = ledger \o p PROVE ledger' \in Seq(Events)
    BY <1>1, <2>1 DEF Stored, TypeOK
  <2> QED BY <1>1, <2>1, StepAppends DEF TypeOK
<1>8. \A r \in late' : Len(r.events) \in 1 .. batchSize
  BY <1>1 DEF RequestsOK, RequestOK
<1>9. Len(paths') <= batchSize
  <2>1. Len(<<>>) <= batchSize
    BY <1>1
  <2>2. CASE ShipPeek
    BY <1>1, <2>2, PeekFacts DEF ShipPeek
  <2>3. CASE ShipRead /\ Readable(paths) # <<>>
    <3>1. Len(Readable(paths)) <= Len(paths) /\ Readable(paths) \in Seq(Nat) /\ paths \in Seq(Nat)
      BY <1>1, ReadFacts DEF ShipmentOK
    <3>2. Len(Readable(paths)) \in Nat /\ Len(paths) \in Nat
      BY <3>1
    <3> QED BY <1>1, <2>3, <3>1, <3>2 DEF ShipRead, TypeOK
  <2>4. ShipPeek \/ (ShipRead /\ Readable(paths) # <<>>) \/ paths' = paths \/ paths' = <<>>
    BY DEF Next, AgentQueueStep, QueueOnly, EnqueueFull, Enqueue, New, PurgeStale, Age, Crash, CrashInEnqueue,
           Ship, ShipRead, ShipKeeps, ShipDrops, ShipAcks, ShipGivesUp, BackendHandles,
           AnswerLost, LateRequestHandled, BackendFails, BackendRateLimits, AtBound, vars, EndShipOne
  <2> QED BY <1>1, <2>1, <2>2, <2>3, <2>4 DEF TypeOK
<1>10. Len(batch') <= batchSize
  <2>1. CASE Shipping'
    <3>1. Len(batch') \in 1 .. batchSize
      BY <1>1, <2>1 DEF RequestsOK, RequestOK
    <3> QED BY <1>1, <3>1
  <2>2. CASE ~Shipping'
    <3>1. batch' = <<>>
      BY <2>2, StepShipment DEF ShipmentOK
    <3> QED BY <1>1, <3>1
  <2> QED BY <2>1, <2>2
<1>11. aged' \cup dropped' \cup purged' \cup torn' \cup collided' \cup skipped' \cup unshippable' \subseteq 1 .. collected'
  <2>1. /\ collected \in Nat /\ collected' \in Nat /\ collected' >= collected
        /\ aged \cup dropped \cup purged \cup torn \cup collided \cup skipped \cup unshippable \subseteq 1 .. collected'
    BY <1>1, <1>2 DEF TypeOK, Grows
  <2>2. \A n \in Directory : files[n] # Corrupt => files[n] \in 1 .. collected'
    BY <1>1, <2>1 DEF TypeOK, FilesOK, Events
  <2>3. ASSUME NEW b, RequestOK(b) PROVE Range(b) \subseteq 1 .. collected'
    <3>1. \A i \in DOMAIN b : b[i] \in Events /\ b[i] <= collected
      BY <2>3 DEF RequestOK
    <3> QED BY <1>1, <2>1, <3>1 DEF Range, Events
  <2>4. aged' \subseteq 1 .. collected'
    <3>1. Age \/ aged' = aged
      BY DEF Next, AgentQueueStep, QueueOnly, EnqueueFull, Enqueue, New, PurgeStale, Crash, CrashInEnqueue,
         Ship, ShipPeek, ShipRead, ShipKeeps, ShipDrops, ShipAcks, ShipGivesUp, BackendHandles,
         AnswerLost, LateRequestHandled, BackendFails, BackendRateLimits, AtBound, vars, queueVars
    <3> QED BY <2>1, <3>1 DEF Age
  <2>5. purged' \subseteq 1 .. collected'
    BY <1>1, <2>4 DEF HistoryOK
  <2>6. dropped' \cup torn' \cup collided' \subseteq 1 .. collected'
    <3>1. CASE UNCHANGED <<dropped, torn, collided>>
      BY <2>1, <3>1
    <3>2. CASE EnqueueFull
      BY <1>1, <2>1, <3>2 DEF EnqueueFull
    <3>3. CASE Enqueue
      <4>1. collided' \subseteq collided \cup {collected + 1} \cup ({files[n] : n \in Directory} \ {Corrupt})
        BY <3>3 DEF Enqueue
      <4>2. collected + 1 \in 1 .. collected'
        BY <2>1, <3>3 DEF Enqueue
      <4>3. dropped' = dropped /\ torn' = torn
        BY <3>3 DEF Enqueue
      <4> QED BY <2>1, <2>2, <4>1, <4>2, <4>3
    <3>4. CASE CrashInEnqueue
      <4>1. torn' \subseteq torn \cup {collected + 1} \cup ({files[n] : n \in Directory} \ {Corrupt})
        BY <3>4 DEF CrashInEnqueue
      <4>2. collected + 1 \in 1 .. collected'
        BY <2>1, <3>4 DEF CrashInEnqueue
      <4>3. dropped' = dropped /\ collided' = collided
        BY <3>4 DEF CrashInEnqueue
      <4> QED BY <2>1, <2>2, <4>1, <4>2, <4>3
    <3>5. EnqueueFull \/ Enqueue \/ CrashInEnqueue \/ UNCHANGED <<dropped, torn, collided>>
      BY DEF Next, AgentQueueStep, QueueOnly, New, PurgeStale, Age, Crash,
         Ship, ShipPeek, ShipRead, ShipKeeps, ShipDrops, ShipAcks, ShipGivesUp, BackendHandles,
         AnswerLost, LateRequestHandled, BackendFails, BackendRateLimits, AtBound, vars, queueVars
    <3> QED BY <3>1, <3>2, <3>3, <3>4, <3>5
  <2>7. skipped' \subseteq 1 .. collected'
    <3>1. ASSUME NEW b, RequestOK(b), Ingest(b) PROVE skipped' \subseteq 1 .. collected'
      <4>1. \A e \in skipped' : e \in skipped \/ e \in Range(b)
        BY <1>1, <3>1, IngestStores
      <4> QED BY <2>1, <2>3, <3>1, <4>1
    <3>2. CASE skipped' = skipped
      BY <2>1, <3>2
    <3> QED BY <3>1, <3>2, StepLedger
  <2>8. unshippable' \subseteq 1 .. collected'
    <3>1. CASE ShipDrops
      BY <1>1, <2>1, <2>3, <3>1 DEF ShipDrops, RequestsOK, Shipping
    <3>2. ShipDrops \/ unshippable' = unshippable
      BY DEF Next, AgentQueueStep, Ship, ShipPeek, ShipRead, ShipKeeps, ShipAcks, ShipGivesUp, BackendHandles,
         AnswerLost, LateRequestHandled, BackendFails, BackendRateLimits, AtBound, vars
    <3> QED BY <2>1, <3>1, <3>2
  <2> QED BY <2>4, <2>5, <2>6, <2>7, <2>8
<1> QED BY <1>2, <1>3, <1>4, <1>5, <1>6, <1>7, <1>8, <1>9, <1>10, <1>11 DEF TypeOK

-----------------------------------------------------------------------------
(* The inductive invariant holds in every state of the delivery: the queue's *)
(* files, what shipOne holds of them, the requests under way and the ledger  *)
(* together (queue.go, shipper.go, agent.py).                                *)
THEOREM Invariance == Spec => []IndInv
<1>1. Init => IndInv
  <2> SUFFICES ASSUME Init PROVE IndInv
    OBVIOUS
  <2>1. /\ Directory = {} /\ paths = <<>> /\ batch = <<>> /\ ledger = <<>> /\ late = {}
        /\ collected = 0 /\ restarts = 0 /\ faults = 0 /\ counter = 0 /\ running = TRUE
        /\ phase = "idle" /\ reply = "none" /\ purging = TRUE
        /\ aged = {} /\ dropped = {} /\ purged = {} /\ torn = {} /\ collided = {}
        /\ skipped = {} /\ unshippable = {}
    BY DEF Init, QueueInit, Directory
  <2>2. Range(<<>>) = {} /\ Queued = {}
    BY <2>1 DEF Range, Queued
  <2>3. TypeOK
    <3>1. /\ MaxEvents \in Nat /\ MaxRestarts \in Nat /\ maxQueueFiles \in Nat
          /\ batchSize \in Nat /\ MaxFaults \in Nat
      BY QueueAssumption, DeliveryAssumption
    <3>2. Cardinality(Directory) <= maxQueueFiles
      BY <2>1, <3>1, FS_EmptySet
    <3>3. Len(paths) <= batchSize /\ Len(batch) <= batchSize /\ ledger \in Seq(Events)
      BY <2>1, <3>1
    <3> QED BY <2>1, <3>1, <3>2, <3>3 DEF TypeOK
  <2>4. FilesOK /\ HistoryOK /\ NamesInOrder
    BY <2>1, <2>2, FS_EmptySet DEF FilesOK, HistoryOK, NamesInOrder
  <2>5. ShipmentOK /\ RequestsOK
    BY <2>1 DEF ShipmentOK, RequestsOK, Shipping, Increasing
  <2>6. NothingOvertaken /\ NothingVanishes /\ FirstCopiesInOrder
    BY <2>1 DEF NothingOvertaken, NothingVanishes, FirstCopiesInOrder
  <2>7. CopiesBudgeted
    <3> SUFFICES ASSUME NEW e \in Events
                 PROVE  Copies(e) + Cardinality(Abandoned(e)) + (IF MayShip(e) THEN 1 ELSE 0) <= 1 + faults + restarts
      BY <2>1, FS_EmptySet DEF CopiesBudgeted
    <3>1. Copies(e) = 0
      BY <2>1, <2>2, <2>3, CopiesCounted
    <3>2. Abandoned(e) = {} /\ ~MayShip(e)
      BY <2>1, <2>2 DEF Abandoned, MayShip
    <3> QED BY <2>1, <3>1, <3>2, FS_EmptySet
  <2> QED BY <2>3, <2>4, <2>5, <2>6, <2>7 DEF IndInv
<1>2. IndInv /\ [Next]_vars => IndInv'
  BY StepTypes, StepFilesOK, StepHistory, StepNames, StepShipment, StepRequests, StepOvertaken,
     StepCopies, StepVanishes, StepOrder DEF IndInv
<1> QED BY <1>1, <1>2, PTL DEF Spec

(* Every variable keeps its type: the directory holds no more files than     *)
(* Enqueue allows, a batch no more events than shipOne peeks.                *)
THEOREM TypeCorrect == Spec => []TypeOK
<1>1. IndInv => TypeOK
  BY DEF IndInv
<1> QED BY <1>1, Invariance, PTL

(* An event the collectors handed over is queued, stored, or accounted for   *)
(* by one of the drops of the code, whatever is lost, torn, timed out or     *)
(* restarted; only after a restart can a colliding file name lose one.       *)
THEOREM NoEventVanishes == Spec => []NothingVanishes
<1>1. IndInv => NothingVanishes
  BY DEF IndInv
<1> QED BY <1>1, Invariance, PTL

(* The ledger has no more copies of an event than one and one for each lost  *)
(* answer, timeout and restart: retries of shipOne never add one of their    *)
(* own.                                                                      *)
THEOREM CopiesBounded == Spec => []CopiesNeedFaults
<1>1. IndInv => CopiesNeedFaults
  <2> SUFFICES ASSUME IndInv, NEW e \in Events PROVE Copies(e) <= 1 + faults + restarts
    BY DEF CopiesNeedFaults
  <2>1. Abandoned(e) \in SUBSET late /\ IsFiniteSet(late)
    BY DEF Abandoned, IndInv, CopiesBudgeted
  <2>2. Cardinality(Abandoned(e)) \in Nat
    BY <2>1, FS_Subset, FS_CardinalityType
  <2>3. Copies(e) \in Nat /\ faults \in Nat /\ restarts \in Nat
    BY CopiesCounted DEF IndInv, TypeOK
  <2>4. Sendable(e) \in {0, 1}
    BY DEF Sendable
  <2>5. Copies(e) + Cardinality(Abandoned(e)) + Sendable(e) <= 1 + faults + restarts
    BY DEF IndInv, CopiesBudgeted, Sendable
  <2> QED BY <2>2, <2>3, <2>4, <2>5
<1> QED BY <1>1, Invariance, PTL

(* Until the first restart, events first reach the ledger in the order they  *)
(* were collected, but for those of a batch dropped on a 4xx.                *)
THEOREM FirstCopiesOrdered == Spec => []FirstCopiesInOrder
<1>1. IndInv => FirstCopiesInOrder
  BY DEF IndInv
<1> QED BY <1>1, Invariance, PTL
=============================================================================
