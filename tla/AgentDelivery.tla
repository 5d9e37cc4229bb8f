----------------------------- MODULE AgentDelivery -----------------------------
(***************************************************************************)
(* From an endpoint's queue to the ledger: the agent's shipper loop        *)
(* (agent/shipper/shipper.go) and the backend's POST /v1/agent/events      *)
(* (backend/app/api/v1/agent.py) over a network that loses requests and    *)
(* answers and delivers abandoned requests late.                           *)
(*                                                                         *)
(* Waiting times (shipInterval, the back-off that doubles up to            *)
(* maxRetryWait, jitter) only delay steps and are left out, as are the     *)
(* telemetry counters.                                                     *)
(***************************************************************************)
EXTENDS AgentQueue

CONSTANTS
  batchSize,     \* events per shipped batch
  ingestCap,     \* events of a batch the handler looks at
  Invalid,       \* events EventCreate refuses
  Poison,        \* events EventCreate accepts and PostgreSQL refuses to store
  RateLimits,    \* whether the backend's global rate limit may answer 429
  MaxFaults      \* bound: lost messages, timeouts, outages and 429s

ASSUME DeliveryAssumption ==
  /\ batchSize \in Nat \ {0} /\ ingestCap \in Nat /\ batchSize <= ingestCap
  /\ MaxFaults \in Nat /\ RateLimits \in BOOLEAN
  /\ Invalid \cup Poison \subseteq Events

VARIABLES
  phase,         \* of shipOne: idle, peeked, waiting for the answer, answered
  batch,         \* the events of the current batch
  reply,         \* class of the HTTP status that came back
  late,          \* requests the agent has given up on, still under way
  ledger,        \* this agent's events in the ledger, in sequence order
  faults,
  skipped,       \* events the handler left out without an error
  unshippable    \* events the shipper dropped on a 4xx

vars == <<queueVars, phase, paths, batch, reply, late, ledger, faults, skipped, unshippable>>

Init ==
  /\ QueueInit
  /\ phase = "idle" /\ paths = <<>> /\ batch = <<>> /\ reply = "none"
  /\ late = {} /\ ledger = <<>> /\ faults = 0
  /\ skipped = {} /\ unshippable = {}

\* A fault of the environment: a bounded number of them happen.
Fault == faults < MaxFaults /\ faults' = faults + 1

-----------------------------------------------------------------------------
(* The agent's shipper goroutine.                                          *)

EndShipOne ==
  /\ phase' = "idle" /\ paths' = <<>> /\ batch' = <<>> /\ reply' = "none"

\* shipOne starts: Peek, under the queue's mutex.
ShipPeek ==
  /\ running /\ phase = "idle" /\ Directory # {}
  /\ phase' = "peeked"
  /\ paths' = Peek(batchSize)
  /\ UNCHANGED <<queueVars, batch, reply, late, ledger, faults, skipped, unshippable>>

\* ReadBatch reads the peeked files outside the mutex; with no event left
\* shipOne returns, otherwise the request is posted.
ShipRead ==
  LET kept == Readable(paths) IN
  /\ running /\ phase = "peeked"
  /\ files' = Without(Unparsable(paths))
  /\ IF kept = <<>> THEN EndShipOne
     ELSE /\ phase' = "waiting"
          /\ paths' = kept
          /\ batch' = [i \in DOMAIN kept |-> files[kept[i]]]
          /\ UNCHANGED reply
  /\ UNCHANGED <<counter, running, purging, collected, restarts, aged, dropped, purged, torn,
                 collided, late, ledger, faults, skipped, unshippable>>

\* Transport error or the client's 30 s timeout: an error, the files stay.
\* The request may be lost, or may still reach the backend later.
ShipGivesUp ==
  /\ running /\ phase = "waiting" /\ Fault
  /\ EndShipOne
  /\ late' \in {late, late \cup {[attempt |-> faults, events |-> batch]}}
  /\ UNCHANGED <<queueVars, ledger, skipped, unshippable>>

\* Fault: the files of a batch that failed are removed.
ShipForgets ==
  /\ running /\ phase = "answered" /\ reply = "retry"
  /\ Ack(paths)
  /\ EndShipOne
  /\ UNCHANGED <<counter, running, purging, collected, restarts, aged, dropped, purged, torn,
                 collided, late, ledger, faults, skipped, unshippable>>

\* 5xx, 401, 403: an error, the files stay and are shipped again.
ShipKeeps ==
  /\ running /\ phase = "answered" /\ reply = "retry"
  /\ EndShipOne
  /\ UNCHANGED <<queueVars, late, ledger, faults, skipped, unshippable>>

\* Any other 4xx: the events are dropped.
ShipDrops ==
  /\ running /\ phase = "answered" /\ reply = "client_error"
  /\ Ack(paths)
  /\ unshippable' = unshippable \cup Range(batch)
  /\ EndShipOne
  /\ UNCHANGED <<counter, running, purging, collected, restarts, aged, dropped, purged, torn,
                 collided, late, ledger, faults, skipped>>

\* Fault: the files of an accepted batch are not removed.
ShipNeverAcks ==
  /\ running /\ phase = "answered" /\ reply = "accepted"
  /\ EndShipOne
  /\ UNCHANGED <<queueVars, late, ledger, faults, skipped, unshippable>>

ShipAcks ==
  /\ running /\ phase = "answered" /\ reply = "accepted"
  /\ Ack(paths)
  /\ EndShipOne
  /\ UNCHANGED <<counter, running, purging, collected, restarts, aged, dropped, purged, torn,
                 collided, late, ledger, faults, skipped, unshippable>>

-----------------------------------------------------------------------------
(* The backend's handler, agent_ingest_events.                             *)

\* EventCreate refuses malformed events and those older than max_backdate_days.
Refused(e) == e \in Invalid \/ e \in aged

\* One transaction for the batch.  Refused events are skipped.  An INSERT that
\* PostgreSQL rejects poisons the session: every later append and the commit
\* raise, the request ends in a 500 and nothing of the batch is stored.
Looked(events) == FirstOf(events, ingestCap)
Accepted(events) == {i \in DOMAIN Looked(events) : ~Refused(Looked(events)[i])}
Storable(events) == \A i \in DOMAIN Looked(events) :
                      Refused(Looked(events)[i]) \/ Looked(events)[i] \notin Poison
Ingest(events) ==
  IF Storable(events)
  THEN /\ ledger' = ledger \o PickedFrom(Looked(events), Accepted(events))
       /\ skipped' = skipped \cup {e \in Range(events) : Refused(e)}
  ELSE UNCHANGED <<ledger, skipped>>

BackendHandles ==
  /\ phase = "waiting"
  /\ Ingest(batch)
  /\ phase' = "answered"
  /\ reply' = IF Storable(batch) THEN "accepted" ELSE "retry"
  /\ UNCHANGED <<queueVars, paths, batch, late, faults, unshippable>>

\* The same, and the answer is lost on its way back.
AnswerLost ==
  /\ phase = "waiting" /\ Fault
  /\ Ingest(batch)
  /\ EndShipOne
  /\ UNCHANGED <<queueVars, late, unshippable>>

\* A request the agent gave up on is handled after all; nobody reads the answer.
LateRequestHandled ==
  \E request \in late :
    /\ Ingest(request.events)
    /\ late' = late \ {request}
    /\ UNCHANGED <<queueVars, phase, paths, batch, reply, faults, unshippable>>

\* Outage, database error, rejected key: nothing is stored, 5xx or 401.
BackendFails ==
  /\ phase = "waiting" /\ Fault
  /\ phase' = "answered" /\ reply' = "retry"
  /\ UNCHANGED <<queueVars, paths, batch, late, ledger, skipped, unshippable>>

\* global_rate_limit answers 429 before the handler sees the request.
BackendRateLimits ==
  /\ RateLimits /\ phase = "waiting" /\ Fault
  /\ phase' = "answered" /\ reply' = "client_error"
  /\ UNCHANGED <<queueVars, paths, batch, late, ledger, skipped, unshippable>>

-----------------------------------------------------------------------------
\* A crash of the agent ends shipOne wherever it is; its request may still be
\* under way.
QueueOnly ==
  \/ /\ EnqueueFull \/ Enqueue \/ New \/ PurgeStale \/ Age
     /\ UNCHANGED <<phase, paths, batch, reply, late>>
  \/ /\ Crash \/ CrashInEnqueue
     /\ EndShipOne
     /\ late' \in IF phase = "waiting"
                  THEN {late, late \cup {[attempt |-> MaxFaults + restarts, events |-> batch]}}
                  ELSE {late}

AgentQueueStep == QueueOnly /\ UNCHANGED <<ledger, faults, skipped, unshippable>>

Ship == ShipPeek \/ ShipRead \/ ShipKeeps \/ ShipDrops \/ ShipAcks

\* Everything collected, shipped and settled, or waiting for a start that the
\* bound no longer allows.
AtBound ==
  /\ collected = MaxEvents /\ Directory = {} /\ phase = "idle"
  /\ UNCHANGED vars

Next ==
  \/ AgentQueueStep \/ Ship \/ ShipGivesUp
  \/ BackendHandles \/ AnswerLost \/ LateRequestHandled \/ BackendFails \/ BackendRateLimits
  \/ AtBound

Spec == Init /\ [][Next]_vars

\* The agent's goroutines keep running, the agent is started again after a
\* crash (system startup), and the backend answers what it is asked.
FairSpec ==
  /\ Spec
  /\ WF_vars(New /\ AgentQueueStep)
  /\ WF_vars(Ship)
  /\ WF_vars(BackendHandles)
-----------------------------------------------------------------------------
(* Properties.                                                             *)

Queued == {files[n] : n \in Directory} \ {Corrupt}
Copies(e) == Cardinality({i \in DOMAIN ledger : ledger[i] = e})

\* The shape of the state: the directory never holds more than maxQueueFiles
\* files, a batch in flight never more than batchSize events.
TypeOK ==
  /\ Directory \subseteq Nat /\ Cardinality(Directory) <= maxQueueFiles
  /\ \A n \in Directory : files[n] \in Events \cup {Corrupt}
  /\ counter \in Nat /\ collected \in 0..MaxEvents /\ restarts \in 0..MaxRestarts
  /\ running \in BOOLEAN /\ purging \in BOOLEAN
  /\ aged \cup dropped \cup purged \cup torn \cup collided \cup skipped \cup unshippable
       \subseteq 1..collected
  /\ phase \in {"idle", "peeked", "waiting", "answered"}
  /\ reply \in {"none", "accepted", "retry", "client_error"}
  /\ Len(paths) <= batchSize /\ Len(batch) <= batchSize
  /\ \A r \in late : Len(r.events) \in 1..batchSize
  /\ ledger \in Seq(Events)
  /\ faults \in 0..MaxFaults

\* No event vanishes between collection and ledger: it is queued, stored, or
\* one of the drops the code makes on purpose took it (full directory, stale
\* file, half-written file, refused by EventCreate, 4xx).  Within one start no
\* file name is used twice; after a restart the seeded counter can run into a
\* name that is queued or being shipped, and an event is lost.
NothingVanishes ==
  \A e \in 1..collected :
    \/ e \in Queued \/ e \in Range(ledger)
    \/ e \in dropped \cup purged \cup torn \cup skipped \cup unshippable
    \/ e \in collided /\ restarts > 0

\* The price of at-least-once delivery: each further copy of an event in the
\* ledger takes another lost answer, abandoned request or restart.
CopiesNeedFaults == \A e \in Events : Copies(e) <= 1 + faults + restarts

\* Events first reach the ledger in the order they were collected, whatever is
\* lost, retried or delivered late: Peek takes the oldest first ("oldest first",
\* queue.go:83).  A restart seeds the counter anew and may reorder them; a batch
\* dropped on a 4xx may still have a copy under way.
FirstCopiesInOrder ==
  \A i, j \in DOMAIN ledger :
    i < j /\ ledger[j] < ledger[i] =>
      \/ \E k \in 1..(i - 1) : ledger[k] = ledger[j]
      \/ ledger[j] \in unshippable
      \/ restarts > 0

\* Every queued event leaves the queue: no file blocks the ones behind it, but
\* for an event PostgreSQL refuses, which fails every batch it is in.
QueueDrains ==
  \A e \in Events : e \in Queued ~> e \notin Queued \/ Queued \cap Poison # {}
=============================================================================
