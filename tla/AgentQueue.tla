------------------------------ MODULE AgentQueue ------------------------------
(***************************************************************************)
(* The agent's durable queue (agent/queue/queue.go): one JSON file per     *)
(* event in the queue directory, named by a counter that lives in memory   *)
(* and is seeded again at every start of the process.                      *)
(*                                                                         *)
(* Events are numbered in the order the collectors hand them over.  A file *)
(* name is its counter value: names are zero-padded, so their              *)
(* alphabetical order, which Peek sorts by, is the numeric one.            *)
(***************************************************************************)
EXTENDS Integers, Sequences, SequencesExt, FiniteSets, FiniteSetsExt

CONSTANTS
  MaxEvents,     \* bound: events the collectors produce
  MaxRestarts,   \* bound: starts of the process after the first
  maxQueueFiles, \* Enqueue drops once the directory holds this many files
  SeedSpread     \* New seeds with len(files) + (UnixNano % SeedSpread)

ASSUME QueueAssumption ==
  /\ MaxEvents \in Nat /\ MaxRestarts \in Nat
  /\ maxQueueFiles \in Nat \ {0} /\ SeedSpread \in Nat \ {0}

VARIABLES
  files,         \* queue directory: file name -> event, or Corrupt
  counter,       \* q.counter
  running,       \* the agent process is alive
  purging,       \* the purgeStale goroutine of this start has not finished
  collected,     \* how many events the collectors have produced
  restarts,
  aged,          \* events that happened more than seven days ago
  dropped,       \* events Enqueue refused because the directory was full
  purged,        \* events purgeStale removed
  torn,          \* events whose file a crash left half-written
  collided,      \* events whose file name another one held or was being shipped under
  paths          \* the names the shipper holds from ReadBatch and has not acked

queueVars == <<files, counter, running, purging, collected, restarts,
               aged, dropped, purged, torn, collided>>

Events == 1..MaxEvents
Corrupt == 0
Directory == DOMAIN files

\* Writing, and removing, files of the directory.
Put(name, content) ==
  [n \in Directory \cup {name} |-> IF n = name THEN content ELSE files[n]]
Without(names) == [n \in Directory \ names |-> files[n]]

QueueInit ==
  /\ files = [n \in {} |-> Corrupt]
  /\ counter = 0
  /\ running = TRUE
  /\ purging = TRUE
  /\ collected = 0
  /\ restarts = 0
  /\ aged = {} /\ dropped = {} /\ purged = {} /\ torn = {} /\ collided = {}

\* Enqueue finds the directory full and only counts the drop.
EnqueueFull ==
  /\ running /\ collected < MaxEvents
  /\ Cardinality(Directory) >= maxQueueFiles
  /\ collected' = collected + 1
  /\ dropped' = dropped \cup {collected + 1}
  /\ UNCHANGED <<files, counter, running, purging, restarts, aged, purged, torn, collided>>

\* Fault: no look at the directory's size.
EnqueueUnbounded ==
  /\ running /\ collected < MaxEvents
  /\ counter' = counter + 1
  /\ collected' = collected + 1
  /\ files' = Put(counter + 1, collected + 1)
  /\ UNCHANGED <<running, purging, restarts, aged, dropped, purged, torn, collided>>

\* Enqueue, under the mutex: next counter value, next file.  os.WriteFile
\* truncates and replaces a file of that name if there is one.
Enqueue ==
  LET name == counter + 1 IN
  /\ running /\ collected < MaxEvents
  /\ Cardinality(Directory) < maxQueueFiles
  /\ counter' = name
  /\ collected' = collected + 1
  /\ files' = Put(name, collected + 1)
  /\ collided' = IF name \in Directory \cup Range(paths)
                 THEN collided \cup {collected + 1}
                        \cup ({files[n] : n \in Directory \cap {name}} \ {Corrupt})
                 ELSE collided
  /\ UNCHANGED <<running, purging, restarts, aged, dropped, purged, torn>>

\* The machine goes down while Enqueue is writing: the file is there, its
\* content is not.
CrashInEnqueue ==
  LET name == counter + 1 IN
  /\ running /\ collected < MaxEvents /\ restarts < MaxRestarts
  /\ Cardinality(Directory) < maxQueueFiles
  /\ collected' = collected + 1
  /\ files' = Put(name, Corrupt)
  /\ torn' = torn \cup {collected + 1} \cup ({files[n] : n \in Directory \cap {name}} \ {Corrupt})
  /\ running' = FALSE
  /\ purging' = FALSE
  /\ UNCHANGED <<counter, restarts, aged, dropped, purged, collided>>

Crash ==
  /\ running /\ restarts < MaxRestarts
  /\ running' = FALSE
  /\ purging' = FALSE
  /\ UNCHANGED <<files, counter, collected, restarts, aged, dropped, purged, torn, collided>>

\* New: the counter starts from the number of files plus a value of the clock
\* if there are files, and from zero otherwise; purgeStale is started.
New ==
  /\ ~running
  /\ running' = TRUE
  /\ restarts' = restarts + 1
  /\ IF Directory = {} THEN counter' = 0
     ELSE \E nanos \in 0..(SeedSpread - 1) : counter' = Cardinality(Directory) + nanos
  /\ purging' = TRUE
  /\ UNCHANGED <<files, collected, aged, dropped, purged, torn, collided>>

\* Files older than maxFileAgeDays: their event is that old; a torn file may be.
Stale == {n \in Directory : files[n] \in aged}
TornFiles == {n \in Directory : files[n] = Corrupt /\ aged # {}}

\* purgeStale, once per start, concurrently with everything else.
PurgeStale ==
  /\ running /\ purging
  /\ purging' = FALSE
  /\ \E old \in SUBSET TornFiles : files' = Without(Stale \cup old)
  /\ purged' = purged \cup {files[n] : n \in Stale}
  /\ UNCHANGED <<counter, running, collected, restarts, aged, dropped, torn, collided>>

\* Seven days pass for everything collected so far.
Age ==
  /\ aged # 1..collected
  /\ aged' = 1..collected
  /\ UNCHANGED <<files, counter, running, purging, collected, restarts, dropped, purged,
                 torn, collided>>

-----------------------------------------------------------------------------
(* What the shipper calls.                                                 *)

\* The numbers of S in ascending order.
InOrder(S) ==
  CHOOSE s \in [1 .. Cardinality(S) -> S] : \A i, j \in DOMAIN s : i < j => s[i] < s[j]

\* The elements of s at the places in S, in the order of s.
PickedFrom(s, S) == [i \in 1 .. Cardinality(S) |-> s[InOrder(S)[i]]]

\* The first n elements of s, or all of them.
FirstOf(s, n) == SubSeq(s, 1, Min({Len(s), n}))

\* Fault: the names are sorted the wrong way round.
PeekNewest(n) == FirstOf(Reverse(InOrder(Directory)), n)

\* Peek(n): the first n names in name order.
Peek(n) == FirstOf(InOrder(Directory), n)

\* ReadBatch, after Peek: of the peeked paths, the ones it can still read and
\* parse; unreadable ones are skipped, corrupt ones are also removed.
Parsable(peeked) ==
  {i \in DOMAIN peeked : peeked[i] \in Directory /\ files[peeked[i]] # Corrupt}
Readable(peeked) == PickedFrom(peeked, Parsable(peeked))
Unparsable(peeked) == {n \in Range(peeked) : n \in Directory /\ files[n] = Corrupt}

\* Ack: the paths are removed, without looking at what they hold by now.
Ack(shipped) == files' = Without(Range(shipped))
=============================================================================
