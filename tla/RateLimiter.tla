----------------------------- MODULE RateLimiter ----------------------------
(***************************************************************************)
(* core/rate_limit.py: the in-memory sliding-window limiter in front of    *)
(* login, signup, the whistleblower form, rejected ingestion keys and, as  *)
(* a per-IP backstop, every request (main.py).  check_rate_limit is a      *)
(* plain function called on the event loop: each call is one step.  The    *)
(* clock is time.time(), taken here to be monotonic.                       *)
(***************************************************************************)
EXTENDS Integers, Sequences, FiniteSets, FiniteSetsExt

CONSTANTS
    Keys,               \* "login_ip:...", "login_user:...", "global:..." and so on
    max_requests,       \* what a key's caller allows
    window_seconds,     \*   within this many seconds
    _MAX_TRACKED_KEYS,  \* 50_000 in the code
    MaxClock            \* bound: how long the clock runs

ASSUME LimitAssumption == max_requests \in Nat \ {0} /\ window_seconds \in Nat
ASSUME CapacityAssumption == _MAX_TRACKED_KEYS \in Nat \ {0} /\ MaxClock \in Nat

VARIABLES
    _request_log,       \* per key its timestamps; <<>> for a key not in the dict
    now,                \* time.time()
    allowed,            \* history: when each key's allowed requests came
    refused             \* history: the last call, if it was refused

limiterVars == <<_request_log, now, allowed, refused>>

Tracked == {k \in Keys : _request_log[k] # <<>>}

LimiterInit ==
    /\ _request_log = [k \in Keys |-> <<>>]
    /\ now = 0
    /\ allowed = [k \in Keys |-> <<>>]
    /\ refused = {}

(* Fault: a timestamp exactly at the cutoff is dropped as well. *)
DropAgedInclusive(timestamps, cutoff) ==
    LET aged == Max({n \in 0..Len(timestamps) : \A i \in 1..n : timestamps[i] <= cutoff})
    IN  SubSeq(timestamps, aged + 1, Len(timestamps))

(* while timestamps and timestamps[0] < cutoff: timestamps.pop(0) *)
DropAged(timestamps, cutoff) ==
    LET aged == Max({n \in 0..Len(timestamps) : \A i \in 1..n : timestamps[i] < cutoff})
    IN  SubSeq(timestamps, aged + 1, Len(timestamps))

Allow(k, timestamps) ==
    /\ _request_log' = [_request_log EXCEPT ![k] = Append(timestamps, now)]
    /\ allowed' = [allowed EXCEPT ![k] = Append(@, now)]
    /\ refused' = {}
    /\ UNCHANGED now

(* Refusing leaves the aged timestamps dropped, and a key without any left *)
(* deleted.                                                                *)
Refuse(k, timestamps) ==
    /\ _request_log' = [_request_log EXCEPT ![k] = timestamps]
    /\ refused' = {k}
    /\ UNCHANGED <<now, allowed>>

(* Fault: one key too many. *)
CheckOneTooMany(k) ==
    LET timestamps == DropAged(_request_log[k], now - window_seconds)
        full == Cardinality(Tracked \ {k}) > _MAX_TRACKED_KEYS
    IN  IF IF timestamps # <<>> THEN Len(timestamps) >= max_requests ELSE full
        THEN Refuse(k, timestamps)
        ELSE Allow(k, timestamps)

(* A key with live timestamps is held to max_requests; any other is new,   *)
(* and needs a free place in the table (its own, if it was just deleted).  *)
check_rate_limit(k) ==
    LET timestamps == DropAged(_request_log[k], now - window_seconds)
        full == Cardinality(Tracked \ {k}) >= _MAX_TRACKED_KEYS
    IN  IF IF timestamps # <<>> THEN Len(timestamps) >= max_requests ELSE full
        THEN Refuse(k, timestamps)
        ELSE Allow(k, timestamps)

Tick ==
    /\ now < MaxClock
    /\ now' = now + 1
    /\ refused' = {}
    /\ UNCHANGED <<_request_log, allowed>>

LimiterNext == Tick \/ \E k \in Keys : check_rate_limit(k)

LimiterSpec == LimiterInit /\ [][LimiterNext]_limiterVars

----------------------------------------------------------------------------
(* The limiter as it is meant: how many requests of k were allowed in the  *)
(* window that ends at t.                                                  *)
InWindow(k, t) ==
    Cardinality({i \in DOMAIN allowed[k] : allowed[k][i] \in (t - window_seconds)..t})

(* Types of the table and of the histories; the table never holds more     *)
(* than _MAX_TRACKED_KEYS entries.                                         *)
LimiterTypeOK ==
    /\ _request_log \in [Keys -> Seq(0..MaxClock)]
    /\ Cardinality(Tracked) <= _MAX_TRACKED_KEYS
    /\ allowed \in [Keys -> Seq(0..MaxClock)]
    /\ now \in 0..MaxClock
    /\ refused \subseteq Keys

(* The table's log stands for the true history, however a key's entry was  *)
(* dropped and created again: no key ever gets more than max_requests into *)
(* any window, wherever the window starts; and a key is refused only when  *)
(* it has used its window up, or has no entry and the table is full.       *)
WindowExact ==
    /\ \A k \in Keys, t \in 0..now : InWindow(k, t) <= max_requests
    /\ \A k \in refused :
         \/ InWindow(k, now) >= max_requests
         \/ _request_log[k] = <<>> /\ Cardinality(Tracked) >= _MAX_TRACKED_KEYS
=============================================================================
