------------------------------ MODULE SearchPages ------------------------------
(***************************************************************************)
(* The pages of both front ends that ask the server a question and show    *)
(* the answer: filters, searches, selections, reports and polls.  None of  *)
(* them cancels a request or looks at which question an answer is to, so   *)
(* answers arrive in any order and the last to arrive is the one shown.    *)
(*                                                                         *)
(* The server's records are only ever added to, so that the newest record  *)
(* matching a question identifies its answer.  The layout of the answers,  *)
(* and the filters' several fields, are left out.                          *)
(***************************************************************************)
EXTENDS Naturals, FiniteSets

CONSTANTS
  Queries,       \* the questions a reader may ask of a page
  NoQuery,
  MaxRecords,    \* bound: records added while the page is open
  MaxAsks,       \* bound: the reader's own actions
  MaxFaults,     \* bound: requests and answers lost
  MaxInFlight    \* bound: requests in flight

ASSUME SearchAssumption ==
  /\ NoQuery \notin Queries
  /\ {MaxRecords, MaxAsks, MaxFaults, MaxInFlight} \subseteq Nat /\ MaxInFlight # 0

-----------------------------------------------------------------------------
(* The pages.                                                              *)

SearchPage ==
  [input |-> TRUE,         \* whether there is a question to edit
   starts |-> "mount",     \* what sends a request: every "change" of the filters, a
                           \* change once it is "debounced", a "submit" or a "select"
   loads |-> TRUE,         \* whether opening the page sends one
   guarded |-> FALSE,      \* whether the button is disabled while one is under way
   clears |-> FALSE,       \* whether starting one removes the last answer
   polls |-> "never",      \* a timer: "always", or while the reader has it "live"
   newer |-> FALSE,        \* whether a polled answer is shown only if it has news
   refresh |-> FALSE,      \* a refresh button, disabled if guarded
   posts |-> FALSE]        \* whether the reader can add a record

\* Fault: every polled answer is shown.
EventsPageShowsAll == [SearchPage EXCEPT !.starts = "change", !.polls = "live"]

EventsPage == [SearchPage EXCEPT !.starts = "change", !.polls = "live", !.newer = TRUE]
FileActivityPage == [SearchPage EXCEPT !.starts = "change", !.polls = "always"]
\* The Enter key searches whether or not a search is under way.
AuditTrailPage == [SearchPage EXCEPT !.starts = "submit", !.loads = FALSE]
ForensicsPage == [SearchPage EXCEPT !.starts = "submit", !.loads = FALSE, !.guarded = TRUE]
InvestigatePage ==
  [SearchPage EXCEPT !.starts = "submit", !.loads = FALSE, !.guarded = TRUE, !.clears = TRUE]
ChainPage ==
  [SearchPage EXCEPT !.input = FALSE, !.starts = "submit", !.loads = FALSE, !.guarded = TRUE,
                     !.clears = TRUE]
MachinesPage == [SearchPage EXCEPT !.input = FALSE, !.polls = "always", !.refresh = TRUE]
\* A ping that fails is shown too, as "Offline".
HealthPage ==
  [SearchPage EXCEPT !.input = FALSE, !.polls = "always", !.refresh = TRUE, !.guarded = TRUE]
StaffAuditPage == [SearchPage EXCEPT !.starts = "debounced", !.refresh = TRUE]
SupportPage ==
  [SearchPage EXCEPT !.starts = "select", !.loads = FALSE, !.clears = TRUE, !.posts = TRUE]

SearchPageOf ==
  [events |-> EventsPage, fileActivity |-> FileActivityPage, auditTrail |-> AuditTrailPage,
   forensics |-> ForensicsPage, investigate |-> InvestigatePage, chain |-> ChainPage,
   machines |-> MachinesPage, health |-> HealthPage, staffAudit |-> StaffAuditPage,
   support |-> SupportPage]

VARIABLES
  view,          \* the page this tab shows
  newest,        \* for each question, the newest record that matches it
  head,          \* records there are
  text,          \* the question in the page's inputs
  asked,         \* the question last sent
  timer,         \* whether a debounced change is waiting
  live,          \* whether the timer polls
  screen,        \* the answer shown: whose, up to which record, and the tenants
                 \* whose new notes have been put on top of it
  seen,          \* maxSeenSeq
  loading,
  failed,        \* whether the last answer was a failure
  requests,
  asks, faults,
  overlap        \* whether requests have been in flight together

searchVars == <<view, newest, head, text, asked, timer, live, screen, seen, loading, failed,
                requests, asks, faults, overlap>>
server == <<newest, head>>
inputs == <<text, timer, live>>
shownVars == <<screen, seen, loading, failed>>

SearchTraits == SearchPageOf[view]
NothingShown == [of |-> NoQuery, at |-> 0, added |-> {}]

FreshRequestId == CHOOSE i \in 1 .. MaxInFlight : \A c \in requests : c.id # i
Question(kind, q) ==
  [id |-> FreshRequestId, kind |-> kind, of |-> q, done |-> FALSE, ok |-> FALSE, at |-> 0]

\* Requests overlap until one that replaces the screen is sent alone.
Replaces(kind) == kind = "search" \/ (kind = "poll" /\ ~SearchTraits.newer)

Send(kind, q) ==
  /\ Cardinality(requests) < MaxInFlight
  /\ requests' = requests \cup {Question(kind, q)}
  /\ overlap' = (requests # {} \/ (overlap /\ ~Replaces(kind)))

SearchInit ==
  /\ view \in DOMAIN SearchPageOf
  /\ newest = [q \in Queries |-> 0] /\ head = 0
  /\ text \in Queries
  /\ timer = (SearchPageOf[view].starts = "debounced")
  /\ live = (SearchPageOf[view].polls = "always")
  /\ screen = NothingShown /\ seen = 0 /\ failed = FALSE
  /\ asks = 0 /\ faults = 0 /\ overlap = FALSE
  /\ IF SearchPageOf[view].loads /\ ~timer
     THEN /\ asked = text /\ loading = TRUE
          /\ requests = {[id |-> 1, kind |-> "search", of |-> text,
                          done |-> FALSE, ok |-> FALSE, at |-> 0]}
     ELSE asked = NoQuery /\ loading = FALSE /\ requests = {}

-----------------------------------------------------------------------------
(* The reader and the timers.                                              *)

Ask == asks < MaxAsks /\ asks' = asks + 1

\* setLoading(true), setError(null) and the request.
Start(q) ==
  /\ Send("search", q)
  /\ asked' = q /\ loading' = TRUE /\ failed' = FALSE
  /\ screen' = IF SearchTraits.clears THEN NothingShown ELSE screen
  /\ UNCHANGED <<view, server, seen, faults>>

\* Fault: a selection is only highlighted.
ChangeSelectsOnly(q) ==
  /\ Ask /\ SearchTraits.input /\ q # text
  /\ text' = q
  /\ CASE SearchTraits.starts = "change" -> Start(q) /\ UNCHANGED timer
       [] SearchTraits.starts = "debounced" ->
            /\ timer' = TRUE
            /\ UNCHANGED <<view, server, asked, shownVars, requests, faults, overlap>>
       [] OTHER -> UNCHANGED <<view, server, asked, timer, shownVars, requests, faults, overlap>>
  /\ UNCHANGED live

\* The reader edits a filter, types or selects.
Change(q) ==
  /\ Ask /\ SearchTraits.input /\ q # text
  /\ text' = q
  /\ CASE SearchTraits.starts \in {"change", "select"} -> Start(q) /\ UNCHANGED timer
       [] SearchTraits.starts = "debounced" ->
            /\ timer' = TRUE
            /\ UNCHANGED <<view, server, asked, shownVars, requests, faults, overlap>>
       [] OTHER -> UNCHANGED <<view, server, asked, timer, shownVars, requests, faults, overlap>>
  /\ UNCHANGED live

\* Another selection of what is selected already.
Select ==
  /\ Ask /\ SearchTraits.starts = "select"
  /\ Start(text)
  /\ UNCHANGED inputs

Submit ==
  /\ Ask /\ SearchTraits.starts = "submit" /\ (SearchTraits.guarded => ~loading)
  /\ Start(text)
  /\ UNCHANGED inputs

Refresh ==
  /\ Ask /\ SearchTraits.refresh /\ (SearchTraits.guarded => ~loading)
  /\ Start(text)
  /\ UNCHANGED inputs

DebounceFires ==
  /\ timer
  /\ timer' = FALSE
  /\ Start(text)
  /\ UNCHANGED <<text, live, asks>>

GoLive ==
  /\ Ask /\ SearchTraits.polls = "live"
  /\ live' = ~live
  /\ UNCHANGED <<view, server, text, asked, timer, shownVars, requests, faults, overlap>>

\* The interval, which a change of the filters starts anew.
Poll ==
  /\ live
  /\ Send("poll", text)
  /\ asked' = text /\ loading' = (loading \/ SearchTraits.guarded)
  /\ UNCHANGED <<view, server, inputs, screen, seen, failed, asks, faults>>

\* A note for the selected tenant.
Post ==
  /\ Ask /\ SearchTraits.posts /\ asked # NoQuery
  /\ Send("post", text)
  /\ UNCHANGED <<view, server, inputs, asked, shownVars, faults>>

-----------------------------------------------------------------------------
(* The server and the network.                                             *)

\* Fault: every record is stored twice.
AppendTwice(q) == head' = head + 2 /\ newest' = [newest EXCEPT ![q] = head + 2]

Append(q) == head' = head + 1 /\ newest' = [newest EXCEPT ![q] = head + 1]

Record(q) ==
  /\ head < MaxRecords
  /\ Append(q)
  /\ UNCHANGED <<view, inputs, asked, shownVars, requests, asks, faults, overlap>>

Answered(c, ok, at) == (requests \ {c}) \cup {[c EXCEPT !.done = TRUE, !.ok = ok, !.at = at]}

Serve(c) ==
  /\ ~c.done
  /\ IF c.kind = "post" THEN Append(c.of) ELSE UNCHANGED server
  /\ requests' = Answered(c, TRUE, newest'[c.of])
  /\ UNCHANGED <<view, inputs, asked, shownVars, asks, faults, overlap>>

LoseAnswer(c) ==
  /\ faults < MaxFaults /\ (c.done => c.ok)
  /\ faults' = faults + 1
  /\ requests' = Answered(c, FALSE, 0)
  /\ UNCHANGED <<view, server, inputs, asked, shownVars, asks, overlap>>

-----------------------------------------------------------------------------
(* The answers, in any order.                                              *)

Show(c) == screen' = [of |-> c.of, at |-> c.at, added |-> {}] /\ seen' = c.at

AnswerSearch(c) ==
  /\ c.kind = "search" /\ c.done
  /\ IF c.ok THEN Show(c) ELSE UNCHANGED <<screen, seen>>
  /\ loading' = FALSE /\ failed' = ~c.ok
  /\ requests' = requests \ {c}
  /\ UNCHANGED <<view, server, inputs, asked, asks, faults, overlap>>

\* Fault: polls only fill an empty screen.
AnswerPollOnce(c) ==
  /\ c.kind = "poll" /\ c.done
  /\ IF c.ok /\ screen.of = NoQuery THEN Show(c) ELSE UNCHANGED <<screen, seen>>
  /\ IF SearchTraits.newer THEN UNCHANGED <<loading, failed>>
     ELSE loading' = FALSE /\ failed' = ~c.ok
  /\ requests' = requests \ {c}
  /\ UNCHANGED <<view, server, inputs, asked, asks, faults, overlap>>

\* The live feed shows a polled answer if it holds a record newer than any
\* seen, whatever filters it was asked with, and ignores failures; the other
\* polls run the same function as the first load.
AnswerPoll(c) ==
  /\ c.kind = "poll" /\ c.done
  /\ IF c.ok /\ (SearchTraits.newer => c.at > seen) THEN Show(c) ELSE UNCHANGED <<screen, seen>>
  /\ IF SearchTraits.newer THEN UNCHANGED <<loading, failed>>
     ELSE loading' = FALSE /\ failed' = ~c.ok
  /\ requests' = requests \ {c}
  /\ UNCHANGED <<view, server, inputs, asked, asks, faults, overlap>>

\* The new note goes on top of whatever is shown by then.
AnswerPost(c) ==
  /\ c.kind = "post" /\ c.done
  /\ screen' = IF c.ok THEN [screen EXCEPT !.added = @ \cup {c.of}] ELSE screen
  /\ requests' = requests \ {c}
  /\ UNCHANGED <<view, server, inputs, asked, seen, loading, failed, asks, faults, overlap>>

-----------------------------------------------------------------------------
Asker ==
  \/ \E q \in Queries : Change(q)
  \/ Select \/ Submit \/ Refresh \/ GoLive \/ Post

ServeSome == \E c \in requests : Serve(c)
AnswerSome == \E c \in requests : AnswerSearch(c) \/ AnswerPoll(c) \/ AnswerPost(c)

SearchNext ==
  \/ Asker \/ DebounceFires \/ Poll
  \/ \E q \in Queries : Record(q)
  \/ ServeSome \/ \E c \in requests : LoseAnswer(c)
  \/ AnswerSome

SearchSpec == SearchInit /\ [][SearchNext]_searchVars

\* Timers go off, the server handles each request and each answer reaches the
\* page; the reader need not do anything.
SearchFairSpec ==
  /\ SearchSpec
  /\ WF_searchVars(DebounceFires) /\ WF_searchVars(Poll)
  /\ \A i \in 1 .. MaxInFlight :
       /\ WF_searchVars(\E c \in requests : c.id = i /\ Serve(c))
       /\ WF_searchVars(\E c \in requests :
                    c.id = i /\ (AnswerSearch(c) \/ AnswerPoll(c) \/ AnswerPost(c)))

-----------------------------------------------------------------------------
(* Properties.                                                             *)

\* Every variable keeps its type.
SearchTypeOK ==
  /\ view \in DOMAIN SearchPageOf
  /\ newest \in [Queries -> 0 .. MaxRecords + MaxAsks] /\ head \in 0 .. MaxRecords + MaxAsks
  /\ text \in Queries /\ asked \in Queries \cup {NoQuery}
  /\ {timer, live, loading, failed, overlap} \subseteq BOOLEAN
  /\ screen \in [of : Queries \cup {NoQuery}, at : Nat, added : SUBSET Queries] /\ seen \in Nat
  /\ requests \subseteq [id : 1 .. MaxInFlight, kind : {"search", "poll", "post"}, of : Queries,
                      done : BOOLEAN, ok : BOOLEAN, at : Nat]

Quiet == requests = {} /\ ~timer

\* Once every request is answered, the answer on the screen, and every note put
\* on top of it, is to the question the page shows it under; unless requests
\* have overlapped, the last one failed, or the reader has since edited the
\* question of a page that waits for the button (reports and exports are headed
\* by what is in the input, not by what was asked).
ScreenAnswersTheQuestion ==
  Quiet /\ ~overlap /\ ~failed =>
    /\ screen.of \in {NoQuery, text} \/ (SearchTraits.starts = "submit" /\ screen.of = asked)
    /\ screen.added \subseteq {text}

\* The live feed's polls never take a record off the screen that was on it:
\* only a search may show less of the same question.
LiveFeedNeverRewinds ==
  [][ view = "events" /\ screen'.of = screen.of /\ screen'.at < screen.at =>
        \E c \in requests \ requests' : c.kind = "search" ]_searchVars

\* On the events page an answer to other filters is on the screen, with a record
\* newer than all that match the present ones: no poll ever has news.
Trapped == view = "events" /\ screen.of # text /\ seen >= newest[text]

\* A search that failed hides the feed, and no poll brings it back.
Hidden == view = "events" /\ failed

\* A page that polls comes to show, and goes on showing, the newest record that
\* matches its question; the live feed does unless it is caught in one of these
\* two ways, or nothing matches yet.
PollingCatchesUp ==
  <>[](live => \/ screen.of = text /\ screen.at = newest[text]
               \/ Trapped \/ Hidden \/ (SearchTraits.newer /\ newest[text] = 0))
=============================================================================
