------------------------------ MODULE TablePages ------------------------------
(***************************************************************************)
(* A browser tab on one of the pages with a table, the requests it has in  *)
(* flight, and the server's table, which others change too.  Requests take *)
(* effect and are answered in any order, or fail; the reader may close a   *)
(* dialog, or leave the page and come back, while they are under way.      *)
(*                                                                         *)
(* What a page looks like, its texts and its error messages are left out;  *)
(* so are the filters, which only choose the rows drawn.                   *)
(***************************************************************************)
EXTENDS DashboardTables, StaffTables, Naturals, FiniteSets

CONSTANTS
  Rows,          \* rows the server's table may hold
  NoRow,
  MaxEvents,     \* bound: requests the reader starts, and mishaps
  MaxOpen,       \* bound: dialogs open at a time
  MaxMishaps     \* bound: failed requests and lost answers, changes others
                 \* make, and times the reader opens the page again

ASSUME PagesAssumption ==
  /\ NoRow \notin Rows
  /\ {MaxEvents, MaxOpen, MaxMishaps} \subseteq Nat

PageOf ==
  [users |-> UsersPage, team |-> TeamPage, apiKeys |-> ApiKeysPage, sources |-> SourcesPage,
   deletions |-> DeletionsPage, alerts |-> AlertsPage,
   tenants |-> TenantsPage, tenantHeader |-> TenantHeader, tenantUsers |-> TenantUsersTab,
   tenantKeys |-> TenantKeysTab, tenantNotes |-> TenantNotesTab, staffUsers |-> StaffUsersPage,
   admins |-> AdminsPage, staffKeys |-> StaffKeysPage, announcements |-> AnnouncementsPage,
   plans |-> PlansPage, billing |-> BillingPage, queue |-> QueuePage]

VARIABLES
  page,          \* the page this tab shows
  table,         \* the server's rows
  shown,         \* the rows the tab shows
  busy,          \* for each flag, the row it names
  dialogs,       \* for each dialog, the row it is open for
  secret,        \* the request whose one-time secret is on the screen
  error,         \* whether an error that hides the rows is up
  calls,         \* requests in flight
  clicks, mishaps,
  excuse,        \* why the rows shown may differ from the server's
  crossed        \* whether two requests have competed for one flag

vars == <<page, table, shown, busy, dialogs, secret, error, calls,
          clicks, mishaps, excuse, crossed>>
bounds == <<clicks, mishaps>>

Traits == PageOf[page]
Handles(c) == Traits.handlers[c.op]
NoRows == [r \in Rows |-> "none"]
NoFlags == [l \in Locks |-> NoRow]
NoDialogs == [d \in Dialogs |-> NoRow]

Changes == {c \in calls : c.op # "list"}
FreshId == CHOOSE i \in 1 .. Cardinality(calls) + 2 : /\ \A c \in calls : c.id # i
                                                      /\ i # secret

\* A request: done once the server has handled it (or it has failed); mine
\* while the dialog and the page it was sent from are still there.
Request(op, r, dialog, flag) ==
  [id |-> FreshId, op |-> op, row |-> r, dialog |-> dialog, flag |-> flag,
   mine |-> TRUE, here |-> TRUE, done |-> FALSE, ok |-> FALSE, answer |-> NoRows]

\* Two requests of which the order matters to the rows shown.
Conflict(c, d) == c.op = "list" \/ d.op = "list" \/ c.row = d.row
ExcuseOverlap(new, old) ==
  excuse' = excuse \cup {x \in {"overlap"} : \E c \in old : Conflict(new, c)}

FirstLoad == Request("list", NoRow, "", "")

Init ==
  /\ page \in DOMAIN PageOf
  /\ table \in [Rows -> PageOf[page].statuses]
  /\ shown = NoRows /\ busy = NoFlags /\ dialogs = NoDialogs
  /\ secret = 0 /\ error = FALSE
  /\ clicks = 0 /\ mishaps = 0
  /\ calls = {[id |-> 1, op |-> "list", row |-> NoRow, dialog |-> "", flag |-> "",
               mine |-> TRUE, here |-> TRUE, done |-> FALSE, ok |-> FALSE, answer |-> NoRows]}
  /\ excuse = {} /\ crossed = FALSE

\* A bounded number of things go wrong.
Mishap ==
  /\ mishaps < MaxMishaps /\ clicks + mishaps < MaxEvents
  /\ mishaps' = mishaps + 1

-----------------------------------------------------------------------------
(* The reader.                                                             *)

\* What covers the page: a dialog, or a secret.
Covering == {d \in Traits.overlays : dialogs[d] # NoRow}
SecretCovers == secret # 0 /\ Traits.secret = "overlay"

Held(flags, r) ==
  \E l \in flags : IF l \in FormLocks THEN busy[l] # NoRow ELSE busy[l] = r

Visible == IF error THEN NoRows ELSE shown

\* A dialog is opened from its row's button; an inline one moves from row to row.
Open(ctl, r) ==
  /\ clicks + mishaps < MaxEvents
  /\ Cardinality({d \in Dialogs \ {ctl.dialog} : dialogs[d] # NoRow}) < MaxOpen
  /\ ctl.dialog # "" /\ dialogs[ctl.dialog] # r
  /\ Covering = {} /\ ~SecretCovers
  /\ Visible[r] \in ctl.drawn /\ ~Held(ctl.opener, r)
  /\ dialogs' = [dialogs EXCEPT ![ctl.dialog] = r]
  /\ UNCHANGED <<page, table, shown, busy, secret, error, calls, bounds, excuse, crossed>>

\* Cancel, or a click beside the dialog.  A flag inside the dialog is gone,
\* a request sent from it goes on.
Close(d) ==
  /\ dialogs[d] # NoRow /\ ~SecretCovers
  /\ dialogs' = [dialogs EXCEPT ![d] = NoRow]
  /\ busy' = IF d \in Traits.overlays THEN [busy EXCEPT !["modal"] = NoRow] ELSE busy
  /\ calls' = {[c EXCEPT !.mine = @ /\ c.dialog # d] : c \in calls}
  /\ crossed' = (crossed \/ \E c \in Changes : c.dialog = d /\ c.flag = "modal")
  /\ UNCHANGED <<page, table, shown, secret, error, bounds, excuse>>

Dismiss ==
  /\ secret # 0
  /\ secret' = 0
  /\ UNCHANGED <<page, table, shown, busy, dialogs, error, calls, bounds, excuse, crossed>>

\* An overlay keeps what it was opened for; anything else is drawn with its row.
Usable(ctl, r) ==
  /\ IF ctl.dialog = "" THEN Covering = {} ELSE dialogs[ctl.dialog] = r /\ Covering \subseteq {ctl.dialog}
  /\ ctl.dialog \in Traits.overlays \/ Visible[r] \in ctl.drawn
  /\ ~SecretCovers /\ ~Held(ctl.blockedBy, r)

\* The handler runs up to its await.
Click(ctl, r) ==
  LET h == Traits.handlers[ctl.op]
      new == Request(ctl.op, r, ctl.dialog, h.lock)
  IN
  /\ clicks + mishaps < MaxEvents /\ Usable(ctl, r)
  /\ clicks' = clicks + 1
  /\ calls' = calls \cup {new}
  /\ busy' = IF h.lock = "" THEN busy ELSE [busy EXCEPT ![h.lock] = r]
  /\ secret' = IF h.clears THEN 0 ELSE secret
  /\ ExcuseOverlap(new, calls)
  /\ crossed' = (crossed \/ \E c \in calls : c.flag = h.lock /\ c.flag # "" /\ c.row # r)
  /\ UNCHANGED <<page, table, shown, dialogs, error, mishaps>>

\* The refresh button, or a tab entered again with nothing in it.
Reload ==
  /\ clicks + mishaps < MaxEvents /\ clicks' = clicks + 1
  /\ \/ Traits.reload = "button"
     \/ Traits.reload = "empty" /\ shown = NoRows
  /\ Covering = {}
  /\ calls' = calls \cup {FirstLoad}
  /\ ExcuseOverlap(FirstLoad, calls)
  /\ UNCHANGED <<page, table, shown, busy, dialogs, secret, error, mishaps, crossed>>

\* The reader leaves and comes back: a new page, while the changes the old one
\* asked for go on.
Visit ==
  LET left == {[c EXCEPT !.mine = FALSE, !.here = FALSE] : c \in Changes}
  IN
  /\ Mishap
  /\ shown' = NoRows /\ busy' = NoFlags /\ dialogs' = NoDialogs
  /\ secret' = 0 /\ error' = FALSE
  /\ calls' = left \cup {FirstLoad}
  /\ excuse' = {x \in {"overlap"} : left # {}}
  /\ crossed' = (left # {})
  /\ UNCHANGED <<page, table, clicks>>

-----------------------------------------------------------------------------
(* The backend and the network.                                            *)

\* Someone else, or another tab.
Other(r) ==
  /\ Mishap
  /\ \E s \in Traits.statuses \ {table[r]} : table' = [table EXCEPT ![r] = s]
  /\ excuse' = excuse \cup {"other"}
  /\ UNCHANGED <<page, shown, busy, dialogs, secret, error, calls, clicks, crossed>>

Replaced(c, new) == (calls \ {c}) \cup {new}

\* A list read while nothing else is under way settles the account.
ServeList(c) ==
  /\ c.op = "list" /\ ~c.done
  /\ calls' = Replaced(c, [c EXCEPT !.done = TRUE, !.ok = TRUE, !.answer = table])
  /\ excuse' = IF calls = {c} THEN {} ELSE excuse
  /\ UNCHANGED <<page, table, shown, busy, dialogs, secret, error, bounds, crossed>>

ServeChange(c) ==
  LET accepts == Handles(c).does IN
  /\ c.op # "list" /\ ~c.done
  /\ IF table[c.row] \in DOMAIN accepts
     THEN \E s \in accepts[table[c.row]] :
            /\ table' = [table EXCEPT ![c.row] = s]
            /\ calls' = Replaced(c, [c EXCEPT !.done = TRUE, !.ok = TRUE,
                                                    !.answer[c.row] = s])
     ELSE /\ calls' = Replaced(c, [c EXCEPT !.done = TRUE])
          /\ UNCHANGED table
  /\ UNCHANGED <<page, shown, busy, dialogs, secret, error, bounds, excuse, crossed>>

\* The request does not arrive or fails before it commits, or its answer is lost.
Lose(c) ==
  /\ Mishap /\ (c.done => c.ok)
  /\ calls' = Replaced(c, [c EXCEPT !.done = TRUE, !.ok = FALSE, !.answer = NoRows])
  /\ excuse' = excuse \cup {"lost"}
  /\ UNCHANGED <<page, table, shown, busy, dialogs, secret, error, clicks, crossed>>

-----------------------------------------------------------------------------
(* The answers, in any order.                                              *)

\* A flag inside a dialog is only the open dialog's.
Release(c) ==
  IF c.flag = "" \/ (c.flag = "modal" /\ ~c.mine) THEN busy ELSE [busy EXCEPT ![c.flag] = NoRow]

\* Whether requests still compete.
StillCrossed(rest) == crossed /\ \E c \in rest : c.flag # ""

\* setRows, or the message of a failed load; then the flag an awaited reload held.
AnswerList(c) ==
  /\ c.op = "list" /\ c.done
  /\ shown' = IF c.ok THEN c.answer ELSE shown
  /\ error' = (error \/ (Traits.hides /\ ~c.ok))
  /\ busy' = Release(c)
  /\ calls' = calls \ {c}
  /\ crossed' = StillCrossed(calls')
  /\ UNCHANGED <<page, table, dialogs, secret, bounds, excuse>>

\* What the continuation does to the rows shown.
Patched(c) ==
  LET r == c.row
      to == CASE Handles(c).then \in {"put", "patch"} -> c.answer[r]
              [] Handles(c).then = "off" -> "off"
              [] Handles(c).then = "drop" -> "none"
              [] OTHER -> shown[r]
      listed == shown[r] # "none" \/ Handles(c).then = "put"
  IN [shown EXCEPT ![r] = IF listed THEN to ELSE @]

Closed(kinds) == [d \in Dialogs |-> IF d \in kinds THEN NoRow ELSE dialogs[d]]

AnswerOk(c) ==
  LET h == Handles(c)
      rest == calls \ {c}
      reload == [Request("list", NoRow, "", IF h.awaits THEN c.flag ELSE "") EXCEPT !.mine = c.mine]
  IN
  /\ c.op # "list" /\ c.done /\ c.ok /\ c.here
  /\ shown' = Patched(c)
  /\ dialogs' = Closed(h.closes \cup h.always)
  /\ secret' = IF h.reveals THEN c.id ELSE secret
  /\ busy' = LET freed == IF h.awaits THEN busy ELSE Release(c)
             IN IF \E d \in (h.closes \cup h.always) \cap Traits.overlays : dialogs[d] # NoRow
                THEN [freed EXCEPT !["modal"] = NoRow] ELSE freed
  /\ IF h.then = "reload"
     THEN calls' = rest \cup {reload} /\ ExcuseOverlap(reload, rest)
     ELSE calls' = rest /\ UNCHANGED excuse
  /\ crossed' = StillCrossed(calls')
  /\ UNCHANGED <<page, table, error, bounds>>

\* Refused or failed: a message, the finally block, and no reload.
AnswerError(c) ==
  /\ c.op # "list" /\ c.done /\ ~c.ok /\ c.here
  /\ dialogs' = Closed(Handles(c).always)
  /\ busy' = Release(c)
  /\ error' = (error \/ Traits.hides)
  /\ calls' = calls \ {c}
  /\ crossed' = StillCrossed(calls')
  /\ UNCHANGED <<page, table, shown, secret, bounds, excuse>>

\* The page that asked is gone.
AnswerNobody(c) ==
  /\ c.done /\ ~c.here
  /\ calls' = calls \ {c}
  /\ crossed' = StillCrossed(calls')
  /\ UNCHANGED <<page, table, shown, busy, dialogs, secret, error, bounds, excuse>>

-----------------------------------------------------------------------------
Reader ==
  \/ \E ctl \in Traits.controls, r \in Rows : Open(ctl, r) \/ Click(ctl, r)
  \/ \E d \in Dialogs : Close(d)
  \/ Dismiss \/ Reload \/ Visit

Backend ==
  \/ \E r \in Rows : Other(r)
  \/ \E c \in calls : ServeList(c) \/ ServeChange(c) \/ Lose(c)

Answers ==
  \E c \in calls : AnswerList(c) \/ AnswerOk(c) \/ AnswerError(c) \/ AnswerNobody(c)

Next == Reader \/ Backend \/ Answers

Spec == Init /\ [][Next]_vars

-----------------------------------------------------------------------------
(* Properties.                                                             *)

Calls ==
  [id : Nat \ {0}, op : {"list"} \cup UNION {DOMAIN PageOf[p].handlers : p \in DOMAIN PageOf},
   row : Rows \cup {NoRow}, dialog : Dialogs \cup {""}, flag : Locks \cup {""},
   mine : BOOLEAN, here : BOOLEAN, done : BOOLEAN, ok : BOOLEAN, answer : [Rows -> Statuses]]

\* Every variable keeps its type.
TypeOK ==
  /\ page \in DOMAIN PageOf
  /\ table \in [Rows -> Traits.statuses] /\ shown \in [Rows -> Traits.statuses]
  /\ busy \in [Locks -> Rows \cup {NoRow}] /\ dialogs \in [Dialogs -> Rows \cup {NoRow}]
  /\ secret \in Nat /\ error \in BOOLEAN
  /\ \A c \in calls : c \in Calls
  /\ excuse \subseteq {"other", "overlap", "lost"} /\ crossed \in BOOLEAN

\* Once everything the reader asked for is answered, the rows on the screen are
\* the server's, unless since the last undisturbed load someone else changed the
\* table, two requests about the same rows were under way together, or an answer
\* was lost: no handler forgets to reload its list or to patch its copy.
SettledScreenIsCurrent == calls = {} /\ excuse = {} /\ ~error => shown = table

\* The flags that disable a button while its request runs do prevent a second
\* one: the same request is under way twice only from a control nothing
\* disables, or after requests for two rows competed for the page's one flag, or
\* after the dialog was closed on a request (or the page left).
NoDoubleSend ==
  \A c, d \in Changes :
    c # d /\ c.op = d.op /\ (c.row = d.row \/ c.flag \in FormLocks) =>
      crossed \/ \E ctl \in Traits.controls : ctl.op = c.op /\ ctl.blockedBy = {}

\* A one-time secret stays on the screen until the reader dismisses it, leaves
\* or starts another creation; another one replaces it only when its request
\* was already under way, two flags' worth of requests having competed.
SecretsStayUntilRead ==
  [][secret # 0 /\ secret' \notin {0, secret} => crossed]_vars
=============================================================================
