------------------------------ MODULE PageProofs ------------------------------
(***************************************************************************)
(* What both front ends show is accounted for, on every one of their       *)
(* eighteen tables (TablePages) and ten pages that ask a question          *)
(* (SearchPages), for any number of rows, questions, requests in flight    *)
(* and mishaps.                                                            *)
(*                                                                         *)
(* What the pages share is a property of how each is made (WellMade,       *)
(* SearchPagesAre), proved page by page; the steps are proved once for     *)
(* every page so made.  That a settled screen is the server's says nothing *)
(* of a screen still waiting: one needs to know, of each request under     *)
(* way, what its answer will do to the row (ScreenAccountedFor).  That no  *)
(* request is sent twice needs the flag to be held for it until its answer *)
(* (FlagsHeld), which for a flag inside a dialog needs the dialog to be    *)
(* the only one over the page (OneCovers).  A secret stays because nothing *)
(* that reveals another can be under way (SecretAlone).  A screen answers  *)
(* the question because at most one request is under way, about what was   *)
(* asked last, and replaces whatever else is shown (OneQuestion).          *)
(***************************************************************************)
EXTENDS TablePages, SearchPages, FiniteSetTheorems, TLAPS

(* Requests have no more numbers than there are of them.                    *)
LEMMA Numbers ==
  ASSUME NEW S, IsFiniteSet(S)
  PROVE  /\ IsFiniteSet({c.id : c \in S})
         /\ Cardinality({c.id : c \in S}) <= Cardinality(S)
<1> DEFINE ids == {c.id : c \in S}
           f == [c \in S |-> c.id]
<1>1. f \in Surjection(S, ids)
  BY DEF Surjection
<1> HIDE DEF f
<1> QED  BY <1>1, FS_Surjection

-----------------------------------------------------------------------------
(* The pages with tables.                                                   *)

\* A flag that disables every control whose handler sets it.
Guarded(T, l) ==
  /\ l # ""
  /\ \A ctl \in T.controls : T.handlers[ctl.op].lock = l => l \in ctl.blockedBy

\* What the continuation does to the row shown is what the endpoint does to
\* the row, unless the list is loaded again or the row answered.
Suits(statuses, does, then) ==
  /\ \A s \in statuses \cap DOMAIN does : does[s] \subseteq statuses
  /\ then \in {"reload", "put", "patch", "off", "drop", "keep"}
  /\ then = "off" => "off" \in statuses
  /\ then \in {"patch", "off", "drop"} => "none" \notin DOMAIN does
  /\ \A s \in DOMAIN does :
       /\ then = "off" => does[s] \subseteq {"off"}
       /\ then = "drop" => does[s] \subseteq {"none"}
       /\ then = "keep" => does[s] \subseteq {s}
Follows(statuses, h) == Suits(statuses, h.does, h.then)

\* The flags of dialogs that cover the page are those dialogs' own.
ClosesItsOwn(T, h) ==
  /\ h.lock \in Locks \cup {""}
  /\ h.awaits => h.lock # "modal"
  /\ (h.closes \cup h.always) \cap T.overlays # {} /\ h.lock # "modal" =>
       \A o \in DOMAIN T.handlers : T.handlers[o].lock # "modal"

\* One flag guards whatever reveals a secret, and nothing is asked for while
\* one is on the screen.
Reveals(T, h) ==
  h.reveals =>
    /\ Guarded(T, h.lock)
    /\ T.secret = "overlay" \/ h.clears
    /\ \A o \in DOMAIN T.handlers : T.handlers[o].reveals => T.handlers[o].lock = h.lock

\* A control's handler is the page's, and a dialog's flag is set only from it.
ControlFits(T, ctl) ==
  /\ ctl.op \in DOMAIN T.handlers /\ ctl.dialog \in Dialogs \cup {""}
  /\ T.handlers[ctl.op].lock = "modal" => ctl.dialog \in T.overlays

\* A handler's flag guards all its controls, or one of them looks at no flag.
NoneTwice(T, o) ==
  \/ Guarded(T, T.handlers[o].lock)
  \/ \E ctl \in T.controls : ctl.op = o /\ ctl.blockedBy = {}

\* How each of the pages is made.
WellMade(T) ==
  /\ T.statuses \subseteq Statuses /\ "none" \in T.statuses
  /\ T.overlays \subseteq Dialogs /\ "list" \notin DOMAIN T.handlers
  /\ \A o \in DOMAIN T.handlers :
       /\ Follows(T.statuses, T.handlers[o]) /\ ClosesItsOwn(T, T.handlers[o])
       /\ Reveals(T, T.handlers[o]) /\ NoneTwice(T, o)
  /\ \A ctl \in T.controls : ControlFits(T, ctl)

\* A request is its handler's; a list has no row, and is for the page that is open.
CallFits(c) ==
  /\ c \in [id : Nat \ {0}, op : {"list"} \cup DOMAIN Traits.handlers, row : Rows \cup {NoRow},
            dialog : Dialogs \cup {""}, flag : Locks \cup {""}, mine : BOOLEAN, here : BOOLEAN,
            done : BOOLEAN, ok : BOOLEAN, answer : [Rows -> Traits.statuses]]
  /\ c.ok => c.done
  /\ c.op = "list" => c.row = NoRow /\ c.here /\ c.flag # "modal"
  /\ c.op # "list" => /\ c.op \in DOMAIN Traits.handlers /\ c.row \in Rows
                      /\ c.flag = Handles(c).lock
                      /\ c.flag = "modal" => c.dialog \in Traits.overlays

\* Every variable keeps its type.
TableTypes ==
  /\ page \in DOMAIN PageOf
  /\ table \in [Rows -> Traits.statuses] /\ shown \in [Rows -> Traits.statuses]
  /\ busy \in [Locks -> Rows \cup {NoRow}] /\ dialogs \in [Dialogs -> Rows \cup {NoRow}]
  /\ secret \in Nat /\ error \in BOOLEAN
  /\ excuse \subseteq {"other", "overlap", "lost"} /\ crossed \in BOOLEAN
  /\ IsFiniteSet(calls) /\ \A c \in calls : CallFits(c)

\* What is known of row r while no list is being loaded.
RowAccountedFor(r) ==
  /\ (\A c \in calls : c.row # r) => shown[r] = table[r]
  /\ \A c \in calls : c.row = r =>
       IF c.ok
       THEN /\ shown[r] \in DOMAIN Handles(c).does /\ table[r] \in Handles(c).does[shown[r]]
            /\ c.answer[r] = table[r]
       ELSE shown[r] = table[r]

\* Unless excused, the requests are about different rows, or the one there is
\* loads the list; what each has done will be on the screen once it is answered.
ScreenAccountedFor ==
  excuse = {} =>
    /\ \A c \in calls : c.here
    /\ \A c, d \in calls : c # d => ~Conflict(c, d)
    /\ \A c \in calls : c.op = "list" /\ c.done => c.ok /\ c.answer = table
    /\ (\A c \in calls : c.op # "list") => \A r \in Rows : RowAccountedFor(r)

\* At most one dialog covers the page.
OneCovers == \A d, e \in Dialogs : {d, e} \subseteq Covering => d = e

\* Unless two requests have competed for it, a flag that guards its buttons is
\* held by one request, and names its row until the answer.
FlagsHeld ==
  ~crossed => \A c \in calls : Guarded(Traits, c.flag) =>
    /\ \A d \in calls : d.flag = c.flag => d = c
    /\ c.op # "list" => busy[c.flag] = c.row
    /\ c.flag = "modal" => dialogs[c.dialog] # NoRow

\* No request that reveals a secret is under way while one is on the screen.
SecretAlone == ~crossed /\ secret # 0 => \A c \in Changes : ~Handles(c).reveals

\* The inductive invariant of every page with a table.
TableIndInv == TableTypes /\ ScreenAccountedFor /\ OneCovers /\ FlagsHeld /\ SecretAlone

-----------------------------------------------------------------------------
(* The pages.                                                                *)

\* The statuses of most tables, and of the deletion queue.
Usual == {"none", "on", "off"}
Queued == {"none", "on", "edited"}

\* A handler by what it does.
HandlerIs(h, does, lock, then, reveals) ==
  /\ h.does = does /\ h.lock = lock /\ h.then = then /\ h.reveals = reveals
  /\ h.awaits => lock # "modal"

(* What a continuation may do after each effect an endpoint has.            *)
LEMMA EffectsFollow ==
  /\ Suits(Queued, Approved, "reload")
  /\ Suits(Queued, LeftQueue, "reload")
  /\ Suits(Statuses, Acknowledged, "reload")
  /\ Suits(Statuses, Changed, "put")
  /\ Suits(Statuses, Changed, "reload")
  /\ Suits(Statuses, Created, "put")
  /\ Suits(Statuses, Created, "reload")
  /\ Suits(Statuses, Deactivated, "patch")
  /\ Suits(Statuses, Deactivated, "reload")
  /\ Suits(Statuses, Escalated, "reload")
  /\ Suits(Statuses, Reactivated, "reload")
  /\ Suits(Statuses, Unchanged, "keep")
  /\ Suits(Statuses, Voted, "reload")
  /\ Suits(Usual, Activated, "patch")
  /\ Suits(Usual, Created, "put")
  /\ Suits(Usual, Created, "reload")
  /\ Suits(Usual, Deactivated, "off")
  /\ Suits(Usual, Deactivated, "patch")
  /\ Suits(Usual, Deactivated, "reload")
  /\ Suits(Usual, Removed, "drop")
  /\ Suits(Usual, Unchanged, "keep")
<1>1. Suits(Queued, Approved, "reload")
  BY DEF Suits, Queued, Approved
<1>2. Suits(Queued, LeftQueue, "reload")
  BY DEF Suits, Queued, LeftQueue
<1>3. Suits(Statuses, Acknowledged, "reload")
  BY DEF Suits, Statuses, Acknowledged, Existing
<1>4. Suits(Statuses, Changed, "put")
  BY DEF Suits, Statuses, Changed, Existing
<1>5. Suits(Statuses, Changed, "reload")
  BY DEF Suits, Statuses, Changed, Existing
<1>6. Suits(Statuses, Created, "put")
  BY DEF Suits, Statuses, Created
<1>7. Suits(Statuses, Created, "reload")
  BY DEF Suits, Statuses, Created
<1>8. Suits(Statuses, Deactivated, "patch")
  BY DEF Suits, Statuses, Deactivated, Existing
<1>9. Suits(Statuses, Deactivated, "reload")
  BY DEF Suits, Statuses, Deactivated, Existing
<1>10. Suits(Statuses, Escalated, "reload")
  BY DEF Suits, Statuses, Escalated, Existing
<1>11. Suits(Statuses, Reactivated, "reload")
  BY DEF Suits, Statuses, Reactivated, Existing
<1>12. Suits(Statuses, Unchanged, "keep")
  BY DEF Suits, Statuses, Unchanged, Existing
<1>13. Suits(Statuses, Voted, "reload")
  BY DEF Suits, Statuses, Voted
<1>14. Suits(Usual, Activated, "patch")
  BY DEF Suits, Usual, Activated, Existing, Statuses
<1>15. Suits(Usual, Created, "put")
  BY DEF Suits, Usual, Created
<1>16. Suits(Usual, Created, "reload")
  BY DEF Suits, Usual, Created
<1>17. Suits(Usual, Deactivated, "off")
  BY DEF Suits, Usual, Deactivated, Existing, Statuses
<1>18. Suits(Usual, Deactivated, "patch")
  BY DEF Suits, Usual, Deactivated, Existing, Statuses
<1>19. Suits(Usual, Deactivated, "reload")
  BY DEF Suits, Usual, Deactivated, Existing, Statuses
<1>20. Suits(Usual, Removed, "drop")
  BY DEF Suits, Usual, Removed, Existing, Statuses
<1>21. Suits(Usual, Unchanged, "keep")
  BY DEF Suits, Usual, Unchanged, Existing, Statuses
<1> QED  BY <1>1, <1>2, <1>3, <1>4, <1>5, <1>6, <1>7, <1>8, <1>9, <1>10, <1>11,
            <1>12, <1>13, <1>14, <1>15, <1>16, <1>17, <1>18, <1>19, <1>20, <1>21

(* The dashboard's users.                                                   *)
LEMMA UsersMade == WellMade(UsersPage)
<1> DEFINE T == UsersPage
           H == UsersHandlers
<1>1. /\ T.handlers = H /\ T.overlays = {}
      /\ T.statuses = Statuses /\ T.secret = "inline"
      /\ T.controls = UsersControls
  BY DEF UsersPage, Page
<1>2. DOMAIN H = {"create", "role", "block", "unblock", "reset"}
  BY DEF UsersHandlers
<1>3. /\ HandlerIs(H["create"], Created, "form", "reload", FALSE)
      /\ HandlerIs(H["role"], Changed, "second", "reload", FALSE)
      /\ HandlerIs(H["block"], Deactivated, "row", "reload", FALSE)
      /\ HandlerIs(H["unblock"], Reactivated, "row", "reload", FALSE)
      /\ HandlerIs(H["reset"], Unchanged, "row", "keep", FALSE)
  BY DEF HandlerIs, UsersHandlers, Handler
<1> HIDE DEF T, H
<1>4. Guarded(T, "form") /\ Guarded(T, "row") /\ Guarded(T, "second")
  BY <1>1, <1>2, <1>3 DEF Guarded, HandlerIs, UsersControls, Control
<1>5. ASSUME NEW ctl \in T.controls
      PROVE  ControlFits(T, ctl)
  BY <1>1, <1>2, <1>3 DEF ControlFits, HandlerIs, UsersControls, Control, Dialogs
<1>6. ASSUME NEW o \in DOMAIN H
      PROVE  Follows(T.statuses, H[o])
  BY <1>1, <1>2, <1>3, EffectsFollow DEF Follows, HandlerIs
<1>7. ASSUME NEW o \in DOMAIN H
      PROVE  ClosesItsOwn(T, H[o])
  BY <1>1, <1>2, <1>3 DEF HandlerIs, ClosesItsOwn, Locks
<1>8. ASSUME NEW o \in DOMAIN H
      PROVE  Reveals(T, H[o]) /\ NoneTwice(T, o)
  BY <1>1, <1>2, <1>3, <1>4 DEF Reveals, HandlerIs, NoneTwice
<1>9. WellMade(T)
  BY <1>1, <1>2, <1>5, <1>6, <1>7, <1>8 DEF WellMade, Statuses, Dialogs
<1> QED  BY <1>9 DEF T

(* The team of the settings.                                                *)
LEMMA TeamMade == WellMade(TeamPage)
<1> DEFINE T == TeamPage
           H == TeamHandlers
<1>1. /\ T.handlers = H /\ T.overlays = {}
      /\ T.statuses = Usual /\ T.secret = "inline"
      /\ T.controls = TeamControls
  BY DEF TeamPage, Page, Usual
<1>2. DOMAIN H = {"create", "deactivate", "reset"}
  BY DEF TeamHandlers
<1>3. /\ HandlerIs(H["create"], Created, "form", "reload", FALSE)
      /\ HandlerIs(H["deactivate"], Deactivated, "row", "reload", FALSE)
      /\ HandlerIs(H["reset"], Unchanged, "second", "keep", FALSE)
  BY DEF HandlerIs, TeamHandlers, Handler
<1> HIDE DEF T, H
<1>4. Guarded(T, "form") /\ Guarded(T, "row") /\ Guarded(T, "second")
  BY <1>1, <1>2, <1>3 DEF Guarded, HandlerIs, TeamControls, Control
<1>5. ASSUME NEW ctl \in T.controls
      PROVE  ControlFits(T, ctl)
  BY <1>1, <1>2, <1>3 DEF ControlFits, HandlerIs, TeamControls, Control, Dialogs
<1>6. ASSUME NEW o \in DOMAIN H
      PROVE  Follows(T.statuses, H[o]) /\ ClosesItsOwn(T, H[o])
  BY <1>1, <1>2, <1>3, EffectsFollow DEF Follows, HandlerIs, ClosesItsOwn, Locks
<1>7. ASSUME NEW o \in DOMAIN H
      PROVE  Reveals(T, H[o]) /\ NoneTwice(T, o)
  BY <1>1, <1>2, <1>3, <1>4 DEF Reveals, HandlerIs, NoneTwice
<1>8. WellMade(T)
  BY <1>1, <1>2, <1>5, <1>6, <1>7 DEF WellMade, Statuses, Dialogs, Usual
<1> QED  BY <1>8 DEF T

(* The API keys of the settings.                                            *)
LEMMA ApiKeysMade == WellMade(ApiKeysPage)
<1> DEFINE T == ApiKeysPage
           H == ApiKeysHandlers
<1>1. /\ T.handlers = H /\ T.overlays = {"new"}
      /\ T.statuses = Usual /\ T.secret = "overlay"
      /\ T.controls = ApiKeysRows \cup {NewKeyModal}
  BY DEF ApiKeysPage, Page, Usual, RevealKeyModal
<1>2. DOMAIN H = {"create", "revoke", "disable", "enable"}
  BY DEF ApiKeysHandlers
<1>3. /\ HandlerIs(H["create"], Created, "modal", "reload", TRUE)
      /\ HandlerIs(H["revoke"], Removed, "row", "drop", FALSE)
      /\ HandlerIs(H["disable"], Deactivated, "second", "patch", FALSE)
      /\ HandlerIs(H["enable"], Activated, "second", "patch", FALSE)
  BY DEF HandlerIs, ApiKeysHandlers, Handler
<1>4. /\ H["revoke"].closes = {} /\ H["revoke"].always = {}
      /\ H["disable"].closes = {} /\ H["disable"].always = {}
      /\ H["enable"].closes = {} /\ H["enable"].always = {}
  BY DEF ApiKeysHandlers, Handler
<1> HIDE DEF T, H
<1>5. Guarded(T, "modal") /\ Guarded(T, "row") /\ Guarded(T, "second")
  BY <1>1, <1>2, <1>3 DEF Guarded, HandlerIs, ApiKeysRows, NewKeyModal, Control
<1>6. ASSUME NEW ctl \in T.controls
      PROVE  ControlFits(T, ctl)
  BY <1>1, <1>2, <1>3 DEF ControlFits, HandlerIs, ApiKeysRows, NewKeyModal, Control, Dialogs
<1>7. ASSUME NEW o \in DOMAIN H
      PROVE  Follows(T.statuses, H[o])
  BY <1>1, <1>2, <1>3, EffectsFollow DEF Follows, HandlerIs
<1>8. ASSUME NEW o \in DOMAIN H
      PROVE  ClosesItsOwn(T, H[o])
  BY <1>1, <1>2, <1>3, <1>4 DEF HandlerIs, ClosesItsOwn, Locks
<1>9. ASSUME NEW o \in DOMAIN H
      PROVE  Reveals(T, H[o]) /\ NoneTwice(T, o)
  BY <1>1, <1>2, <1>3, <1>5 DEF Reveals, HandlerIs, NoneTwice
<1>10. WellMade(T)
  BY <1>1, <1>2, <1>6, <1>7, <1>8, <1>9 DEF WellMade, Statuses, Dialogs, Usual
<1> QED  BY <1>10 DEF T

(* The ingestion sources of the settings.                                   *)
LEMMA SourcesMade == WellMade(SourcesPage)
<1> DEFINE T == SourcesPage
           H == SourcesHandlers
<1>1. /\ T.handlers = H /\ T.overlays = {}
      /\ T.statuses = Usual /\ T.secret = "inline"
      /\ T.controls = SourcesControls
  BY DEF SourcesPage, Page, Usual
<1>2. DOMAIN H = {"create", "deactivate"}
  BY DEF SourcesHandlers
<1>3. /\ HandlerIs(H["create"], Created, "form", "reload", TRUE)
      /\ HandlerIs(H["deactivate"], Deactivated, "", "reload", FALSE)
  BY DEF HandlerIs, SourcesHandlers, Handler
<1>4. H["create"].clears
  BY DEF SourcesHandlers, Handler
<1> HIDE DEF T, H
<1>5. Guarded(T, "form")
  BY <1>1, <1>2, <1>3 DEF Guarded, HandlerIs, SourcesControls, Control
<1>6. \E ctl \in T.controls : ctl.op = "deactivate" /\ ctl.blockedBy = {}
  BY <1>1 DEF SourcesControls, Control
<1>7. ASSUME NEW ctl \in T.controls
      PROVE  ControlFits(T, ctl)
  BY <1>1, <1>2, <1>3 DEF ControlFits, HandlerIs, SourcesControls, Control, Dialogs
<1>8. ASSUME NEW o \in DOMAIN H
      PROVE  Follows(T.statuses, H[o]) /\ ClosesItsOwn(T, H[o])
  BY <1>1, <1>2, <1>3, EffectsFollow DEF Follows, HandlerIs, ClosesItsOwn, Locks
<1>9. ASSUME NEW o \in DOMAIN H
      PROVE  Reveals(T, H[o]) /\ NoneTwice(T, o)
  BY <1>1, <1>2, <1>3, <1>4, <1>5, <1>6 DEF Reveals, HandlerIs, NoneTwice
<1>10. WellMade(T)
  BY <1>1, <1>2, <1>7, <1>8, <1>9 DEF WellMade, Statuses, Dialogs, Usual
<1> QED  BY <1>10 DEF T

(* The deletion requests: a vote has the list loaded again.                 *)
LEMMA DeletionsMade == WellMade(DeletionsPage)
<1> DEFINE T == DeletionsPage
           H == DeletionsHandlers
<1>1. /\ T.handlers = H /\ T.overlays = {}
      /\ T.statuses = Statuses /\ T.secret = "inline"
      /\ T.controls = DeletionsControls
  BY DEF DeletionsPage, Page
<1>2. DOMAIN H = {"create", "decide"}
  BY DEF DeletionsHandlers
<1>3. /\ HandlerIs(H["create"], Created, "form", "reload", FALSE)
      /\ HandlerIs(H["decide"], Voted, "", "reload", FALSE)
  BY DEF HandlerIs, DeletionsHandlers, Handler
<1> HIDE DEF T, H
<1>4. Guarded(T, "form")
  BY <1>1, <1>2, <1>3 DEF Guarded, HandlerIs, DeletionsControls, Control
<1>5. \E ctl \in T.controls : ctl.op = "decide" /\ ctl.blockedBy = {}
  BY <1>1 DEF DeletionsControls, Control
<1>6. ASSUME NEW ctl \in T.controls
      PROVE  ControlFits(T, ctl)
  BY <1>1, <1>2, <1>3 DEF ControlFits, HandlerIs, DeletionsControls, Control, Dialogs
<1>7. ASSUME NEW o \in DOMAIN H
      PROVE  Follows(T.statuses, H[o]) /\ ClosesItsOwn(T, H[o])
  BY <1>1, <1>2, <1>3, EffectsFollow DEF Follows, HandlerIs, ClosesItsOwn, Locks
<1>8. ASSUME NEW o \in DOMAIN H
      PROVE  Reveals(T, H[o]) /\ NoneTwice(T, o)
  BY <1>1, <1>2, <1>3, <1>4, <1>5 DEF Reveals, HandlerIs, NoneTwice
<1>9. WellMade(T)
  BY <1>1, <1>2, <1>6, <1>7, <1>8 DEF WellMade, Statuses, Dialogs
<1> QED  BY <1>9 DEF T

(* The alerts, acknowledged and escalated where they stand.                 *)
LEMMA AlertsMade == WellMade(AlertsPage)
<1> DEFINE T == AlertsPage
           H == AlertsHandlers
<1>1. /\ T.handlers = H /\ T.overlays = {}
      /\ T.statuses = Statuses /\ T.secret = "inline"
      /\ T.controls = AlertsControls
  BY DEF AlertsPage, Page
<1>2. DOMAIN H = {"acknowledge", "escalate"}
  BY DEF AlertsHandlers
<1>3. /\ HandlerIs(H["acknowledge"], Acknowledged, "row", "reload", FALSE)
      /\ HandlerIs(H["escalate"], Escalated, "row", "reload", FALSE)
  BY DEF HandlerIs, AlertsHandlers, Handler
<1> HIDE DEF T, H
<1>4. Guarded(T, "row")
  BY <1>1, <1>2, <1>3 DEF Guarded, HandlerIs, AlertsControls, Control
<1>5. ASSUME NEW ctl \in T.controls
      PROVE  ControlFits(T, ctl)
  BY <1>1, <1>2, <1>3 DEF ControlFits, HandlerIs, AlertsControls, Control, Dialogs
<1>6. ASSUME NEW o \in DOMAIN H
      PROVE  Follows(T.statuses, H[o]) /\ ClosesItsOwn(T, H[o])
  BY <1>1, <1>2, <1>3, EffectsFollow DEF Follows, HandlerIs, ClosesItsOwn, Locks
<1>7. ASSUME NEW o \in DOMAIN H
      PROVE  Reveals(T, H[o]) /\ NoneTwice(T, o)
  BY <1>1, <1>2, <1>3, <1>4 DEF Reveals, HandlerIs, NoneTwice
<1>8. WellMade(T)
  BY <1>1, <1>2, <1>5, <1>6, <1>7 DEF WellMade, Statuses, Dialogs
<1> QED  BY <1>8 DEF T

(* The staff portal's tenants.                                              *)
LEMMA TenantsMade == WellMade(TenantsPage)
<1> DEFINE T == TenantsPage
           H == TenantsHandlers
<1>1. /\ T.handlers = H /\ T.overlays = {}
      /\ T.statuses = Usual /\ T.secret = "inline"
      /\ T.controls = TenantsControls
  BY DEF TenantsPage, Page, Usual
<1>2. DOMAIN H = {"suspend", "activate"}
  BY DEF TenantsHandlers
<1>3. /\ HandlerIs(H["suspend"], Deactivated, "row", "patch", FALSE)
      /\ HandlerIs(H["activate"], Activated, "row", "patch", FALSE)
  BY DEF HandlerIs, TenantsHandlers, Handler, Suspend, Activate
<1> HIDE DEF T, H
<1>4. Guarded(T, "row")
  BY <1>1, <1>2, <1>3
  DEF Guarded, HandlerIs, TenantsControls, SuspendControl, ActivateControl, Control
<1>5. ASSUME NEW ctl \in T.controls
      PROVE  ControlFits(T, ctl)
  BY <1>1, <1>2, <1>3
  DEF ControlFits, HandlerIs, TenantsControls, SuspendControl, ActivateControl, Control, Dialogs
<1>6. ASSUME NEW o \in DOMAIN H
      PROVE  Follows(T.statuses, H[o]) /\ ClosesItsOwn(T, H[o])
  BY <1>1, <1>2, <1>3, EffectsFollow DEF Follows, HandlerIs, ClosesItsOwn, Locks
<1>7. ASSUME NEW o \in DOMAIN H
      PROVE  Reveals(T, H[o]) /\ NoneTwice(T, o)
  BY <1>1, <1>2, <1>3, <1>4 DEF Reveals, HandlerIs, NoneTwice
<1>8. WellMade(T)
  BY <1>1, <1>2, <1>5, <1>6, <1>7 DEF WellMade, Statuses, Dialogs, Usual
<1> QED  BY <1>8 DEF T

(* A tenant's own page: the buttons above its tabs.                         *)
LEMMA HeaderMade == WellMade(TenantHeader)
<1> DEFINE T == TenantHeader
           H == TenantHeaderHandlers
<1>1. /\ T.handlers = H /\ T.overlays = {}
      /\ T.statuses = Usual /\ T.secret = "inline"
      /\ T.controls = TenantHeaderControls
  BY DEF TenantHeader, Page, Usual
<1>2. DOMAIN H = {"suspend", "activate"}
  BY DEF TenantHeaderHandlers
<1>3. /\ HandlerIs(H["suspend"], Deactivated, "form", "patch", FALSE)
      /\ HandlerIs(H["activate"], Activated, "form", "patch", FALSE)
  BY DEF HandlerIs, TenantHeaderHandlers, Handler, Suspend, Activate
<1> HIDE DEF T, H
<1>4. Guarded(T, "form")
  BY <1>1, <1>2, <1>3
  DEF Guarded, HandlerIs, TenantHeaderControls, SuspendControl, ActivateControl, Control
<1>5. ASSUME NEW ctl \in T.controls
      PROVE  ControlFits(T, ctl)
  BY <1>1, <1>2, <1>3
  DEF ControlFits, HandlerIs, TenantHeaderControls, SuspendControl, ActivateControl, Control,
      Dialogs
<1>6. ASSUME NEW o \in DOMAIN H
      PROVE  Follows(T.statuses, H[o]) /\ ClosesItsOwn(T, H[o])
  BY <1>1, <1>2, <1>3, EffectsFollow DEF Follows, HandlerIs, ClosesItsOwn, Locks
<1>7. ASSUME NEW o \in DOMAIN H
      PROVE  Reveals(T, H[o]) /\ NoneTwice(T, o)
  BY <1>1, <1>2, <1>3, <1>4 DEF Reveals, HandlerIs, NoneTwice
<1>8. WellMade(T)
  BY <1>1, <1>2, <1>5, <1>6, <1>7 DEF WellMade, Statuses, Dialogs, Usual
<1> QED  BY <1>8 DEF T

(* Its users.                                                               *)
LEMMA TenantUsersMade == WellMade(TenantUsersTab)
<1> DEFINE T == TenantUsersTab
           H == TenantUsersHandlers
<1>1. /\ T.handlers = H /\ T.overlays = {}
      /\ T.statuses = Usual /\ T.secret = "inline"
      /\ T.controls = {SuspendControl, ActivateControl}
  BY DEF TenantUsersTab, Page, Usual
<1>2. DOMAIN H = {"suspend", "activate"}
  BY DEF TenantUsersHandlers
<1>3. /\ HandlerIs(H["suspend"], Deactivated, "row", "patch", FALSE)
      /\ HandlerIs(H["activate"], Activated, "row", "patch", FALSE)
  BY DEF HandlerIs, TenantUsersHandlers, Handler, Suspend, Activate
<1> HIDE DEF T, H
<1>4. Guarded(T, "row")
  BY <1>1, <1>2, <1>3 DEF Guarded, HandlerIs, SuspendControl, ActivateControl, Control
<1>5. ASSUME NEW ctl \in T.controls
      PROVE  ControlFits(T, ctl)
  BY <1>1, <1>2, <1>3
  DEF ControlFits, HandlerIs, SuspendControl, ActivateControl, Control, Dialogs
<1>6. ASSUME NEW o \in DOMAIN H
      PROVE  Follows(T.statuses, H[o]) /\ ClosesItsOwn(T, H[o])
  BY <1>1, <1>2, <1>3, EffectsFollow DEF Follows, HandlerIs, ClosesItsOwn, Locks
<1>7. ASSUME NEW o \in DOMAIN H
      PROVE  Reveals(T, H[o]) /\ NoneTwice(T, o)
  BY <1>1, <1>2, <1>3, <1>4 DEF Reveals, HandlerIs, NoneTwice
<1>8. WellMade(T)
  BY <1>1, <1>2, <1>5, <1>6, <1>7 DEF WellMade, Statuses, Dialogs, Usual
<1> QED  BY <1>8 DEF T

(* Its API keys.                                                            *)
LEMMA TenantKeysMade == WellMade(TenantKeysTab)
<1> DEFINE T == TenantKeysTab
           H == TenantKeysHandlers
<1>1. /\ T.handlers = H /\ T.overlays = {}
      /\ T.statuses = Usual /\ T.secret = "inline"
      /\ T.controls = {[Control EXCEPT !.op = "revoke", !.drawn = {"on"}, !.blockedBy = {"row"}]}
  BY DEF TenantKeysTab, Page, Usual
<1>2. DOMAIN H = {"revoke"}
  BY DEF TenantKeysHandlers
<1>3. /\ HandlerIs(H["revoke"], Deactivated, "row", "off", FALSE)
  BY DEF HandlerIs, TenantKeysHandlers, Handler
<1> HIDE DEF T, H
<1>4. Guarded(T, "row")
  BY <1>1, <1>2, <1>3 DEF Guarded, HandlerIs, Control
<1>5. ASSUME NEW ctl \in T.controls
      PROVE  ControlFits(T, ctl)
  BY <1>1, <1>2, <1>3 DEF ControlFits, HandlerIs, Control, Dialogs
<1>6. ASSUME NEW o \in DOMAIN H
      PROVE  Follows(T.statuses, H[o]) /\ ClosesItsOwn(T, H[o])
  BY <1>1, <1>2, <1>3, EffectsFollow DEF Follows, HandlerIs, ClosesItsOwn, Locks
<1>7. ASSUME NEW o \in DOMAIN H
      PROVE  Reveals(T, H[o]) /\ NoneTwice(T, o)
  BY <1>1, <1>2, <1>3, <1>4 DEF Reveals, HandlerIs, NoneTwice
<1>8. WellMade(T)
  BY <1>1, <1>2, <1>5, <1>6, <1>7 DEF WellMade, Statuses, Dialogs, Usual
<1> QED  BY <1>8 DEF T

(* Its notes, which are put in front of the list, changed and dropped.      *)
LEMMA TenantNotesMade == WellMade(TenantNotesTab)
<1> DEFINE T == TenantNotesTab
           H == TenantNotesHandlers
<1>1. /\ T.handlers = H /\ T.overlays = {}
      /\ T.statuses = Usual /\ T.secret = "inline"
      /\ T.controls = {[Control EXCEPT !.op = "post", !.drawn = {"none"}, !.blockedBy = {"form"}],
                       [Control EXCEPT !.op = "post", !.drawn = {"none"}],
                       [Control EXCEPT !.op = "delete", !.blockedBy = {"row"}]}
  BY DEF TenantNotesTab, Page, Usual
<1>2. DOMAIN H = {"post", "delete"}
  BY DEF TenantNotesHandlers
<1>3. /\ HandlerIs(H["post"], Created, "form", "put", FALSE)
      /\ HandlerIs(H["delete"], Removed, "row", "drop", FALSE)
  BY DEF HandlerIs, TenantNotesHandlers, Handler
<1> HIDE DEF T, H
<1>4. Guarded(T, "row")
  BY <1>1, <1>2, <1>3 DEF Guarded, HandlerIs, Control
<1>5. \E ctl \in T.controls : ctl.op = "post" /\ ctl.blockedBy = {}
  BY <1>1 DEF Control
<1>6. ASSUME NEW ctl \in T.controls
      PROVE  ControlFits(T, ctl)
  BY <1>1, <1>2, <1>3 DEF ControlFits, HandlerIs, Control, Dialogs
<1>7. ASSUME NEW o \in DOMAIN H
      PROVE  Follows(T.statuses, H[o]) /\ ClosesItsOwn(T, H[o])
  BY <1>1, <1>2, <1>3, EffectsFollow DEF Follows, HandlerIs, ClosesItsOwn, Locks
<1>8. ASSUME NEW o \in DOMAIN H
      PROVE  Reveals(T, H[o]) /\ NoneTwice(T, o)
  BY <1>1, <1>2, <1>3, <1>4, <1>5 DEF Reveals, HandlerIs, NoneTwice
<1>9. WellMade(T)
  BY <1>1, <1>2, <1>6, <1>7, <1>8 DEF WellMade, Statuses, Dialogs, Usual
<1> QED  BY <1>9 DEF T

(* The staff portal's users.                                                *)
LEMMA StaffUsersMade == WellMade(StaffUsersPage)
<1> DEFINE T == StaffUsersPage
           H == StaffUsersHandlers
<1>1. /\ T.handlers = H /\ T.overlays = {}
      /\ T.statuses = Usual /\ T.secret = "overlay"
      /\ T.controls = StaffUsersControls
  BY DEF StaffUsersPage, Page, Usual
<1>2. DOMAIN H = {"suspend", "activate", "reset"}
  BY DEF StaffUsersHandlers
<1>3. /\ HandlerIs(H["suspend"], Deactivated, "row", "patch", FALSE)
      /\ HandlerIs(H["activate"], Activated, "row", "patch", FALSE)
      /\ HandlerIs(H["reset"], Unchanged, "row", "keep", TRUE)
  BY DEF HandlerIs, StaffUsersHandlers, Handler, Suspend, Activate
<1> HIDE DEF T, H
<1>4. Guarded(T, "row")
  BY <1>1, <1>2, <1>3
  DEF Guarded, HandlerIs, StaffUsersControls, SuspendControl, ActivateControl, Control
<1>5. ASSUME NEW ctl \in T.controls
      PROVE  ControlFits(T, ctl)
  BY <1>1, <1>2, <1>3
  DEF ControlFits, HandlerIs, StaffUsersControls, SuspendControl, ActivateControl, Control,
      Dialogs
<1>6. ASSUME NEW o \in DOMAIN H
      PROVE  Follows(T.statuses, H[o]) /\ ClosesItsOwn(T, H[o])
  BY <1>1, <1>2, <1>3, EffectsFollow DEF Follows, HandlerIs, ClosesItsOwn, Locks
<1>7. ASSUME NEW o \in DOMAIN H
      PROVE  Reveals(T, H[o]) /\ NoneTwice(T, o)
  BY <1>1, <1>2, <1>3, <1>4 DEF Reveals, HandlerIs, NoneTwice
<1>8. WellMade(T)
  BY <1>1, <1>2, <1>5, <1>6, <1>7 DEF WellMade, Statuses, Dialogs, Usual
<1> QED  BY <1>8 DEF T

(* The staff accounts.                                                      *)
LEMMA AdminsMade == WellMade(AdminsPage)
<1> DEFINE T == AdminsPage
           H == AdminsHandlers
<1>1. /\ T.handlers = H /\ T.overlays = {"new", "confirm"}
      /\ T.statuses = Usual /\ T.secret = "inline"
      /\ T.controls = AdminsControls
  BY DEF AdminsPage, Page, Usual
<1>2. DOMAIN H = {"suspend", "activate", "create", "delete"}
  BY DEF AdminsHandlers
<1>3. /\ HandlerIs(H["suspend"], Deactivated, "row", "patch", FALSE)
      /\ HandlerIs(H["activate"], Activated, "row", "patch", FALSE)
      /\ HandlerIs(H["create"], Created, "form", "put", FALSE)
      /\ HandlerIs(H["delete"], Removed, "row", "drop", FALSE)
  BY DEF HandlerIs, AdminsHandlers, Handler, Suspend, Activate
<1> HIDE DEF T, H
<1>4. Guarded(T, "form") /\ Guarded(T, "row")
  BY <1>1, <1>2, <1>3
  DEF Guarded, HandlerIs, AdminsControls, SuspendControl, ActivateControl, Control
<1>5. ASSUME NEW ctl \in T.controls
      PROVE  ControlFits(T, ctl)
  BY <1>1, <1>2, <1>3
  DEF ControlFits, HandlerIs, AdminsControls, SuspendControl, ActivateControl, Control, Dialogs
<1>6. ASSUME NEW o \in DOMAIN H
      PROVE  Follows(T.statuses, H[o])
  BY <1>1, <1>2, <1>3, EffectsFollow DEF Follows, HandlerIs
<1>7. ASSUME NEW o \in DOMAIN H
      PROVE  ClosesItsOwn(T, H[o])
  BY <1>1, <1>2, <1>3 DEF HandlerIs, ClosesItsOwn, Locks
<1>8. ASSUME NEW o \in DOMAIN H
      PROVE  Reveals(T, H[o]) /\ NoneTwice(T, o)
  BY <1>1, <1>2, <1>3, <1>4 DEF Reveals, HandlerIs, NoneTwice
<1>9. WellMade(T)
  BY <1>1, <1>2, <1>5, <1>6, <1>7, <1>8 DEF WellMade, Statuses, Dialogs, Usual
<1> QED  BY <1>9 DEF T

(* The API keys of all tenants.                                             *)
LEMMA StaffKeysMade == WellMade(StaffKeysPage)
<1> DEFINE T == StaffKeysPage
           H == StaffKeysHandlers
<1>1. /\ T.handlers = H /\ T.overlays = {"confirm"}
      /\ T.statuses = Usual /\ T.secret = "inline"
      /\ T.controls = StaffKeysControls
  BY DEF StaffKeysPage, Page, Usual
<1>2. DOMAIN H = {"revoke"}
  BY DEF StaffKeysHandlers
<1>3. /\ HandlerIs(H["revoke"], Deactivated, "row", "off", FALSE)
  BY DEF HandlerIs, StaffKeysHandlers, Handler
<1> HIDE DEF T, H
<1>4. Guarded(T, "row")
  BY <1>1, <1>2, <1>3 DEF Guarded, HandlerIs, StaffKeysControls, Control
<1>5. ASSUME NEW ctl \in T.controls
      PROVE  ControlFits(T, ctl)
  BY <1>1, <1>2, <1>3 DEF ControlFits, HandlerIs, StaffKeysControls, Control, Dialogs
<1>6. ASSUME NEW o \in DOMAIN H
      PROVE  Follows(T.statuses, H[o]) /\ ClosesItsOwn(T, H[o])
  BY <1>1, <1>2, <1>3, EffectsFollow DEF Follows, HandlerIs, ClosesItsOwn, Locks
<1>7. ASSUME NEW o \in DOMAIN H
      PROVE  Reveals(T, H[o]) /\ NoneTwice(T, o)
  BY <1>1, <1>2, <1>3, <1>4 DEF Reveals, HandlerIs, NoneTwice
<1>8. WellMade(T)
  BY <1>1, <1>2, <1>5, <1>6, <1>7 DEF WellMade, Statuses, Dialogs, Usual
<1> QED  BY <1>8 DEF T

(* The announcements.                                                       *)
LEMMA AnnouncementsMade == WellMade(AnnouncementsPage)
<1> DEFINE T == AnnouncementsPage
           H == AnnouncementsHandlers
<1>1. /\ T.handlers = H /\ T.overlays = {"new"}
      /\ T.statuses = Usual /\ T.secret = "inline"
      /\ T.controls = AnnouncementsControls
  BY DEF AnnouncementsPage, Page, Usual
<1>2. DOMAIN H = {"suspend", "activate", "delete", "post"}
  BY DEF AnnouncementsHandlers
<1>3. /\ HandlerIs(H["suspend"], Deactivated, "row", "patch", FALSE)
      /\ HandlerIs(H["activate"], Activated, "row", "patch", FALSE)
      /\ HandlerIs(H["delete"], Removed, "row", "drop", FALSE)
      /\ HandlerIs(H["post"], Created, "form", "put", FALSE)
  BY DEF HandlerIs, AnnouncementsHandlers, Handler, Suspend, Activate
<1> HIDE DEF T, H
<1>4. Guarded(T, "form") /\ Guarded(T, "row")
  BY <1>1, <1>2, <1>3
  DEF Guarded, HandlerIs, AnnouncementsControls, SuspendControl, ActivateControl, Control
<1>5. ASSUME NEW ctl \in T.controls
      PROVE  ControlFits(T, ctl)
  BY <1>1, <1>2, <1>3
  DEF ControlFits, HandlerIs, AnnouncementsControls, SuspendControl, ActivateControl, Control,
      Dialogs
<1>6. ASSUME NEW o \in DOMAIN H
      PROVE  Follows(T.statuses, H[o])
  BY <1>1, <1>2, <1>3, EffectsFollow DEF Follows, HandlerIs
<1>7. ASSUME NEW o \in DOMAIN H
      PROVE  ClosesItsOwn(T, H[o])
  BY <1>1, <1>2, <1>3 DEF HandlerIs, ClosesItsOwn, Locks
<1>8. ASSUME NEW o \in DOMAIN H
      PROVE  Reveals(T, H[o]) /\ NoneTwice(T, o)
  BY <1>1, <1>2, <1>3, <1>4 DEF Reveals, HandlerIs, NoneTwice
<1>9. WellMade(T)
  BY <1>1, <1>2, <1>5, <1>6, <1>7, <1>8 DEF WellMade, Statuses, Dialogs, Usual
<1> QED  BY <1>9 DEF T

(* The plans.                                                               *)
LEMMA PlansMade == WellMade(PlansPage)
<1> DEFINE T == PlansPage
           H == PlansHandlers
<1>1. /\ T.handlers = H /\ T.overlays = {"new", "edit"}
      /\ T.statuses = Statuses /\ T.secret = "inline"
      /\ T.controls = PlansControls
  BY DEF PlansPage, Page
<1>2. DOMAIN H = {"create", "edit", "archive"}
  BY DEF PlansHandlers
<1>3. /\ HandlerIs(H["create"], Created, "modal", "put", FALSE)
      /\ HandlerIs(H["edit"], Changed, "modal", "put", FALSE)
      /\ HandlerIs(H["archive"], Deactivated, "row", "patch", FALSE)
  BY DEF HandlerIs, PlansHandlers, Handler
<1>4. /\ H["archive"].closes = {} /\ H["archive"].always = {}
  BY DEF PlansHandlers, Handler
<1> HIDE DEF T, H
<1>5. Guarded(T, "modal") /\ Guarded(T, "row")
  BY <1>1, <1>2, <1>3 DEF Guarded, HandlerIs, PlansControls, PlanModal, Control
<1>6. ASSUME NEW ctl \in T.controls
      PROVE  ControlFits(T, ctl)
  BY <1>1, <1>2, <1>3 DEF ControlFits, HandlerIs, PlansControls, PlanModal, Control, Dialogs
<1>7. ASSUME NEW o \in DOMAIN H
      PROVE  Follows(T.statuses, H[o]) /\ ClosesItsOwn(T, H[o])
  BY <1>1, <1>2, <1>3, <1>4, EffectsFollow DEF Follows, HandlerIs, ClosesItsOwn, Locks
<1>8. ASSUME NEW o \in DOMAIN H
      PROVE  Reveals(T, H[o]) /\ NoneTwice(T, o)
  BY <1>1, <1>2, <1>3, <1>5 DEF Reveals, HandlerIs, NoneTwice
<1>9. WellMade(T)
  BY <1>1, <1>2, <1>6, <1>7, <1>8 DEF WellMade, Statuses, Dialogs
<1> QED  BY <1>9 DEF T

(* The moderation queue.                                                    *)
LEMMA QueueMade == WellMade(QueuePage)
<1> DEFINE T == QueuePage
           H == QueueHandlers
<1>1. /\ T.handlers = H /\ T.overlays = {"approve", "reject", "execute"}
      /\ T.statuses = Queued /\ T.secret = "inline"
      /\ T.controls = QueueControls
  BY DEF QueuePage, Page, Queued
<1>2. DOMAIN H = {"approve", "reject", "execute"}
  BY DEF QueueHandlers
<1>3. /\ HandlerIs(H["approve"], Approved, "modal", "reload", FALSE)
      /\ HandlerIs(H["reject"], LeftQueue, "modal", "reload", FALSE)
      /\ HandlerIs(H["execute"], LeftQueue, "modal", "reload", FALSE)
  BY DEF HandlerIs, QueueHandlers, Handler, Decision
<1> HIDE DEF T, H
<1>4. /\ \E ctl \in T.controls : ctl.op = "approve" /\ ctl.blockedBy = {}
      /\ \E ctl \in T.controls : ctl.op = "reject" /\ ctl.blockedBy = {}
      /\ \E ctl \in T.controls : ctl.op = "execute" /\ ctl.blockedBy = {}
  BY <1>1 DEF QueueControls, InSecurityModal, Control
<1>5. ASSUME NEW ctl \in T.controls
      PROVE  ControlFits(T, ctl)
  BY <1>1, <1>2, <1>3 DEF ControlFits, HandlerIs, QueueControls, InSecurityModal, Control, Dialogs
<1>6. ASSUME NEW o \in DOMAIN H
      PROVE  Follows(T.statuses, H[o]) /\ ClosesItsOwn(T, H[o])
  BY <1>1, <1>2, <1>3, EffectsFollow DEF Follows, HandlerIs, ClosesItsOwn, Locks
<1>7. ASSUME NEW o \in DOMAIN H
      PROVE  Reveals(T, H[o]) /\ NoneTwice(T, o)
  BY <1>1, <1>2, <1>3, <1>4 DEF Reveals, HandlerIs, NoneTwice
<1>8. WellMade(T)
  BY <1>1, <1>2, <1>5, <1>6, <1>7 DEF WellMade, Statuses, Dialogs, Queued
<1> QED  BY <1>8 DEF T

(* The billing tab shows the plans' table.                                  *)
LEMMA BillingMade == WellMade(BillingPage)
<1>1. BillingPage = PlansPage
  BY
  DEF BillingPage, PlansPage, BillingHandlers, BillingPlansTable, BillingPlanModal, PlansControls
<1> QED  BY <1>1, PlansMade

(* Whichever page the tab shows.                                            *)
LEMMA TraitsMade ==
  ASSUME page \in DOMAIN PageOf
  PROVE  WellMade(Traits)
<1> USE DEF Traits, PageOf
<1>1. CASE page = "users"
  BY <1>1, UsersMade
<1>2. CASE page = "team"
  BY <1>2, TeamMade
<1>3. CASE page = "apiKeys"
  BY <1>3, ApiKeysMade
<1>4. CASE page = "sources"
  BY <1>4, SourcesMade
<1>5. CASE page = "deletions"
  BY <1>5, DeletionsMade
<1>6. CASE page = "alerts"
  BY <1>6, AlertsMade
<1>7. CASE page = "tenants"
  BY <1>7, TenantsMade
<1>8. CASE page = "tenantHeader"
  BY <1>8, HeaderMade
<1>9. CASE page = "tenantUsers"
  BY <1>9, TenantUsersMade
<1>10. CASE page = "tenantKeys"
  BY <1>10, TenantKeysMade
<1>11. CASE page = "tenantNotes"
  BY <1>11, TenantNotesMade
<1>12. CASE page = "staffUsers"
  BY <1>12, StaffUsersMade
<1>13. CASE page = "admins"
  BY <1>13, AdminsMade
<1>14. CASE page = "staffKeys"
  BY <1>14, StaffKeysMade
<1>15. CASE page = "announcements"
  BY <1>15, AnnouncementsMade
<1>16. CASE page = "plans"
  BY <1>16, PlansMade
<1>17. CASE page = "billing"
  BY <1>17, BillingMade
<1>18. CASE page = "queue"
  BY <1>18, QueueMade
<1> QED  BY <1>1, <1>2, <1>3, <1>4, <1>5, <1>6, <1>7, <1>8, <1>9, <1>10, <1>11, <1>12, <1>13,
            <1>14, <1>15, <1>16, <1>17, <1>18

-----------------------------------------------------------------------------
(* Types.                                                                    *)

(* A tab never turns into another page's.                                   *)
LEMMA PageStays ==
  ASSUME [Next]_vars
  PROVE  /\ page' = page /\ Traits' = Traits
         /\ \A c : Handles(c)' = Handles(c) /\ (CallFits(c)' <=> CallFits(c))
<1>1. page' = page
  BY DEF vars, Next, Reader, Backend, Answers, Open, Click, Close, Dismiss, Reload, Visit, Other,
     ServeList, ServeChange, Lose, AnswerList, AnswerOk, AnswerError, AnswerNobody
<1>2. Traits' = Traits
  BY <1>1 DEF Traits
<1> QED  BY <1>1, <1>2 DEF Handles, CallFits

(* There is a number left for another request, and it is not the secret's.  *)
LEMMA FreshIdIs ==
  ASSUME IsFiniteSet(calls)
  PROVE  FreshId \in Nat \ {0} /\ \A c \in calls : c.id # FreshId
<1> DEFINE ids == {c.id : c \in calls}
           taken == ids \cup {secret}
           n == Cardinality(calls)
           slots == 1 .. n + 2
<1>1. IsFiniteSet(ids) /\ Cardinality(ids) <= n
  BY Numbers
<1>2. n \in Nat /\ Cardinality(ids) \in Nat
  BY <1>1, FS_CardinalityType
<1>3. IsFiniteSet(taken) /\ Cardinality(taken) \in {Cardinality(ids), Cardinality(ids) + 1}
  BY <1>1, FS_AddElement
<1>4. Cardinality(slots) = n + 2
  BY <1>2, FS_Interval
<1>5. ~(slots \subseteq taken)
  <2>1. slots \subseteq taken => Cardinality(slots) <= Cardinality(taken)
    BY <1>3, FS_Subset
  <2> HIDE DEF ids, taken, n, slots
  <2> QED  BY <2>1, <1>1, <1>2, <1>3, <1>4
<1>6. \E i \in slots : (\A c \in calls : c.id # i) /\ i # secret
  BY <1>5
<1>7. FreshId \in slots /\ \A c \in calls : c.id # FreshId
  BY <1>6 DEF FreshId
<1> QED  BY <1>2, <1>7

(* What is sent is a request.                                               *)
LEMMA RequestFits ==
  ASSUME TableTypes, WellMade(Traits), NEW op, NEW r, NEW dialog \in Dialogs \cup {""},
         NEW flag \in Locks \cup {""},
         \/ op = "list" /\ r = NoRow /\ flag # "modal"
         \/ /\ op \in DOMAIN Traits.handlers /\ r \in Rows /\ flag = Traits.handlers[op].lock
            /\ flag = "modal" => dialog \in Traits.overlays
  PROVE  CallFits(Request(op, r, dialog, flag))
<1>1. FreshId \in Nat \ {0}
  BY FreshIdIs DEF TableTypes
<1>2. NoRows \in [Rows -> Traits.statuses]
  BY DEF NoRows, WellMade
<1>3. "list" \notin DOMAIN Traits.handlers
  BY DEF WellMade
<1> DEFINE new == Request(op, r, dialog, flag)
<1>4. /\ new.op = op /\ new.row = r /\ new.here /\ ~new.ok /\ new.flag = flag
      /\ new.dialog = dialog
  BY DEF Request
<1>5. new \in [id : Nat \ {0}, op : {"list"} \cup DOMAIN Traits.handlers, row : Rows \cup {NoRow},
               dialog : Dialogs \cup {""}, flag : Locks \cup {""}, mine : BOOLEAN, here : BOOLEAN,
               done : BOOLEAN, ok : BOOLEAN, answer : [Rows -> Traits.statuses]]
  BY <1>1, <1>2 DEF Request
<1> HIDE DEF new
<1> QED  BY <1>3, <1>4, <1>5 DEF CallFits, Handles, new

(* The image of a finite set.                                               *)
LEMMA MappedFinite ==
  ASSUME NEW S, IsFiniteSet(S), NEW f
  PROVE  IsFiniteSet({f[x] : x \in S})
<1> DEFINE g == [x \in S |-> f[x]]
           all == {f[x] : x \in S}
<1>1. g \in Surjection(S, all)
  BY DEF Surjection
<1> HIDE DEF g
<1> QED  BY <1>1, FS_Surjection

(* One request in the place of another, or one more, or one fewer.          *)
LEMMA CallsFit ==
  ASSUME TableTypes, NEW c \in calls, NEW new, CallFits(new)
  PROVE  /\ IsFiniteSet(calls \cup {new}) /\ \A d \in calls \cup {new} : CallFits(d)
         /\ IsFiniteSet(Replaced(c, new)) /\ \A d \in Replaced(c, new) : CallFits(d)
         /\ IsFiniteSet(calls \ {c}) /\ \A d \in calls \ {c} : CallFits(d)
<1>1. IsFiniteSet(calls) /\ \A d \in calls : CallFits(d)
  BY DEF TableTypes
<1>2. IsFiniteSet(calls \ {c}) /\ IsFiniteSet(calls \cup {new})
  BY <1>1, FS_RemoveElement, FS_AddElement
<1>3. IsFiniteSet(Replaced(c, new))
  BY <1>2, FS_AddElement DEF Replaced
<1> QED  BY <1>1, <1>2, <1>3 DEF Replaced

(* The flags and dialogs after an answer.                                   *)
LEMMA FlagsFit ==
  ASSUME TableTypes, NEW c \in calls, NEW kinds
  PROVE  /\ Release(c) \in [Locks -> Rows \cup {NoRow}]
         /\ Closed(kinds) \in [Dialogs -> Rows \cup {NoRow}]
<1>1. c.flag \in Locks \cup {""}
  BY DEF TableTypes, CallFits
<1> QED  BY <1>1 DEF TableTypes, Release, Closed

(* Every variable keeps its type.                                           *)
LEMMA StepTableTypes == TableTypes /\ [Next]_vars => TableTypes'
<1> SUFFICES ASSUME TableTypes, [Next]_vars
             PROVE  TableTypes'
  OBVIOUS
<1> DEFINE Boxes == [Dialogs -> Rows \cup {NoRow}]
           Flags == [Locks -> Rows \cup {NoRow}]
           Reasons == SUBSET {"other", "overlap", "lost"}
<1>0. WellMade(Traits)
  BY TraitsMade DEF TableTypes
<1>a. /\ page' \in DOMAIN PageOf /\ Traits' = Traits
      /\ \A c : CallFits(c)' <=> CallFits(c)
  BY PageStays DEF TableTypes
<1>b. ASSUME table' \in [Rows -> Traits.statuses], shown' \in [Rows -> Traits.statuses],
             busy' \in Flags, dialogs' \in Boxes, secret' \in Nat, error' \in BOOLEAN,
             excuse' \in Reasons, crossed' \in BOOLEAN,
             IsFiniteSet(calls'), \A c \in calls' : CallFits(c)
      PROVE  TableTypes'
  BY <1>a, <1>b DEF TableTypes
<1>c. /\ table \in [Rows -> Traits.statuses] /\ shown \in [Rows -> Traits.statuses]
      /\ busy \in Flags /\ dialogs \in Boxes /\ secret \in Nat /\ error \in BOOLEAN
      /\ excuse \in Reasons /\ crossed \in BOOLEAN
      /\ IsFiniteSet(calls) /\ \A c \in calls : CallFits(c)
  BY DEF TableTypes
<1>d. /\ NoRows \in [Rows -> Traits.statuses] /\ NoFlags \in Flags /\ NoDialogs \in Boxes
      /\ "modal" \in Locks
  BY <1>0 DEF NoRows, NoFlags, NoDialogs, WellMade, Locks
<1>e. \A new, old : ExcuseOverlap(new, old) => excuse' \in Reasons
  BY <1>c DEF ExcuseOverlap
<1>f. \A rest : StillCrossed(rest) \in BOOLEAN
  BY DEF StillCrossed
<1>g. CallFits(FirstLoad)
  BY <1>0, RequestFits DEF FirstLoad
<1> HIDE DEF Boxes, Flags, Reasons
<1>1. ASSUME NEW ctl \in Traits.controls, NEW r \in Rows, Open(ctl, r)
      PROVE  TableTypes'
  <2>1. ctl.dialog \in Dialogs
    BY <1>0, <1>1 DEF Open, WellMade, ControlFits
  <2>2. dialogs' \in Boxes
    BY <1>1, <1>c, <2>1 DEF Open, Boxes
  <2> QED  BY <1>1, <1>b, <1>c, <2>2 DEF Open
<1>2. ASSUME NEW ctl \in Traits.controls, NEW r \in Rows, Click(ctl, r)
      PROVE  TableTypes'
  <2> DEFINE h == Traits.handlers[ctl.op]
             new == Request(ctl.op, r, ctl.dialog, h.lock)
  <2>1. /\ ctl.op \in DOMAIN Traits.handlers /\ ctl.dialog \in Dialogs \cup {""}
        /\ h.lock \in Locks \cup {""} /\ (h.lock = "modal" => ctl.dialog \in Traits.overlays)
    BY <1>0 DEF WellMade, ControlFits, ClosesItsOwn
  <2>2. CallFits(new)
    BY <1>0, <2>1, RequestFits
  <2>3. /\ calls' = calls \cup {new} /\ ExcuseOverlap(new, calls) /\ crossed' \in BOOLEAN
        /\ busy' = (IF h.lock = "" THEN busy ELSE [busy EXCEPT ![h.lock] = r])
        /\ UNCHANGED <<page, table, shown, dialogs, error>>
    BY <1>2 DEF Click
  <2>4. IsFiniteSet(calls \cup {new})
    BY <1>c, FS_AddElement
  <2> HIDE DEF h, new
  <2>5. busy' \in Flags
    BY <1>c, <2>1, <2>3 DEF Flags
  <2>6. excuse' \in Reasons
    BY <1>e, <2>3
  <2>7. \A c \in calls' : CallFits(c)
    BY <1>c, <2>2, <2>3
  <2>8. secret' \in Nat
    <3>1. secret' = 0 \/ secret' = secret
      BY <1>2 DEF Click
    <3> QED  BY <1>c, <3>1
  <2>9. IsFiniteSet(calls')
    BY <2>3, <2>4, Zenon
  <2>10. crossed' \in BOOLEAN
    BY <2>3, Zenon
  <2> QED  BY <1>b, <1>c, <2>3, <2>5, <2>6, <2>7, <2>8, <2>9, <2>10
<1>3. ASSUME NEW d \in Dialogs, Close(d)
      PROVE  TableTypes'
  <2> DEFINE f == [c \in calls |-> [c EXCEPT !.mine = @ /\ c.dialog # d]]
  <2>1. calls' = {f[c] : c \in calls}
    BY <1>3 DEF Close
  <2>2. \A c \in calls : CallFits(f[c])
    <3> SUFFICES ASSUME NEW c \in calls
                 PROVE  CallFits([c EXCEPT !.mine = c.mine /\ c.dialog # d])
      OBVIOUS
    <3>1. CallFits(c) /\ (c.mine /\ c.dialog # d) \in BOOLEAN
      BY <1>c
    <3> QED  BY <3>1 DEF CallFits, Handles
  <2> HIDE DEF f
  <2>3. IsFiniteSet(calls')
    BY <1>c, <2>1, MappedFinite
  <2>4. dialogs' \in Boxes /\ busy' \in Flags
    BY <1>3, <1>c, <1>d DEF Close, Boxes, Flags
  <2>5. crossed' \in BOOLEAN /\ UNCHANGED <<page, table, shown, secret, error, excuse>>
    BY <1>3 DEF Close
  <2> QED  BY <1>b, <1>c, <2>1, <2>2, <2>3, <2>4, <2>5
<1>4. ASSUME Dismiss
      PROVE  TableTypes'
  BY <1>4, <1>b, <1>c DEF Dismiss
<1>5. ASSUME Reload
      PROVE  TableTypes'
  <2>1. IsFiniteSet(calls \cup {FirstLoad})
    BY <1>c, FS_AddElement
  <2> QED  BY <1>5, <1>b, <1>c, <1>e, <1>g, <2>1 DEF Reload
<1>6. ASSUME Visit
      PROVE  TableTypes'
  <2> DEFINE f == [c \in Changes |-> [c EXCEPT !.mine = FALSE, !.here = FALSE]]
             left == {f[c] : c \in Changes}
  <2>1. calls' = left \cup {FirstLoad}
    BY <1>6 DEF Visit
  <2>2. \A c \in Changes : CallFits(f[c])
    <3> SUFFICES ASSUME NEW c \in Changes
                 PROVE  CallFits([c EXCEPT !.mine = FALSE, !.here = FALSE])
      OBVIOUS
    <3>1. CallFits(c) /\ c.op # "list"
      BY <1>c DEF Changes
    <3> QED  BY <3>1 DEF CallFits, Handles
  <2>3. IsFiniteSet(Changes)
    BY <1>c, FS_Subset DEF Changes
  <2> HIDE DEF f
  <2>4. IsFiniteSet(left)
    BY <2>3, MappedFinite
  <2>5. IsFiniteSet(left \cup {FirstLoad})
    BY <2>4, FS_AddElement
  <2>6. \A c \in calls' : CallFits(c)
    BY <1>g, <2>1, <2>2
  <2> HIDE DEF left
  <2>7. /\ shown' = NoRows /\ busy' = NoFlags /\ dialogs' = NoDialogs /\ secret' = 0
        /\ error' = FALSE /\ crossed' \in BOOLEAN /\ table' = table
        /\ excuse' \in Reasons
    BY <1>6 DEF Visit, Reasons
  <2> QED  BY <1>b, <1>c, <1>d, <2>1, <2>5, <2>6, <2>7
<1>7. ASSUME NEW r \in Rows, Other(r)
      PROVE  TableTypes'
  <2>1. table' \in [Rows -> Traits.statuses] /\ excuse' \in Reasons
    BY <1>7, <1>c DEF Other, Reasons
  <2> QED  BY <1>7, <1>b, <1>c, <2>1 DEF Other
<1>8. ASSUME NEW c \in calls, ServeList(c)
      PROVE  TableTypes'
  <2> DEFINE new == [c EXCEPT !.done = TRUE, !.ok = TRUE, !.answer = table]
  <2>0. CallFits(c)
    BY <1>c
  <2>1. CallFits(new)
    BY <1>c, <1>d, <2>0 DEF CallFits, Handles
  <2>2. calls' = Replaced(c, new) /\ excuse' \in Reasons
    BY <1>8, <1>c DEF ServeList, Reasons
  <2> HIDE DEF new
  <2>3. IsFiniteSet(calls') /\ \A d \in calls' : CallFits(d)
    BY <2>1, <2>2, CallsFit
  <2> QED  BY <1>8, <1>b, <1>c, <2>2, <2>3 DEF ServeList
<1>9. ASSUME NEW c \in calls, ServeChange(c)
      PROVE  TableTypes'
  <2>0. c.op \in DOMAIN Traits.handlers /\ c.row \in Rows /\ c.op # "list"
    BY <1>9, <1>c DEF ServeChange, CallFits
  <2>1. CASE table[c.row] \in DOMAIN Handles(c).does
    <3>1. PICK s \in Handles(c).does[table[c.row]] :
            /\ table' = [table EXCEPT ![c.row] = s]
            /\ calls' = Replaced(c, [c EXCEPT !.done = TRUE, !.ok = TRUE, !.answer[c.row] = s])
      BY <1>9, <2>1 DEF ServeChange
    <3>2. s \in Traits.statuses
      BY <1>0, <1>c, <2>0, <2>1 DEF WellMade, Follows, Suits, Handles
    <3>3. CallFits([c EXCEPT !.done = TRUE, !.ok = TRUE, !.answer[c.row] = s])
      <4>1. CallFits(c)
        BY <1>c
      <4>2. [c.answer EXCEPT ![c.row] = s] \in [Rows -> Traits.statuses]
        BY <3>2, <4>1 DEF CallFits
      <4>3. CallFits([c EXCEPT !.done = TRUE, !.ok = TRUE,
                               !.answer = [c.answer EXCEPT ![c.row] = s]])
        BY <2>0, <4>1, <4>2 DEF CallFits, Handles
      <4> QED  BY <4>3
    <3>4. IsFiniteSet(calls') /\ \A d \in calls' : CallFits(d)
      BY <3>1, <3>3, CallsFit
    <3>5. table' \in [Rows -> Traits.statuses]
      BY <1>c, <3>1, <3>2
    <3> QED  BY <1>9, <1>b, <1>c, <3>4, <3>5 DEF ServeChange
  <2>2. CASE table[c.row] \notin DOMAIN Handles(c).does
    <3>1. calls' = Replaced(c, [c EXCEPT !.done = TRUE]) /\ table' = table
      BY <1>9, <2>2 DEF ServeChange
    <3>2. CallFits([c EXCEPT !.done = TRUE])
      <4>1. CallFits(c)
        BY <1>c
      <4> QED  BY <4>1 DEF CallFits, Handles
    <3>3. IsFiniteSet(calls') /\ \A d \in calls' : CallFits(d)
      BY <3>1, <3>2, CallsFit
    <3> QED  BY <1>9, <1>b, <1>c, <3>1, <3>3 DEF ServeChange
  <2> QED  BY <2>1, <2>2
<1>10. ASSUME NEW c \in calls, Lose(c)
       PROVE  TableTypes'
  <2> DEFINE new == [c EXCEPT !.done = TRUE, !.ok = FALSE, !.answer = NoRows]
  <2>0. CallFits(c)
    BY <1>c
  <2>1. CallFits(new)
    BY <1>c, <1>d, <2>0 DEF CallFits, Handles
  <2>2. calls' = Replaced(c, new) /\ excuse' \in Reasons
    BY <1>10, <1>c DEF Lose, Reasons
  <2> HIDE DEF new
  <2>3. IsFiniteSet(calls') /\ \A d \in calls' : CallFits(d)
    BY <2>1, <2>2, CallsFit
  <2> QED  BY <1>10, <1>b, <1>c, <2>2, <2>3 DEF Lose
<1>11. ASSUME NEW c \in calls
       PROVE  IsFiniteSet(calls \ {c}) /\ \A d \in calls \ {c} : CallFits(d)
  BY <1>c, FS_RemoveElement
<1>h. \A c \in calls : \A kinds : Release(c) \in Flags /\ Closed(kinds) \in Boxes
  BY FlagsFit DEF Flags, Boxes
<1>12. ASSUME NEW c \in calls, AnswerList(c)
       PROVE  TableTypes'
  <2>1. shown' \in [Rows -> Traits.statuses] /\ error' \in BOOLEAN
    BY <1>12, <1>c DEF AnswerList, CallFits
  <2>2. /\ busy' = Release(c) /\ calls' = calls \ {c} /\ crossed' = StillCrossed(calls')
        /\ UNCHANGED <<page, table, dialogs, secret, excuse>>
    BY <1>12 DEF AnswerList
  <2> QED  BY <1>11, <1>b, <1>c, <1>f, <1>h, <2>1, <2>2
<1>13. ASSUME NEW c \in calls, AnswerError(c)
       PROVE  TableTypes'
  <2>1. /\ busy' = Release(c) /\ calls' = calls \ {c} /\ crossed' = StillCrossed(calls')
        /\ dialogs' = Closed(Handles(c).always) /\ error' \in BOOLEAN
        /\ UNCHANGED <<page, table, shown, secret, excuse>>
    BY <1>13 DEF AnswerError
  <2> QED  BY <1>11, <1>b, <1>c, <1>f, <1>h, <2>1
<1>14. ASSUME NEW c \in calls, AnswerNobody(c)
       PROVE  TableTypes'
  <2>1. /\ calls' = calls \ {c} /\ crossed' = StillCrossed(calls')
        /\ UNCHANGED <<page, table, shown, busy, dialogs, secret, error, excuse>>
    BY <1>14 DEF AnswerNobody
  <2> QED  BY <1>11, <1>b, <1>c, <1>f, <2>1
<1>15. ASSUME NEW c \in calls, AnswerOk(c)
       PROVE  TableTypes'
  <2> DEFINE h == Handles(c)
             rest == calls \ {c}
             held == IF h.awaits THEN c.flag ELSE ""
             load == Request("list", NoRow, "", held)
             reload == [load EXCEPT !.mine = c.mine]
             both == h.closes \cup h.always
             freed == IF h.awaits THEN busy ELSE Release(c)
  <2>1. /\ c.op # "list" /\ c.done /\ c.ok /\ c.here
        /\ shown' = Patched(c) /\ dialogs' = Closed(both)
        /\ secret' = (IF h.reveals THEN c.id ELSE secret)
        /\ busy' = (IF \E d \in both \cap Traits.overlays : dialogs[d] # NoRow
                    THEN [freed EXCEPT !["modal"] = NoRow] ELSE freed)
        /\ \/ calls' = rest \cup {reload} /\ ExcuseOverlap(reload, rest)
           \/ calls' = rest /\ UNCHANGED excuse
        /\ crossed' = StillCrossed(calls')
        /\ UNCHANGED <<page, table, error>>
    BY <1>15, Zenon DEF AnswerOk
  <2>2. /\ CallFits(c) /\ c.op \in DOMAIN Traits.handlers /\ c.row \in Rows /\ c.flag = h.lock
        /\ c.flag \in Locks \cup {""} /\ c.answer \in [Rows -> Traits.statuses] /\ c.id \in Nat
        /\ c.mine \in BOOLEAN
    BY <1>c, <2>1 DEF CallFits
  <2>3. shown' \in [Rows -> Traits.statuses]
    <3>1. h.then \in {"reload", "put", "patch", "off", "drop", "keep"}
          /\ (h.then = "off" => "off" \in Traits.statuses) /\ "none" \in Traits.statuses
      BY <1>0, <2>2 DEF WellMade, Follows, Suits, Handles
    <3>2. CASE h.then \in {"put", "patch"}
      BY <1>c, <2>1, <2>2, <3>2 DEF Patched
    <3>3. CASE h.then = "off"
      BY <1>c, <2>1, <2>2, <3>1, <3>3 DEF Patched
    <3>4. CASE h.then = "drop"
      BY <1>c, <2>1, <2>2, <3>1, <3>4 DEF Patched
    <3>5. CASE h.then \in {"reload", "keep"}
      BY <1>c, <2>1, <2>2, <3>5 DEF Patched
    <3> QED  BY <3>1, <3>2, <3>3, <3>4, <3>5
  <2>4. secret' \in Nat
    BY <1>c, <2>1, <2>2
  <2>5. busy' \in Flags /\ dialogs' \in Boxes
    <3>1. freed \in Flags
      BY <1>c, <1>h
    <3> HIDE DEF freed, both
    <3> QED  BY <1>d, <1>h, <2>1, <3>1 DEF Flags
  <2>6. CallFits(reload)
    <3>1. held \in Locks \cup {""} /\ held # "modal"
      BY <1>0, <2>2 DEF WellMade, ClosesItsOwn, Handles
    <3> HIDE DEF held
    <3>2. CallFits(load)
      BY <1>0, <3>1, RequestFits
    <3> HIDE DEF load
    <3> QED  BY <2>2, <3>2 DEF CallFits, Handles
  <2> HIDE DEF reload, h
  <2>7. IsFiniteSet(rest) /\ IsFiniteSet(rest \cup {reload}) /\ \A d \in rest : CallFits(d)
    BY <1>11, FS_AddElement
  <2> HIDE DEF rest
  <2>8. IsFiniteSet(calls') /\ \A d \in calls' : CallFits(d)
    BY <2>1, <2>6, <2>7
  <2>9. excuse' \in Reasons /\ crossed' \in BOOLEAN
    BY <1>c, <1>e, <1>f, <2>1
  <2> QED  BY <1>b, <1>c, <2>1, <2>3, <2>4, <2>5, <2>8, <2>9
<1>16. CASE UNCHANGED vars
  BY <1>16, <1>b, <1>c DEF vars
<1> QED
  BY <1>1, <1>2, <1>3, <1>4, <1>5, <1>6, <1>7, <1>8, <1>9, <1>10, <1>12, <1>13, <1>14, <1>15, <1>16
  DEF Next, Reader, Backend, Answers

-----------------------------------------------------------------------------
(* The rows on the screen.                                                   *)

(* While nothing excuses the screen, a list is loaded alone, and no row has *)
(* two requests.                                                            *)
LEMMA NoRivals ==
  ASSUME ScreenAccountedFor, excuse = {}, NEW c \in calls
  PROVE  /\ c.here
         /\ c.op = "list" => calls = {c}
         /\ c.op # "list" => /\ \A d \in calls : d.op # "list" /\ (d # c => d.row # c.row)
                             /\ \A r \in Rows : RowAccountedFor(r)
BY DEF ScreenAccountedFor, Conflict

(* A new request that excuses nothing has no rivals either.                 *)
LEMMA NoNewRivals ==
  ASSUME NEW new, NEW old, ExcuseOverlap(new, old), excuse' = {}
  PROVE  /\ excuse = {}
         /\ \A c \in old : ~Conflict(new, c) /\ ~Conflict(c, new)
BY DEF ExcuseOverlap, Conflict

(* The continuation does to the row shown what the endpoint did to the row. *)
LEMMA PatchedRow ==
  ASSUME TableTypes, NEW c \in calls, c.op # "list", c.ok, RowAccountedFor(c.row),
         Handles(c).then # "reload"
  PROVE  Patched(c)[c.row] = table[c.row]
<1>1. CallFits(c) /\ WellMade(Traits) /\ shown \in [Rows -> Traits.statuses]
  BY TraitsMade DEF TableTypes
<1>2. c.op \in DOMAIN Traits.handlers /\ c.row \in Rows
  BY <1>1 DEF CallFits
<1> DEFINE h == Handles(c)
           r == c.row
<1>3. Suits(Traits.statuses, h.does, h.then)
  BY <1>1, <1>2 DEF WellMade, Follows, Handles
<1>4. /\ shown[r] \in DOMAIN h.does /\ table[r] \in h.does[shown[r]]
      /\ c.answer[r] = table[r]
  BY DEF RowAccountedFor
<1>5. CASE h.then = "put"
  BY <1>1, <1>2, <1>4, <1>5 DEF Patched
<1>6. CASE h.then = "patch"
  BY <1>1, <1>2, <1>3, <1>4, <1>6 DEF Patched, Suits
<1>7. CASE h.then = "off"
  BY <1>1, <1>2, <1>3, <1>4, <1>7 DEF Patched, Suits
<1>8. CASE h.then = "drop"
  BY <1>1, <1>2, <1>3, <1>4, <1>8 DEF Patched, Suits
<1>9. CASE h.then = "keep"
  <2>1. table[r] = shown[r]
    BY <1>3, <1>4, <1>9 DEF Suits
  <2> QED  BY <1>1, <1>2, <1>9, <2>1 DEF Patched
<1> QED  BY <1>3, <1>5, <1>6, <1>7, <1>8, <1>9 DEF Suits

(* The rows shown stay the server's, but for the changes that are excused   *)
(* or whose requests are under way.                                         *)
LEMMA StepScreen == TableTypes /\ ScreenAccountedFor /\ [Next]_vars => ScreenAccountedFor'
<1> SUFFICES ASSUME TableTypes, ScreenAccountedFor, [Next]_vars, excuse' = {}
             PROVE  ScreenAccountedFor'
  BY DEF ScreenAccountedFor
<1>a. \A c : Handles(c)' = Handles(c)
  BY PageStays
<1>b. /\ shown \in [Rows -> Traits.statuses] /\ table \in [Rows -> Traits.statuses]
      /\ \A c \in calls : CallFits(c)
  BY DEF TableTypes
<1>c. ASSUME UNCHANGED <<calls, shown, table, excuse>>
      PROVE  ScreenAccountedFor'
  BY <1>a, <1>c DEF ScreenAccountedFor, RowAccountedFor
<1>d. ASSUME NEW load, calls' = {load}, load.op = "list", load.here,
             load.done => load.ok /\ load.answer = table'
      PROVE  ScreenAccountedFor'
  BY <1>d DEF ScreenAccountedFor, Conflict
<1>1. ASSUME NEW ctl \in Traits.controls, NEW r \in Rows, Click(ctl, r)
      PROVE  ScreenAccountedFor'
  <2> DEFINE new == Request(ctl.op, r, ctl.dialog, Traits.handlers[ctl.op].lock)
  <2>1. calls' = calls \cup {new} /\ ExcuseOverlap(new, calls) /\ UNCHANGED <<shown, table>>
    BY <1>1 DEF Click
  <2>2. new.op = ctl.op /\ new.row = r /\ new.here /\ ~new.done /\ ~new.ok
    BY DEF Request
  <2>3. ctl.op # "list"
    BY TraitsMade DEF TableTypes, WellMade, ControlFits
  <2> HIDE DEF new
  <2>4. excuse = {} /\ \A c \in calls : ~Conflict(new, c) /\ ~Conflict(c, new)
    BY <2>1, NoNewRivals
  <2>5. \A c \in calls : c.op # "list" /\ c.row # r
    BY <2>2, <2>4 DEF Conflict
  <2>6. \A p \in Rows : RowAccountedFor(p)
    BY <2>4, <2>5 DEF ScreenAccountedFor
  <2>7. \A p \in Rows : RowAccountedFor(p)'
    <3> SUFFICES ASSUME NEW p \in Rows
                 PROVE  RowAccountedFor(p)'
      OBVIOUS
    <3>1. RowAccountedFor(p)
      BY <2>6
    <3>2. CASE p = r
      BY <1>a, <2>1, <2>2, <2>5, <3>1, <3>2 DEF RowAccountedFor
    <3>3. CASE p # r
      BY <1>a, <2>1, <2>2, <3>1, <3>3 DEF RowAccountedFor
    <3> QED  BY <3>2, <3>3
  <2>8. \A c \in calls' : c.here /\ c.op # "list"
    BY <2>1, <2>2, <2>3, <2>4, <2>5 DEF ScreenAccountedFor
  <2>9. \A c, d \in calls' : c # d => ~Conflict(c, d)
    BY <2>1, <2>4 DEF ScreenAccountedFor
  <2> QED  BY <2>7, <2>8, <2>9 DEF ScreenAccountedFor
<1>2. ASSUME NEW d \in Dialogs, Close(d)
      PROVE  ScreenAccountedFor'
  <2> DEFINE f == [c \in calls |-> [c EXCEPT !.mine = @ /\ c.dialog # d]]
  <2>1. calls' = {f[c] : c \in calls} /\ UNCHANGED <<shown, table, excuse>>
    BY <1>2 DEF Close
  <2>2. \A c \in calls : /\ f[c].op = c.op /\ f[c].row = c.row /\ f[c].here = c.here
                         /\ f[c].done = c.done /\ f[c].ok = c.ok /\ f[c].answer = c.answer
                         /\ Handles(f[c]) = Handles(c)
    BY <1>b DEF CallFits, Handles
  <2> HIDE DEF f
  <2>3. \A c, e \in calls' : c # e => ~Conflict(c, e)
    BY <2>1, <2>2 DEF ScreenAccountedFor, Conflict
  <2>4. \A c \in calls' : c.here /\ (c.op = "list" /\ c.done => c.ok /\ c.answer = table')
    BY <2>1, <2>2 DEF ScreenAccountedFor
  <2>5. ASSUME NEW r \in Rows, \A c \in calls' : c.op # "list"
        PROVE  RowAccountedFor(r)'
    <3>1. RowAccountedFor(r)
      BY <2>1, <2>2, <2>5 DEF ScreenAccountedFor
    <3>2. (\A c \in calls' : c.row # r) => shown'[r] = table'[r]
      BY <2>1, <2>2, <3>1 DEF RowAccountedFor
    <3>3. ASSUME NEW c \in calls, f[c].row = r
          PROVE  IF f[c].ok
                 THEN /\ shown'[r] \in DOMAIN Handles(f[c]).does
                      /\ table'[r] \in Handles(f[c]).does[shown'[r]]
                      /\ f[c].answer[r] = table'[r]
                 ELSE shown'[r] = table'[r]
      BY <2>1, <2>2, <3>1, <3>3 DEF RowAccountedFor
    <3> QED  BY <1>a, <2>1, <3>2, <3>3 DEF RowAccountedFor
  <2> QED  BY <2>3, <2>4, <2>5 DEF ScreenAccountedFor
<1>3. FirstLoad.op = "list" /\ FirstLoad.here /\ ~FirstLoad.done
  BY DEF FirstLoad, Request
<1>4. ASSUME Reload
      PROVE  ScreenAccountedFor'
  <2>1. calls' = calls \cup {FirstLoad} /\ ExcuseOverlap(FirstLoad, calls)
    BY <1>4 DEF Reload
  <2>2. calls = {}
    BY <1>3, <2>1, NoNewRivals DEF Conflict
  <2> QED  BY <1>3, <1>d, <2>1, <2>2
<1>5. ASSUME Visit
      PROVE  ScreenAccountedFor'
  <2>1. calls' = {FirstLoad}
    BY <1>5 DEF Visit
  <2> QED  BY <1>3, <1>d, <2>1
<1>6. ASSUME NEW c \in calls, ServeList(c)
      PROVE  ScreenAccountedFor'
  <2> DEFINE new == [c EXCEPT !.done = TRUE, !.ok = TRUE, !.answer = table]
  <2>1. /\ c.op = "list" /\ calls' = Replaced(c, new) /\ table' = table
        /\ excuse' = IF calls = {c} THEN {} ELSE excuse
    BY <1>6 DEF ServeList
  <2>2. calls = {c}
    BY <2>1, NoRivals
  <2>3. /\ new.op = "list" /\ new.here /\ new.ok /\ new.answer = table
    BY <1>b, <2>1 DEF CallFits
  <2> HIDE DEF new
  <2>4. calls' = {new}
    BY <2>1, <2>2 DEF Replaced
  <2> QED  BY <1>d, <2>1, <2>3, <2>4
<1>7. ASSUME NEW c \in calls, ServeChange(c)
      PROVE  ScreenAccountedFor'
  <2>0. c.op # "list" /\ ~c.done /\ UNCHANGED <<shown, excuse>>
    BY <1>7 DEF ServeChange
  <2>1. /\ c.here /\ \A d \in calls : d.op # "list" /\ (d # c => d.row # c.row)
        /\ \A r \in Rows : RowAccountedFor(r)
    BY <2>0, NoRivals
  <2>2. CallFits(c) /\ ~c.ok /\ c.row \in Rows
    BY <1>b, <2>0 DEF CallFits
  <2>3. shown[c.row] = table[c.row]
    BY <2>1, <2>2 DEF RowAccountedFor
  <2>4. PICK new :
          /\ calls' = Replaced(c, new)
          /\ new.op = c.op /\ new.row = c.row /\ new.here
          /\ \A r \in Rows \ {c.row} : table'[r] = table[r]
          /\ IF new.ok
             THEN /\ table[c.row] \in DOMAIN Handles(c).does
                  /\ table'[c.row] \in Handles(c).does[table[c.row]]
                  /\ new.answer[c.row] = table'[c.row]
             ELSE table' = table
    <3>1. CASE table[c.row] \in DOMAIN Handles(c).does
      <4>1. PICK s \in Handles(c).does[table[c.row]] :
              /\ table' = [table EXCEPT ![c.row] = s]
              /\ calls' = Replaced(c, [c EXCEPT !.done = TRUE, !.ok = TRUE, !.answer[c.row] = s])
        BY <1>7, <3>1 DEF ServeChange
      <4> DEFINE new == [c EXCEPT !.done = TRUE, !.ok = TRUE, !.answer[c.row] = s]
      <4>2. new.op = c.op /\ new.row = c.row /\ new.here /\ new.ok /\ new.answer[c.row] = s
        BY <2>1, <2>2 DEF CallFits
      <4>3. table'[c.row] = s /\ \A r \in Rows \ {c.row} : table'[r] = table[r]
        BY <1>b, <2>2, <4>1
      <4> HIDE DEF new
      <4> QED  BY <3>1, <4>1, <4>2, <4>3 DEF new
    <3>2. CASE table[c.row] \notin DOMAIN Handles(c).does
      <4> DEFINE new == [c EXCEPT !.done = TRUE]
      <4>1. calls' = Replaced(c, new) /\ table' = table
        BY <1>7, <3>2 DEF ServeChange
      <4>2. new.op = c.op /\ new.row = c.row /\ new.here /\ ~new.ok
        BY <2>1, <2>2 DEF CallFits
      <4> HIDE DEF new
      <4> QED  BY <4>1, <4>2
    <3> QED  BY <3>1, <3>2
  <2>5. Handles(new) = Handles(c)
    BY <2>4 DEF Handles
  <2>6. \A d \in calls' : d.here /\ d.op # "list"
    BY <2>0, <2>1, <2>4, NoRivals DEF Replaced
  <2>7. \A d, e \in calls' : d # e => ~Conflict(d, e)
    BY <2>0, <2>1, <2>4 DEF Replaced, ScreenAccountedFor, Conflict
  <2>8. ASSUME NEW r \in Rows
        PROVE  RowAccountedFor(r)'
    <3>1. RowAccountedFor(r)
      BY <2>1
    <3>2. CASE r = c.row
      <4>1. \A d \in calls' : d.row = r => d = new
        BY <2>1, <2>4, <3>2 DEF Replaced
      <4>2. new \in calls' /\ new.row = r
        BY <2>4, <3>2 DEF Replaced
      <4> QED  BY <1>a, <2>0, <2>3, <2>4, <2>5, <3>2, <4>1, <4>2 DEF RowAccountedFor
    <3>3. CASE r # c.row
      <4>1. \A d : d.row = r => (d \in calls' <=> d \in calls)
        BY <2>4, <3>3 DEF Replaced
      <4>2. table'[r] = table[r] /\ shown' = shown
        BY <2>0, <2>4, <3>3
      <4> QED  BY <1>a, <3>1, <4>1, <4>2 DEF RowAccountedFor
    <3> QED  BY <3>2, <3>3
  <2> QED  BY <2>6, <2>7, <2>8 DEF ScreenAccountedFor
<1>8. ASSUME NEW c \in calls, AnswerList(c)
      PROVE  ScreenAccountedFor'
  <2>1. /\ c.op = "list" /\ c.done /\ shown' = (IF c.ok THEN c.answer ELSE shown)
        /\ calls' = calls \ {c} /\ UNCHANGED <<table, excuse>>
    BY <1>8 DEF AnswerList
  <2>2. calls = {c}
    BY <2>1, NoRivals
  <2>3. c.ok /\ c.answer = table
    BY <2>1 DEF ScreenAccountedFor
  <2>4. calls' = {} /\ shown' = table'
    BY <2>1, <2>2, <2>3
  <2> QED  BY <2>4 DEF ScreenAccountedFor, RowAccountedFor
<1>9. ASSUME NEW c \in calls, c.op # "list", calls' = calls \ {c}, UNCHANGED <<table, excuse>>,
             \A r \in Rows \ {c.row} : shown'[r] = shown[r], shown'[c.row] = table[c.row]
      PROVE  ScreenAccountedFor'
  <2>1. /\ \A d \in calls : d.op # "list" /\ (d # c => d.row # c.row)
        /\ \A r \in Rows : RowAccountedFor(r)
    BY <1>9, NoRivals
  <2>2. ASSUME NEW r \in Rows
        PROVE  RowAccountedFor(r)'
    <3>1. RowAccountedFor(r)
      BY <2>1
    <3>2. CASE r = c.row
      <4>1. \A d \in calls' : d.row # r
        BY <1>9, <2>1, <3>2
      <4> QED  BY <1>9, <3>2, <4>1 DEF RowAccountedFor
    <3>3. CASE r # c.row
      <4>1. \A d : d.row = r => (d \in calls' <=> d \in calls)
        BY <1>9, <3>3
      <4>2. table'[r] = table[r] /\ shown'[r] = shown[r]
        BY <1>9, <3>3
      <4> QED  BY <1>a, <3>1, <4>1, <4>2 DEF RowAccountedFor
    <3> QED  BY <3>2, <3>3
  <2>3. /\ \A d \in calls' : d.here /\ d.op # "list"
        /\ \A d, e \in calls' : d # e => ~Conflict(d, e)
    BY <1>9, <2>1 DEF ScreenAccountedFor
  <2> QED  BY <2>2, <2>3 DEF ScreenAccountedFor
<1>10. ASSUME NEW c \in calls, AnswerOk(c)
       PROVE  ScreenAccountedFor'
  <2> DEFINE rest == calls \ {c}
             reload == [Request("list", NoRow, "", IF Handles(c).awaits THEN c.flag ELSE "")
                          EXCEPT !.mine = c.mine]
  <2>1. /\ c.op # "list" /\ c.ok /\ shown' = Patched(c) /\ table' = table
        /\ IF Handles(c).then = "reload"
           THEN calls' = rest \cup {reload} /\ ExcuseOverlap(reload, rest)
           ELSE calls' = rest /\ UNCHANGED excuse
    BY <1>10, Zenon DEF AnswerOk
  <2>2. CASE Handles(c).then = "reload"
    <3>1. reload.op = "list" /\ reload.here /\ ~reload.done
      BY DEF Request
    <3> HIDE DEF reload
    <3>2. rest = {}
      BY <2>1, <2>2, <3>1, NoNewRivals DEF Conflict
    <3> QED  BY <1>d, <2>1, <2>2, <3>1, <3>2
  <2>3. CASE Handles(c).then # "reload"
    <3>1. calls' = calls \ {c} /\ UNCHANGED <<table, excuse>>
      BY <2>1, <2>3
    <3>2. c.row \in Rows
      BY <1>b, <2>1 DEF CallFits
    <3>3. RowAccountedFor(c.row)
      BY <2>1, <3>1, <3>2, NoRivals
    <3>4. shown'[c.row] = table[c.row]
      BY <2>1, <2>3, <3>3, PatchedRow
    <3>5. \A r \in Rows \ {c.row} : shown'[r] = shown[r]
      BY <1>b, <2>1 DEF Patched
    <3> QED  BY <1>9, <2>1, <3>1, <3>4, <3>5
  <2> QED  BY <2>2, <2>3
<1>11. ASSUME NEW c \in calls, AnswerError(c)
       PROVE  ScreenAccountedFor'
  <2>1. c.op # "list" /\ ~c.ok /\ calls' = calls \ {c} /\ UNCHANGED <<shown, table, excuse>>
    BY <1>11 DEF AnswerError
  <2>2. c.row \in Rows
    BY <1>b, <2>1 DEF CallFits
  <2>3. shown[c.row] = table[c.row]
    BY <2>1, <2>2, NoRivals DEF RowAccountedFor
  <2> QED  BY <1>9, <2>1, <2>3
<1>12. ASSUME NEW c \in calls, AnswerNobody(c)
       PROVE  FALSE
  BY <1>12, NoRivals DEF AnswerNobody
<1>13. \A r \in Rows : ~Other(r)
  BY DEF Other
<1>14. \A c \in calls : ~Lose(c)
  BY DEF Lose
<1>15. ASSUME NEW ctl \in Traits.controls, NEW r \in Rows, Open(ctl, r)
       PROVE  ScreenAccountedFor'
  BY <1>15, <1>c DEF Open
<1>16. CASE Dismiss
  BY <1>16, <1>c DEF Dismiss
<1>17. CASE UNCHANGED vars
  BY <1>17, <1>c DEF vars
<1> QED
  BY <1>1, <1>2, <1>4, <1>5, <1>6, <1>7, <1>8, <1>10, <1>11, <1>12, <1>13, <1>14, <1>15, <1>16, <1>17
  DEF Next, Reader, Backend, Answers

-----------------------------------------------------------------------------
(* The flags and the secrets.                                                *)

(* A dialog that covers the page is opened from an uncovered page.          *)
LEMMA StepCovers == TableTypes /\ OneCovers /\ [Next]_vars => OneCovers'
<1> SUFFICES ASSUME TableTypes, OneCovers, [Next]_vars
             PROVE  OneCovers'
  OBVIOUS
<1>a. Traits' = Traits
  BY PageStays
<1>b. dialogs \in [Dialogs -> Rows \cup {NoRow}]
  BY DEF TableTypes
<1>1. ASSUME \A d \in Dialogs : dialogs'[d] # NoRow => dialogs[d] # NoRow
      PROVE  OneCovers'
  BY <1>a, <1>1 DEF OneCovers, Covering
<1>2. ASSUME NEW ctl \in Traits.controls, NEW r \in Rows, Open(ctl, r)
      PROVE  OneCovers'
  <2>1. /\ dialogs' = [dialogs EXCEPT ![ctl.dialog] = r] /\ Covering = {}
    BY <1>2 DEF Open
  <2>2. \A d \in Dialogs : d \in Covering' => d = ctl.dialog
    BY <1>a, <1>b, <2>1 DEF Covering
  <2> QED  BY <2>2 DEF OneCovers
<1>3. ASSUME NEW d \in Dialogs, Close(d)
      PROVE  OneCovers'
  <2>1. dialogs' = [dialogs EXCEPT ![d] = NoRow]
    BY <1>3 DEF Close
  <2> QED  BY <1>1, <1>b, <2>1
<1>4. ASSUME Visit
      PROVE  OneCovers'
  <2>1. dialogs' = [d \in Dialogs |-> NoRow]
    BY <1>4 DEF Visit, NoDialogs
  <2> QED  BY <1>1, <2>1
<1>5. ASSUME NEW c \in calls, AnswerOk(c) \/ AnswerError(c)
      PROVE  OneCovers'
  <2>1. PICK kinds : dialogs' = Closed(kinds)
    BY <1>5 DEF AnswerOk, AnswerError
  <2> QED  BY <1>1, <2>1 DEF Closed
<1>6. ASSUME UNCHANGED dialogs
      PROVE  OneCovers'
  BY <1>1, <1>6
<1> QED
  BY <1>2, <1>3, <1>4, <1>5, <1>6
  DEF Next, Reader, Backend, Answers, Click, Dismiss, Reload, Other, ServeList, ServeChange, Lose,
      AnswerList, AnswerNobody, vars

(* What is handled or lost is still the same request.                       *)
LEMMA SameRequest ==
  ASSUME NEW c \in calls, CallFits(c), ServeList(c) \/ ServeChange(c) \/ Lose(c)
  PROVE  \E new : /\ calls' = Replaced(c, new) /\ new.op = c.op /\ new.row = c.row
                  /\ new.dialog = c.dialog /\ new.flag = c.flag
<1>1. CASE ServeList(c)
  <2> DEFINE new == [c EXCEPT !.done = TRUE, !.ok = TRUE, !.answer = table]
  <2>1. calls' = Replaced(c, new)
    BY <1>1 DEF ServeList
  <2>2. new.op = c.op /\ new.row = c.row /\ new.dialog = c.dialog /\ new.flag = c.flag
    BY DEF CallFits
  <2> HIDE DEF new
  <2> QED  BY <2>1, <2>2
<1>2. CASE ServeChange(c) /\ table[c.row] \in DOMAIN Handles(c).does
  <2>1. PICK s : calls' = Replaced(c, [c EXCEPT !.done = TRUE, !.ok = TRUE, !.answer[c.row] = s])
    BY <1>2 DEF ServeChange
  <2> DEFINE new == [c EXCEPT !.done = TRUE, !.ok = TRUE, !.answer[c.row] = s]
  <2>2. new.op = c.op /\ new.row = c.row /\ new.dialog = c.dialog /\ new.flag = c.flag
    BY DEF CallFits
  <2>3. calls' = Replaced(c, new)
    BY <2>1
  <2> HIDE DEF new
  <2> QED  BY <2>2, <2>3
<1>3. CASE ServeChange(c) /\ table[c.row] \notin DOMAIN Handles(c).does
  <2> DEFINE new == [c EXCEPT !.done = TRUE]
  <2>1. calls' = Replaced(c, new)
    BY <1>3 DEF ServeChange
  <2>2. new.op = c.op /\ new.row = c.row /\ new.dialog = c.dialog /\ new.flag = c.flag
    BY DEF CallFits
  <2> HIDE DEF new
  <2> QED  BY <2>1, <2>2
<1>4. CASE Lose(c)
  <2> DEFINE new == [c EXCEPT !.done = TRUE, !.ok = FALSE, !.answer = NoRows]
  <2>1. calls' = Replaced(c, new)
    BY <1>4 DEF Lose
  <2>2. new.op = c.op /\ new.row = c.row /\ new.dialog = c.dialog /\ new.flag = c.flag
    BY DEF CallFits
  <2> HIDE DEF new
  <2> QED  BY <2>1, <2>2
<1> QED  BY <1>1, <1>2, <1>3, <1>4

(* A button that its flag disables is pressed while no request holds it.    *)
LEMMA ClickFindsItFree ==
  ASSUME TableTypes, FlagsHeld, ~crossed, NEW ctl \in Traits.controls, NEW r \in Rows,
         Click(ctl, r), ~crossed', NEW l, l = Traits.handlers[ctl.op].lock, Guarded(Traits, l)
  PROVE  \A c \in calls : c.flag # l
<1> SUFFICES ASSUME NEW c \in calls, c.flag = l
             PROVE  FALSE
  OBVIOUS
<1>1. l # "" /\ l \in ctl.blockedBy
  BY DEF Guarded
<1>2. c.row = r
  BY <1>1 DEF Click
<1>3. CallFits(c) /\ NoRow \notin Rows
  BY PagesAssumption DEF TableTypes
<1>4. c.op # "list"
  BY <1>2, <1>3 DEF CallFits
<1>5. busy[l] = r
  BY <1>2, <1>4 DEF FlagsHeld
<1>6. Held(ctl.blockedBy, r)
  BY <1>1, <1>3, <1>5 DEF Held
<1> QED  BY <1>6 DEF Click, Usable

(* Unless two requests have competed for it, a flag that guards its buttons *)
(* is held by one request, and names its row until the answer.              *)
LEMMA StepFlags == TableTypes /\ OneCovers /\ FlagsHeld /\ [Next]_vars => FlagsHeld'
<1> SUFFICES ASSUME TableTypes, OneCovers, FlagsHeld, [Next]_vars, ~crossed'
             PROVE  FlagsHeld'
  BY DEF FlagsHeld
<1>a. Traits' = Traits /\ \A l : Guarded(Traits, l)' <=> Guarded(Traits, l)
  BY PageStays DEF Guarded
<1>b. /\ busy \in [Locks -> Rows \cup {NoRow}] /\ dialogs \in [Dialogs -> Rows \cup {NoRow}]
      /\ \A c \in calls : CallFits(c)
      /\ WellMade(Traits) /\ Traits.overlays \subseteq Dialogs /\ "" \notin Dialogs
  BY TraitsMade DEF TableTypes, WellMade, Dialogs
<1>c. \A l : Guarded(Traits, l) => l # ""
  BY DEF Guarded
<1>d. ASSUME \A c \in calls' : Guarded(Traits, c.flag) =>
               /\ \A d \in calls' : d.flag = c.flag => d = c
               /\ c.op # "list" => busy'[c.flag] = c.row
               /\ c.flag = "modal" => dialogs'[c.dialog] # NoRow
      PROVE  FlagsHeld'
  BY <1>a, <1>d DEF FlagsHeld
<1>e. ASSUME ~crossed, NEW c \in calls, Guarded(Traits, c.flag)
      PROVE  /\ \A d \in calls : d.flag = c.flag => d = c
             /\ c.op # "list" => busy[c.flag] = c.row
             /\ c.flag = "modal" => dialogs[c.dialog] # NoRow
  BY <1>e DEF FlagsHeld
\* What is known of c still is after an answer that leaves its flag alone.
<1>f. ASSUME \A c \in calls' : c.flag # "" => c \in calls,
             ~crossed => \A c \in calls' : Guarded(Traits, c.flag) =>
                           /\ busy'[c.flag] = busy[c.flag]
                           /\ c.flag = "modal" => dialogs'[c.dialog] = dialogs[c.dialog],
             crossed => \A c \in calls' : c.flag = ""
      PROVE  FlagsHeld'
  <2>1. CASE crossed
    BY <1>c, <1>d, <1>f, <2>1
  <2>2. CASE ~crossed
    <3> SUFFICES ASSUME NEW c \in calls', Guarded(Traits, c.flag)
                 PROVE  /\ \A d \in calls' : d.flag = c.flag => d = c
                        /\ c.op # "list" => busy'[c.flag] = c.row
                        /\ c.flag = "modal" => dialogs'[c.dialog] # NoRow
      BY <1>d
    <3>1. c \in calls /\ c.flag # ""
      BY <1>c, <1>f
    <3> QED  BY <1>e, <1>f, <2>2, <3>1
  <2> QED  BY <2>1, <2>2
<1>g. \A rest : crossed' = StillCrossed(rest) => (crossed => \A c \in rest : c.flag = "")
  BY DEF StillCrossed
<1>1. ASSUME NEW ctl \in Traits.controls, NEW r \in Rows, Click(ctl, r)
      PROVE  FlagsHeld'
  <2> DEFINE l == Traits.handlers[ctl.op].lock
             new == Request(ctl.op, r, ctl.dialog, l)
  <2>1. /\ ~crossed /\ calls' = calls \cup {new} /\ dialogs' = dialogs
        /\ busy' = (IF l = "" THEN busy ELSE [busy EXCEPT ![l] = r])
        /\ Usable(ctl, r)
    BY <1>1 DEF Click
  <2>2. new.op = ctl.op /\ new.row = r /\ new.flag = l /\ new.dialog = ctl.dialog
    BY DEF Request
  <2>3. l \in Locks \cup {""} /\ (l = "modal" => ctl.dialog \in Traits.overlays)
    BY <1>b DEF WellMade, ControlFits, ClosesItsOwn
  <2>4. Guarded(Traits, l) => \A c \in calls : c.flag # l
    BY <1>1, <2>1, ClickFindsItFree
  <2>5. l = "modal" => dialogs[ctl.dialog] = r /\ r # NoRow
    <3>1. l = "modal" => ctl.dialog # ""
      BY <1>b, <2>3
    <3> QED  BY <2>1, <3>1, PagesAssumption DEF Usable
  <2> HIDE DEF new, l
  <2> SUFFICES ASSUME NEW c \in calls', Guarded(Traits, c.flag)
               PROVE  /\ \A d \in calls' : d.flag = c.flag => d = c
                      /\ c.op # "list" => busy'[c.flag] = c.row
                      /\ c.flag = "modal" => dialogs'[c.dialog] # NoRow
    BY <1>d
  <2>6. CASE c.flag = l
    <3>1. c = new /\ \A d \in calls' : d.flag = l => d = new
      BY <2>1, <2>4, <2>6
    <3>2. l # "" /\ busy'[l] = r
      BY <1>b, <1>c, <2>1, <2>3, <2>6
    <3> QED  BY <2>1, <2>2, <2>5, <2>6, <3>1, <3>2
  <2>7. CASE c.flag # l
    <3>1. c \in calls /\ \A d \in calls' : d.flag = c.flag => d \in calls
      BY <2>1, <2>2, <2>7
    <3>2. c.flag \in Locks
      BY <1>b, <1>c, <3>1 DEF CallFits
    <3>3. busy'[c.flag] = busy[c.flag]
      BY <1>b, <2>1, <2>7, <3>2
    <3> QED  BY <1>e, <2>1, <3>1, <3>3
  <2> QED  BY <2>6, <2>7
<1>2. ASSUME NEW d \in Dialogs, Close(d)
      PROVE  FlagsHeld'
  <2> DEFINE f == [c \in calls |-> [c EXCEPT !.mine = @ /\ c.dialog # d]]
  <2>1. /\ calls' = {f[c] : c \in calls} /\ ~crossed
        /\ ~ \E c \in Changes : c.dialog = d /\ c.flag = "modal"
        /\ dialogs' = [dialogs EXCEPT ![d] = NoRow] /\ dialogs[d] # NoRow
        /\ busy' = (IF d \in Traits.overlays THEN [busy EXCEPT !["modal"] = NoRow] ELSE busy)
    BY <1>2 DEF Close
  <2>2. \A c \in calls : f[c].op = c.op /\ f[c].row = c.row /\ f[c].flag = c.flag
                         /\ f[c].dialog = c.dialog
    BY <1>b DEF CallFits
  <2> HIDE DEF f
  <2> SUFFICES ASSUME NEW c \in calls, Guarded(Traits, f[c].flag)
               PROVE  /\ \A e \in calls : f[e].flag = f[c].flag => f[e] = f[c]
                      /\ f[c].op # "list" => busy'[f[c].flag] = f[c].row
                      /\ f[c].flag = "modal" => dialogs'[f[c].dialog] # NoRow
    BY <1>d, <2>1
  <2>3. Guarded(Traits, c.flag) /\ CallFits(c)
    BY <1>b, <2>2
  <2>4. c.flag # "modal" => busy'[c.flag] = busy[c.flag]
    BY <1>b, <1>c, <2>1, <2>3 DEF CallFits
  <2>5. CASE c.flag = "modal"
    <3>1. c.op # "list" /\ c.dialog \in Traits.overlays
      BY <2>3, <2>5 DEF CallFits
    <3>2. c.dialog # d /\ dialogs[c.dialog] # NoRow
      BY <1>e, <2>1, <2>3, <2>5, <3>1 DEF Changes
    <3>3. c.dialog \in Dialogs
      BY <1>b, <3>1
    <3>4. d \notin Traits.overlays
      BY <2>1, <3>1, <3>2, <3>3 DEF OneCovers, Covering
    <3>5. busy' = busy /\ dialogs'[c.dialog] = dialogs[c.dialog]
      BY <1>b, <2>1, <3>2, <3>3, <3>4
    <3> QED  BY <1>e, <2>1, <2>2, <2>3, <3>2, <3>5
  <2>6. CASE c.flag # "modal"
    BY <1>e, <2>1, <2>2, <2>3, <2>4, <2>6
  <2> QED  BY <2>5, <2>6
<1>3. FirstLoad.flag = ""
  BY DEF FirstLoad, Request
<1>4. ASSUME Reload
      PROVE  FlagsHeld'
  <2>1. calls' = calls \cup {FirstLoad} /\ UNCHANGED <<busy, dialogs, crossed>>
    BY <1>4 DEF Reload
  <2> QED  BY <1>3, <1>f, <2>1
<1>5. ASSUME Visit
      PROVE  FlagsHeld'
  <2>1. calls' = {FirstLoad}
    BY <1>5 DEF Visit
  <2> QED  BY <1>3, <1>c, <1>d, <2>1
<1>6. ASSUME NEW c \in calls, NEW new, calls' = Replaced(c, new),
             new.op = c.op, new.row = c.row, new.dialog = c.dialog, new.flag = c.flag,
             UNCHANGED <<busy, dialogs, crossed>>
      PROVE  FlagsHeld'
  <2> SUFFICES ASSUME NEW e \in calls', Guarded(Traits, e.flag)
               PROVE  /\ \A d \in calls' : d.flag = e.flag => d = e
                      /\ e.op # "list" => busy'[e.flag] = e.row
                      /\ e.flag = "modal" => dialogs'[e.dialog] # NoRow
    BY <1>d
  <2>1. CASE e = new
    BY <1>6, <1>e, <2>1 DEF Replaced
  <2>2. CASE e # new
    BY <1>6, <1>e, <2>2 DEF Replaced
  <2> QED  BY <2>1, <2>2
<1>7. ASSUME NEW c \in calls, ServeList(c) \/ ServeChange(c) \/ Lose(c)
      PROVE  FlagsHeld'
  <2>1. PICK new : /\ calls' = Replaced(c, new) /\ new.op = c.op /\ new.row = c.row
                   /\ new.dialog = c.dialog /\ new.flag = c.flag
    BY <1>7, <1>b, SameRequest
  <2>2. UNCHANGED <<busy, dialogs, crossed>>
    BY <1>7 DEF ServeList, ServeChange, Lose
  <2> QED  BY <1>6, <2>1, <2>2
<1>8. ASSUME ~crossed, NEW c \in calls, NEW e \in calls \ {c}, Guarded(Traits, e.flag)
      PROVE  e.flag # c.flag /\ Release(c)[e.flag] = busy[e.flag]
  <2>1. e.flag # c.flag
    BY <1>8, <1>e
  <2>2. e.flag \in Locks
    BY <1>8, <1>b, <1>c DEF CallFits
  <2>3. Release(c) = busy \/ Release(c) = [busy EXCEPT ![c.flag] = NoRow]
    BY DEF Release
  <2> QED  BY <1>b, <2>1, <2>2, <2>3
\* Only the handler that holds the flag of a dialog over the page closes it.
<1>9. ASSUME ~crossed, NEW c \in calls, c.op # "list", NEW kinds,
             kinds \subseteq Handles(c).closes \cup Handles(c).always,
             NEW e \in calls \ {c}, Guarded(Traits, e.flag), e.flag = "modal"
      PROVE  e.op # "list" /\ e.dialog \in Dialogs /\ kinds \cap Traits.overlays = {}
             /\ e.dialog \notin kinds
  <2>1. CallFits(c) /\ CallFits(e) /\ e.flag # c.flag
    BY <1>8, <1>9, <1>b
  <2>2. /\ e.op # "list" /\ e.op \in DOMAIN Traits.handlers /\ e.dialog \in Traits.overlays
        /\ Traits.handlers[e.op].lock = "modal"
        /\ c.op \in DOMAIN Traits.handlers /\ Handles(c).lock # "modal"
    BY <1>9, <2>1 DEF CallFits, Handles
  <2>3. (Handles(c).closes \cup Handles(c).always) \cap Traits.overlays = {}
    BY <1>b, <2>2 DEF WellMade, ClosesItsOwn, Handles
  <2> QED  BY <1>9, <1>b, <2>2, <2>3
<1>10. ASSUME NEW c \in calls, AnswerList(c)
       PROVE  FlagsHeld'
  <2>1. /\ calls' = calls \ {c} /\ busy' = Release(c) /\ dialogs' = dialogs
        /\ crossed' = StillCrossed(calls')
    BY <1>10 DEF AnswerList
  <2> QED  BY <1>8, <1>f, <1>g, <2>1
<1>11. ASSUME NEW c \in calls, AnswerError(c)
       PROVE  FlagsHeld'
  <2>1. /\ calls' = calls \ {c} /\ busy' = Release(c) /\ dialogs' = Closed(Handles(c).always)
        /\ crossed' = StillCrossed(calls') /\ c.op # "list"
    BY <1>11 DEF AnswerError
  <2>2. ASSUME ~crossed, NEW e \in calls', Guarded(Traits, e.flag), e.flag = "modal"
        PROVE  dialogs'[e.dialog] = dialogs[e.dialog]
    <3>1. e.dialog \in Dialogs /\ e.dialog \notin Handles(c).always
      BY <1>9, <2>1, <2>2
    <3> QED  BY <2>1, <3>1 DEF Closed
  <2> QED  BY <1>8, <1>f, <1>g, <2>1, <2>2
<1>12. ASSUME NEW c \in calls, AnswerNobody(c)
       PROVE  FlagsHeld'
  <2>1. /\ calls' = calls \ {c} /\ crossed' = StillCrossed(calls') /\ UNCHANGED <<busy, dialogs>>
    BY <1>12 DEF AnswerNobody
  <2> QED  BY <1>f, <1>g, <2>1
<1>13. ASSUME NEW c \in calls, AnswerOk(c)
       PROVE  FlagsHeld'
  <2> DEFINE h == Handles(c)
             rest == calls \ {c}
             held == IF h.awaits THEN c.flag ELSE ""
             load == Request("list", NoRow, "", held)
             reload == [load EXCEPT !.mine = c.mine]
             both == h.closes \cup h.always
             freed == IF h.awaits THEN busy ELSE Release(c)
  <2>1. /\ c.op # "list" /\ dialogs' = Closed(both)
        /\ busy' = (IF \E d \in both \cap Traits.overlays : dialogs[d] # NoRow
                    THEN [freed EXCEPT !["modal"] = NoRow] ELSE freed)
        /\ calls' = rest \cup {reload} \/ calls' = rest
        /\ crossed' = StillCrossed(calls')
    BY <1>13, Zenon DEF AnswerOk
  <2>2. reload.flag = held /\ reload.op = "list"
    BY DEF Request
  <2>3. CallFits(c)
    BY <1>b
  <2>4. held # "modal" /\ held \in {"", c.flag}
    BY <1>b, <2>1, <2>3 DEF WellMade, ClosesItsOwn, Handles, CallFits
  <2>5. freed \in [Locks -> Rows \cup {NoRow}]
    BY <1>b, <2>3 DEF Release, CallFits
  <2> HIDE DEF held, load, reload
  <2>6. ASSUME ~crossed, NEW e \in rest, Guarded(Traits, e.flag)
        PROVE  /\ e.flag # c.flag
               /\ busy'[e.flag] = busy[e.flag]
               /\ e.flag = "modal" => dialogs'[e.dialog] = dialogs[e.dialog]
    <3>1. e.flag # c.flag /\ freed[e.flag] = busy[e.flag]
      BY <1>8, <2>6
    <3>2. CASE e.flag = "modal"
      <4>1. e.dialog \in Dialogs /\ both \cap Traits.overlays = {} /\ e.dialog \notin both
        BY <1>9, <2>1, <2>6, <3>2
      <4> QED  BY <2>1, <3>1, <4>1 DEF Closed
    <3>3. CASE e.flag # "modal"
      <4> HIDE DEF freed
      <4>1. e.flag \in Locks
        BY <2>6, <1>b, <1>c DEF CallFits
      <4>2. busy' = freed \/ busy' = [freed EXCEPT !["modal"] = NoRow]
        BY <2>1
      <4>3. busy'[e.flag] = freed[e.flag]
        BY <2>5, <3>3, <4>1, <4>2
      <4> QED  BY <3>1, <3>3, <4>3
    <3> QED  BY <3>1, <3>2, <3>3
  <2>7. CASE crossed
    <3>1. \A e \in calls' : e.flag = ""
      BY <1>g, <2>1, <2>7
    <3> QED  BY <1>c, <1>d, <3>1
  <2>8. CASE ~crossed
    <3> SUFFICES ASSUME NEW e \in calls', Guarded(Traits, e.flag)
                 PROVE  /\ \A d \in calls' : d.flag = e.flag => d = e
                        /\ e.op # "list" => busy'[e.flag] = e.row
                        /\ e.flag = "modal" => dialogs'[e.dialog] # NoRow
      BY <1>d
    <3>1. e.flag # ""
      BY <1>c
    <3>2. CASE e \in rest
      <4>1. \A d \in calls' : d.flag = e.flag => d = e
        BY <1>e, <2>1, <2>2, <2>4, <2>6, <2>8, <3>1, <3>2
      <4> QED  BY <1>e, <2>6, <2>8, <3>2, <4>1
    <3>3. CASE e = reload /\ e \notin rest
      <4>1. e.flag = c.flag /\ e.flag # "modal"
        BY <2>2, <2>4, <3>1, <3>3
      <4>2. \A d \in rest : d.flag # e.flag
        BY <1>e, <2>8, <4>1
      <4> QED  BY <2>1, <2>2, <3>3, <4>1, <4>2
    <3> QED  BY <2>1, <3>2, <3>3
  <2> QED  BY <2>7, <2>8
<1>14. ASSUME NEW ctl \in Traits.controls, NEW r \in Rows, Open(ctl, r)
       PROVE  FlagsHeld'
  <2>1. /\ dialogs' = [dialogs EXCEPT ![ctl.dialog] = r] /\ r # NoRow
        /\ UNCHANGED <<calls, busy, crossed>>
    BY <1>14, PagesAssumption DEF Open
  <2>2. \A d \in Dialogs : dialogs[d] # NoRow => dialogs'[d] # NoRow
    BY <1>b, <2>1
  <2> SUFFICES ASSUME NEW c \in calls, Guarded(Traits, c.flag), c.flag = "modal"
               PROVE  dialogs'[c.dialog] # NoRow
    BY <1>d, <1>e, <2>1
  <2>3. c.dialog \in Dialogs
    BY <1>b DEF CallFits
  <2> QED  BY <1>e, <2>1, <2>2, <2>3
<1>15. ASSUME UNCHANGED <<calls, busy, dialogs, crossed>>
       PROVE  FlagsHeld'
  BY <1>15, <1>f
<1> QED
  BY <1>1, <1>2, <1>4, <1>5, <1>7, <1>10, <1>11, <1>12, <1>13, <1>14, <1>15
  DEF Next, Reader, Backend, Answers, Dismiss, Other, vars

(* While a secret is on the screen, no request that reveals another is      *)
(* under way, unless requests have competed.                                *)
LEMMA StepSecret == TableTypes /\ FlagsHeld /\ SecretAlone /\ [Next]_vars => SecretAlone'
<1> SUFFICES ASSUME TableTypes, FlagsHeld, SecretAlone, [Next]_vars
             PROVE  SecretAlone'
  OBVIOUS
<1>a. \A c : Handles(c)' = Handles(c)
  BY PageStays
<1> SUFFICES ASSUME ~crossed', secret' # 0
             PROVE  \A c \in calls' : c.op # "list" => ~Handles(c).reveals
  BY <1>a DEF SecretAlone, Changes
<1>b. WellMade(Traits) /\ \A c \in calls : CallFits(c)
  BY TraitsMade DEF TableTypes
<1>c. ASSUME NEW c \in calls, c.op # "list", Handles(c).reveals
      PROVE  /\ Guarded(Traits, c.flag) /\ c.flag # ""
             /\ \A o \in DOMAIN Traits.handlers :
                  Traits.handlers[o].reveals => Traits.handlers[o].lock = c.flag
  <2>1. CallFits(c)
    BY <1>b
  <2>2. c.op \in DOMAIN Traits.handlers /\ c.flag = Traits.handlers[c.op].lock
    BY <1>c, <2>1 DEF CallFits, Handles
  <2>3. Reveals(Traits, Traits.handlers[c.op])
    BY <1>b, <2>2 DEF WellMade
  <2>4. Traits.handlers[c.op].reveals
    BY <1>c DEF Handles
  <2>5. /\ Guarded(Traits, c.flag)
        /\ \A o \in DOMAIN Traits.handlers :
             Traits.handlers[o].reveals => Traits.handlers[o].lock = c.flag
    BY <2>2, <2>3, <2>4 DEF Reveals
  <2> QED  BY <2>5 DEF Guarded
<1>d. ASSUME ~crossed, secret # 0, NEW c \in calls, c.op # "list"
      PROVE  ~Handles(c).reveals
  BY <1>d DEF SecretAlone, Changes
<1>g. \A rest : crossed' = StillCrossed(rest) => (crossed => \A c \in rest : c.flag = "")
  BY DEF StillCrossed
\* An answer that reveals nothing.
<1>1. ASSUME secret' = secret, \A c \in calls' : c.op # "list" => c \in calls,
             crossed => \A c \in calls' : c.flag = ""
      PROVE  \A c \in calls' : c.op # "list" => ~Handles(c).reveals
  BY <1>1, <1>c, <1>d
<1>2. ASSUME NEW ctl \in Traits.controls, NEW r \in Rows, Click(ctl, r)
      PROVE  \A c \in calls' : c.op # "list" => ~Handles(c).reveals
  <2> DEFINE h == Traits.handlers[ctl.op]
             new == Request(ctl.op, r, ctl.dialog, h.lock)
  <2>1. /\ ~crossed /\ calls' = calls \cup {new} /\ Usable(ctl, r)
        /\ secret' = (IF h.clears THEN 0 ELSE secret)
    BY <1>2 DEF Click
  <2>2. ~h.clears /\ secret # 0
    BY <2>1
  <2>3. Traits.secret # "overlay"
    BY <2>1, <2>2 DEF Usable, SecretCovers
  <2>4. ~h.reveals
    BY <1>b, <2>2, <2>3 DEF WellMade, ControlFits, Reveals
  <2>5. Handles(new) = h
    BY DEF Handles, Request
  <2> HIDE DEF new, h
  <2> QED  BY <1>d, <2>1, <2>2, <2>4, <2>5
<1>3. ASSUME NEW d \in Dialogs, Close(d)
      PROVE  \A c \in calls' : c.op # "list" => ~Handles(c).reveals
  <2> DEFINE f == [c \in calls |-> [c EXCEPT !.mine = @ /\ c.dialog # d]]
  <2>1. calls' = {f[c] : c \in calls} /\ ~crossed /\ secret' = secret
    BY <1>3 DEF Close
  <2>2. \A c \in calls : f[c].op = c.op /\ Handles(f[c]) = Handles(c)
    BY <1>b DEF CallFits, Handles
  <2> HIDE DEF f
  <2> QED  BY <1>d, <2>1, <2>2
<1>4. FirstLoad.op = "list"
  BY DEF FirstLoad, Request
<1>5. ASSUME Reload
      PROVE  \A c \in calls' : c.op # "list" => ~Handles(c).reveals
  <2>1. calls' = calls \cup {FirstLoad} /\ UNCHANGED <<secret, crossed>>
    BY <1>5 DEF Reload
  <2> QED  BY <1>4, <1>d, <2>1
<1>6. ~Visit
  BY DEF Visit
<1>7. ~Dismiss
  BY DEF Dismiss
<1>8. ASSUME NEW c \in calls, ServeList(c) \/ ServeChange(c) \/ Lose(c)
      PROVE  \A e \in calls' : e.op # "list" => ~Handles(e).reveals
  <2>0. CallFits(c)
    BY <1>b
  <2>1. PICK new : calls' = Replaced(c, new) /\ new.op = c.op
    BY <1>8, <2>0, SameRequest
  <2>2. UNCHANGED <<secret, crossed>>
    BY <1>8 DEF ServeList, ServeChange, Lose
  <2>3. Handles(new) = Handles(c)
    BY <2>1 DEF Handles
  <2> QED  BY <1>d, <2>1, <2>2, <2>3 DEF Replaced
<1>9. ASSUME NEW c \in calls, AnswerList(c) \/ AnswerError(c) \/ AnswerNobody(c)
      PROVE  \A e \in calls' : e.op # "list" => ~Handles(e).reveals
  <2>1. calls' = calls \ {c} /\ secret' = secret /\ crossed' = StillCrossed(calls')
    BY <1>9 DEF AnswerList, AnswerError, AnswerNobody
  <2> QED  BY <1>1, <1>g, <2>1
<1>10. ASSUME NEW c \in calls, AnswerOk(c)
       PROVE  \A e \in calls' : e.op # "list" => ~Handles(e).reveals
  <2> DEFINE h == Handles(c)
             rest == calls \ {c}
             reload == [Request("list", NoRow, "", IF h.awaits THEN c.flag ELSE "")
                          EXCEPT !.mine = c.mine]
  <2>1. /\ c.op # "list"
        /\ secret' = (IF h.reveals THEN c.id ELSE secret)
        /\ calls' = rest \cup {reload} \/ calls' = rest
        /\ crossed' = StillCrossed(calls')
    BY <1>10, Zenon DEF AnswerOk
  <2>2. reload.op = "list"
    BY DEF Request
  <2> HIDE DEF reload
  <2>3. \A e \in calls' : e.op # "list" => e \in rest
    BY <2>1, <2>2
  <2>4. crossed => \A e \in calls' : e.flag = ""
    BY <1>g, <2>1
  <2>5. CASE ~h.reveals
    BY <1>1, <2>1, <2>3, <2>4, <2>5
  <2>6. CASE h.reveals
    <3> SUFFICES ASSUME NEW e \in calls', e.op # "list", Handles(e).reveals
                 PROVE  FALSE
      OBVIOUS
    <3>1. e \in rest /\ CallFits(e)
      BY <1>b, <2>3
    <3>2. e.flag # ""
      BY <1>c, <3>1
    <3>3. ~crossed
      BY <2>4, <3>2
    <3>4. Guarded(Traits, c.flag) /\ e.flag = c.flag
      BY <1>c, <2>1, <2>6, <3>1 DEF CallFits, Handles
    <3> QED  BY <3>1, <3>3, <3>4 DEF FlagsHeld
  <2> QED  BY <2>5, <2>6
<1>11. ASSUME UNCHANGED <<calls, secret, crossed>>
       PROVE  \A c \in calls' : c.op # "list" => ~Handles(c).reveals
  BY <1>11, <1>d
<1> QED
  BY <1>2, <1>3, <1>5, <1>6, <1>7, <1>8, <1>9, <1>10, <1>11
  DEF Next, Reader, Backend, Answers, Open, Other, vars

(* A page that has just been opened loads its list.                         *)
LEMMA InitTableIndInv == Init => TableIndInv
<1> SUFFICES ASSUME Init
             PROVE  TableIndInv
  OBVIOUS
<1> DEFINE load == [id |-> 1, op |-> "list", row |-> NoRow, dialog |-> "", flag |-> "",
                    mine |-> TRUE, here |-> TRUE, done |-> FALSE, ok |-> FALSE, answer |-> NoRows]
<1>1. page \in DOMAIN PageOf /\ WellMade(Traits)
  BY TraitsMade DEF Init
<1>2. "none" \in Traits.statuses
  BY <1>1 DEF WellMade
<1>3. calls = {load}
  BY DEF Init
<1>4. CallFits(load)
  BY <1>2 DEF CallFits, NoRows
<1>5. load.op = "list" /\ load.here /\ ~load.done /\ load.flag = ""
  OBVIOUS
<1> HIDE DEF load
<1>6. TableTypes
  <2>1. IsFiniteSet(calls)
    BY <1>3, FS_Singleton
  <2>2. table \in [Rows -> Traits.statuses] /\ shown \in [Rows -> Traits.statuses]
    BY <1>2 DEF Init, NoRows, Traits
  <2>3. busy \in [Locks -> Rows \cup {NoRow}] /\ dialogs \in [Dialogs -> Rows \cup {NoRow}]
    BY DEF Init, NoFlags, NoDialogs
  <2> QED  BY <1>1, <1>3, <1>4, <2>1, <2>2, <2>3 DEF Init, TableTypes
<1>7. ScreenAccountedFor
  BY <1>3, <1>5 DEF ScreenAccountedFor, Conflict
<1>8. OneCovers
  BY DEF Init, NoDialogs, OneCovers, Covering
<1>9. FlagsHeld
  BY <1>3, <1>5 DEF FlagsHeld, Guarded
<1>10. SecretAlone
  BY DEF SecretAlone, Init
<1> QED  BY <1>6, <1>7, <1>8, <1>9, <1>10 DEF TableIndInv

(* The invariant of every page with a table.                                *)
THEOREM TableInvariance == Spec => []TableIndInv
<1>1. TableIndInv /\ [Next]_vars => TableIndInv'
  BY StepTableTypes, StepScreen, StepCovers, StepFlags, StepSecret DEF TableIndInv
<1> QED  BY InitTableIndInv, <1>1, PTL DEF Spec

(* TypeOK: no answer, patch or effect puts on the screen what the page's    *)
(* table cannot hold, and every request is one of its handlers'.            *)
THEOREM TableTypeCorrect == Spec => []TypeOK
<1>1. TableIndInv => TypeOK
  <2> SUFFICES ASSUME TableTypes
               PROVE  TypeOK
    BY DEF TableIndInv
  <2>1. WellMade(Traits)
    BY TraitsMade DEF TableTypes
  <2>2. ASSUME NEW c \in calls
        PROVE  c \in Calls
    <3>1. CallFits(c)
      BY DEF TableTypes
    <3>2. c.op \in {"list"} \cup UNION {DOMAIN PageOf[p].handlers : p \in DOMAIN PageOf}
      <4>1. c.op = "list" \/ c.op \in DOMAIN PageOf[page].handlers
        BY <3>1 DEF CallFits, Traits
      <4>2. page \in DOMAIN PageOf
        BY DEF TableTypes
      <4> QED  BY <4>1, <4>2
    <3>3. c.answer \in [Rows -> Statuses]
      BY <2>1, <3>1 DEF CallFits, WellMade
    <3> QED  BY <3>1, <3>2, <3>3 DEF CallFits, Calls
  <2> QED  BY <2>2 DEF TypeOK, TableTypes
<1> QED  BY <1>1, TableInvariance, PTL

(* SettledScreenIsCurrent, for all eighteen tables, any number of rows, of  *)
(* requests and of mishaps.                                                 *)
THEOREM SettledScreenAlwaysCurrent == Spec => []SettledScreenIsCurrent
<1>1. TableIndInv => SettledScreenIsCurrent
  <2> SUFFICES ASSUME TableIndInv, calls = {}, excuse = {}
               PROVE  shown = table
    BY DEF SettledScreenIsCurrent
  <2>1. \A r \in Rows : shown[r] = table[r]
    BY DEF TableIndInv, ScreenAccountedFor, RowAccountedFor
  <2> QED  BY <2>1 DEF TableIndInv, TableTypes
<1> QED  BY <1>1, TableInvariance, PTL

(* NoDoubleSend: wherever every button of a request looks at a flag, that   *)
(* flag prevents a second one.                                              *)
THEOREM NeverDoubleSent == Spec => []NoDoubleSend
<1>1. TableIndInv => NoDoubleSend
  <2> SUFFICES ASSUME TableIndInv, NEW c \in Changes, NEW d \in Changes, c # d, c.op = d.op, ~crossed
               PROVE  \E ctl \in Traits.controls : ctl.op = c.op /\ ctl.blockedBy = {}
    BY DEF NoDoubleSend
  <2>1. WellMade(Traits) /\ CallFits(c) /\ CallFits(d)
    BY TraitsMade DEF TableIndInv, TableTypes, Changes
  <2>2. /\ c.op \in DOMAIN Traits.handlers /\ c.flag = Traits.handlers[c.op].lock
        /\ d.flag = c.flag
    BY <2>1 DEF CallFits, Changes, Handles
  <2>3. ~Guarded(Traits, c.flag)
    BY <2>2 DEF TableIndInv, FlagsHeld, Changes
  <2> QED  BY <2>1, <2>2, <2>3 DEF WellMade, NoneTwice
<1> QED  BY <1>1, TableInvariance, PTL

(* SecretsStayUntilRead: no answer replaces a secret nobody has dismissed.  *)
THEOREM SecretsAlwaysStay == Spec => SecretsStayUntilRead
<1> DEFINE Stays == secret # 0 /\ secret' \notin {0, secret} => crossed
<1>1. TableIndInv /\ [Next]_vars => [Stays]_vars
  <2> SUFFICES ASSUME TableIndInv, Next, secret # 0, secret' # 0, secret' # secret, ~crossed
               PROVE  FALSE
    OBVIOUS
  <2>1. \A c \in calls : ~AnswerOk(c)
    BY DEF TableIndInv, SecretAlone, Changes, AnswerOk
  <2> QED
    BY <2>1 DEF Next, Reader, Backend, Answers, Open, Click, Close, Dismiss, Reload, Visit, Other,
       ServeList, ServeChange, Lose, AnswerList, AnswerError, AnswerNobody
<1> QED  BY <1>1, TableInvariance, PTL DEF Spec, SecretsStayUntilRead

-----------------------------------------------------------------------------
(* The pages that ask a question.                                           *)

\* Notes the server has not stored.
Posting == {c \in requests : c.kind = "post" /\ ~c.done}

\* Requests.
Questions ==
  [id : 1 .. MaxInFlight, kind : {"search", "poll", "post"}, of : Queries,
   done : BOOLEAN, ok : BOOLEAN, at : Nat]

\* Every variable keeps its type.
SearchTypes ==
  /\ view \in DOMAIN SearchPageOf
  /\ newest \in [Queries -> Nat] /\ head \in Nat /\ text \in Queries
  /\ asked \in Queries \cup {NoQuery}
  /\ timer \in BOOLEAN /\ live \in BOOLEAN /\ loading \in BOOLEAN
  /\ failed \in BOOLEAN /\ overlap \in BOOLEAN
  /\ screen \in [of : Queries \cup {NoQuery}, at : Nat, added : SUBSET Queries] /\ seen \in Nat
  /\ requests \subseteq Questions
  /\ asks \in 0 .. MaxAsks /\ IsFiniteSet(requests)

\* Beyond MaxRecords there are only notes the reader posted.
RecordsBounded ==
  /\ \A q \in Queries : newest[q] <= head
  /\ Cardinality(Posting) <= asks
  /\ head + Cardinality(Posting) <= MaxRecords + asks

\* Timers run, notes are sent and the live feed's mark is kept where a page has them.
TraitsKept ==
  /\ timer => SearchTraits.starts = "debounced"
  /\ live => SearchTraits.polls # "never"
  /\ \A c \in requests : c.kind = "post" => SearchTraits.posts
  /\ SearchTraits.posts \/ screen.added = {}
  /\ view = "events" => seen = screen.at

\* Where no button is waited for, what was asked last is what the inputs show.
AskedIsShown == SearchTraits.starts # "submit" /\ ~timer => asked \in {NoQuery, text}

\* Unless requests overlap, there is at most one, about what was asked last; the
\* answer shown is to that too, or the request will replace it.
OneQuestion ==
  ~overlap =>
    /\ \A c, d \in requests : c = d
    /\ \A c \in requests : c.of = asked
    /\ screen.added \subseteq {asked}
    /\ \/ failed \/ screen.of \in {NoQuery, asked}
       \/ \E c \in requests : Replaces(c.kind)

\* The inductive invariant of every page that asks a question.
SearchIndInv == SearchTypes /\ RecordsBounded /\ TraitsKept /\ AskedIsShown /\ OneQuestion

-----------------------------------------------------------------------------
(* What the ten pages have in common: which kinds of page poll, post or     *)
(* load again, and that only the events page looks for news.                *)
LEMMA SearchPagesAre ==
  ASSUME view \in DOMAIN SearchPageOf
  PROVE  /\ SearchTraits.starts \in {"mount", "change", "debounced", "submit", "select"}
         /\ SearchTraits.newer <=> view = "events"
         /\ view = "events" => SearchTraits.starts = "change" /\ ~SearchTraits.clears
         /\ SearchTraits.posts =>
              /\ SearchTraits.starts = "select" /\ SearchTraits.clears
              /\ SearchTraits.polls = "never"
         /\ SearchTraits.polls # "never" => SearchTraits.starts \in {"mount", "change"}
         /\ SearchTraits.starts = "mount" => ~SearchTraits.input
         /\ SearchTraits.loads \in BOOLEAN /\ SearchTraits.clears \in BOOLEAN
         /\ SearchTraits.posts \in BOOLEAN /\ SearchTraits.newer \in BOOLEAN
         /\ SearchTraits.loads => SearchTraits.starts # "submit"
<1> USE DEF SearchTraits, SearchPageOf, SearchPage
<1>1. CASE view = "events"
  BY <1>1 DEF EventsPage
<1>2. CASE view = "fileActivity"
  BY <1>2 DEF FileActivityPage
<1>3. CASE view = "auditTrail"
  BY <1>3 DEF AuditTrailPage
<1>4. CASE view = "forensics"
  BY <1>4 DEF ForensicsPage
<1>5. CASE view = "investigate"
  BY <1>5 DEF InvestigatePage
<1>6. CASE view = "chain"
  BY <1>6 DEF ChainPage
<1>7. CASE view = "machines"
  BY <1>7 DEF MachinesPage
<1>8. CASE view = "health"
  BY <1>8 DEF HealthPage
<1>9. CASE view = "staffAudit"
  BY <1>9 DEF StaffAuditPage
<1>10. CASE view = "support"
  BY <1>10 DEF SupportPage
<1> QED  BY <1>1, <1>2, <1>3, <1>4, <1>5, <1>6, <1>7, <1>8, <1>9, <1>10

(* While fewer requests than the bound are in flight, there is a number for *)
(* another.                                                                 *)
LEMMA NumberLeft ==
  ASSUME IsFiniteSet(requests), Cardinality(requests) < MaxInFlight
  PROVE  FreshRequestId \in 1 .. MaxInFlight
<1> DEFINE ids == {c.id : c \in requests}
           slots == 1 .. MaxInFlight
<1>0. MaxInFlight \in Nat
  BY SearchAssumption
<1>1. IsFiniteSet(ids) /\ Cardinality(ids) <= Cardinality(requests)
  BY Numbers
<1>2. Cardinality(slots) = MaxInFlight
  BY <1>0, FS_Interval
<1>3. Cardinality(ids) \in Nat /\ Cardinality(requests) \in Nat
  BY <1>1, FS_CardinalityType
<1>4. ~(slots \subseteq ids)
  <2>1. slots \subseteq ids => Cardinality(slots) <= Cardinality(ids)
    BY <1>1, FS_Subset
  <2> QED  BY <2>1, <1>0, <1>1, <1>2, <1>3
<1> QED  BY <1>4 DEF FreshRequestId

(* A filter that is edited starts a request, or the debounce timer, or      *)
(* waits for the button.                                                    *)
LEMMA ChangeCases ==
  ASSUME NEW q \in Queries, Change(q)
  PROVE  /\ Ask /\ SearchTraits.input /\ text' = q /\ live' = live
         /\ \/ /\ SearchTraits.starts \in {"change", "select"}
               /\ Start(q) /\ timer' = timer
            \/ /\ SearchTraits.starts = "debounced" /\ timer' = TRUE
               /\ UNCHANGED <<view, server, asked, shownVars, requests, faults, overlap>>
            \/ /\ SearchTraits.starts \notin {"change", "select", "debounced"} /\ timer' = timer
               /\ UNCHANGED <<view, server, asked, shownVars, requests, faults, overlap>>
<1>1. CASE SearchTraits.starts \in {"change", "select"}
  BY <1>1, SMT DEF Change
<1>2. CASE SearchTraits.starts = "debounced"
  BY <1>2, SMT DEF Change
<1>3. CASE SearchTraits.starts \notin {"change", "select", "debounced"}
  BY <1>3, SMT DEF Change
<1> QED  BY <1>1, <1>2, <1>3

(* What is sent is a request, and there are finitely many.                  *)
LEMMA SendTypes ==
  ASSUME SearchTypes, NEW kind \in {"search", "poll", "post"}, NEW q \in Queries, Send(kind, q)
  PROVE  /\ requests' \subseteq Questions /\ IsFiniteSet(requests') /\ overlap' \in BOOLEAN
<1>1. FreshRequestId \in 1 .. MaxInFlight
  BY NumberLeft DEF SearchTypes, Send
<1>2. Question(kind, q) \in Questions
  BY <1>1 DEF Question, Questions
<1>3. IsFiniteSet(requests \cup {Question(kind, q)})
  BY FS_AddElement DEF SearchTypes
<1> QED  BY <1>2, <1>3 DEF Send, SearchTypes

(* What is answered is still a request, and the others are as they were.    *)
LEMMA AnsweredTypes ==
  ASSUME SearchTypes, NEW c \in requests, NEW okay \in BOOLEAN, NEW n \in Nat
  PROVE  /\ [c EXCEPT !.done = TRUE, !.ok = okay, !.at = n] \in Questions
         /\ Answered(c, okay, n) \subseteq Questions /\ IsFiniteSet(Answered(c, okay, n))
<1>1. [c EXCEPT !.done = TRUE, !.ok = okay, !.at = n] \in Questions
  BY DEF SearchTypes, Questions
<1>2. IsFiniteSet(requests \ {c})
  BY FS_RemoveElement DEF SearchTypes
<1>3. IsFiniteSet(Answered(c, okay, n))
  BY <1>2, FS_AddElement DEF Answered
<1> QED  BY <1>1, <1>3 DEF Answered, SearchTypes

(* The request whose answer has come is gone, the others are as they were.  *)
LEMMA GoneTypes ==
  ASSUME SearchTypes, NEW c \in requests
  PROVE  requests \ {c} \subseteq Questions /\ IsFiniteSet(requests \ {c})
BY FS_RemoveElement DEF SearchTypes

(* So does a search that replaces the question asked last.                  *)
LEMMA StartTypes ==
  ASSUME SearchTypes, NEW q \in Queries, Start(q),
         text' \in Queries, timer' \in BOOLEAN, live' \in BOOLEAN, asks' \in 0 .. MaxAsks
  PROVE  SearchTypes'
<1>1. requests' \subseteq Questions /\ IsFiniteSet(requests') /\ overlap' \in BOOLEAN
  BY SendTypes DEF Start
<1>2. NothingShown \in [of : Queries \cup {NoQuery}, at : Nat, added : SUBSET Queries]
  BY DEF NothingShown
<1> QED  BY <1>1, <1>2 DEF SearchTypes, Start, server

(* Every variable keeps its type.                                           *)
LEMMA StepSearchTypes == SearchTypes /\ [SearchNext]_searchVars => SearchTypes'
<1> SUFFICES ASSUME SearchTypes, [SearchNext]_searchVars
             PROVE  SearchTypes'
  OBVIOUS
<1>0. /\ MaxAsks \in Nat
      /\ Ask => asks' \in 0 .. MaxAsks
  BY SearchAssumption DEF Ask, SearchTypes
<1>1. ASSUME NEW q \in Queries, Change(q)
      PROVE  SearchTypes'
  <2>1. /\ Ask /\ text' = q /\ live' = live
        /\ \/ Start(q) /\ timer' = timer
           \/ /\ timer' \in BOOLEAN
              /\ UNCHANGED <<view, server, asked, shownVars, requests, faults, overlap>>
    BY <1>1, ChangeCases DEF SearchTypes
  <2>2. CASE Start(q) /\ timer' = timer
    BY <1>0, <2>1, <2>2, StartTypes DEF SearchTypes
  <2>3. CASE timer' \in BOOLEAN /\ UNCHANGED <<view, server, asked, shownVars, requests, faults, overlap>>
    BY <1>0, <2>1, <2>3 DEF SearchTypes, server, shownVars
  <2> QED  BY <2>1, <2>2, <2>3
<1>2. ASSUME Ask, Start(text), UNCHANGED inputs
      PROVE  SearchTypes'
  BY <1>0, <1>2, StartTypes DEF SearchTypes, inputs
<1>3. ASSUME DebounceFires
      PROVE  SearchTypes'
  BY <1>3, StartTypes DEF SearchTypes, DebounceFires
<1>4. ASSUME GoLive
      PROVE  SearchTypes'
  BY <1>0, <1>4 DEF SearchTypes, GoLive, server, shownVars
<1>5. ASSUME Poll
      PROVE  SearchTypes'
  <2>1. requests' \subseteq Questions /\ IsFiniteSet(requests') /\ overlap' \in BOOLEAN
    BY <1>5, SendTypes DEF Poll, SearchTypes
  <2> QED  BY <1>5, <2>1 DEF SearchTypes, Poll, server, inputs, shownVars
<1>6. ASSUME Post
      PROVE  SearchTypes'
  <2>1. requests' \subseteq Questions /\ IsFiniteSet(requests') /\ overlap' \in BOOLEAN
    BY <1>6, SendTypes DEF Post, SearchTypes
  <2> QED  BY <1>0, <1>6, <2>1 DEF SearchTypes, Post, server, inputs, shownVars
<1>7. ASSUME NEW q \in Queries, Append(q)
      PROVE  newest' \in [Queries -> Nat] /\ head' \in Nat
  BY <1>7 DEF Append, SearchTypes
<1>8. ASSUME NEW q \in Queries, Record(q)
      PROVE  SearchTypes'
  BY <1>7, <1>8 DEF SearchTypes, Record, inputs, shownVars
<1>9. ASSUME NEW c \in requests, Serve(c)
      PROVE  SearchTypes'
  <2>1. c.of \in Queries
    BY DEF SearchTypes, Questions
  <2>2. newest' \in [Queries -> Nat] /\ head' \in Nat
    BY <1>7, <1>9, <2>1 DEF Serve, server, SearchTypes
  <2>3. newest'[c.of] \in Nat
    BY <2>1, <2>2
  <2>4. Answered(c, TRUE, newest'[c.of]) \subseteq Questions
        /\ IsFiniteSet(Answered(c, TRUE, newest'[c.of]))
    BY <2>3, AnsweredTypes
  <2> QED  BY <1>9, <2>2, <2>4 DEF SearchTypes, Serve, inputs, shownVars
<1>10. ASSUME NEW c \in requests, LoseAnswer(c)
       PROVE  SearchTypes'
  <2>1. Answered(c, FALSE, 0) \subseteq Questions /\ IsFiniteSet(Answered(c, FALSE, 0))
    BY AnsweredTypes
  <2> QED  BY <1>10, <2>1 DEF SearchTypes, LoseAnswer, server, inputs, shownVars
<1>11. ASSUME NEW c \in requests
       PROVE  /\ Show(c) => screen' \in [of : Queries \cup {NoQuery}, at : Nat, added : SUBSET Queries]
                            /\ seen' \in Nat
              /\ c.ok \in BOOLEAN /\ c.of \in Queries
  BY DEF SearchTypes, Questions, Show
<1>12. ASSUME NEW c \in requests, AnswerSearch(c)
       PROVE  SearchTypes'
  BY <1>11, <1>12, GoneTypes DEF SearchTypes, AnswerSearch, server, inputs
<1>13. ASSUME NEW c \in requests, AnswerPoll(c)
       PROVE  SearchTypes'
  BY <1>11, <1>13, GoneTypes DEF SearchTypes, AnswerPoll, server, inputs
<1>14. ASSUME NEW c \in requests, AnswerPost(c)
       PROVE  SearchTypes'
  BY <1>11, <1>14, GoneTypes DEF SearchTypes, AnswerPost, server, inputs
<1>15. CASE UNCHANGED searchVars
  BY <1>15 DEF searchVars, SearchTypes
<1> QED
  BY <1>1, <1>2, <1>3, <1>4, <1>5, <1>6, <1>8, <1>9, <1>10, <1>12, <1>13, <1>14, <1>15
  DEF SearchNext, Asker, ServeSome, AnswerSome, Select, Submit, Refresh

(* Notes waiting to be stored are among the requests.                       *)
LEMMA WaitingFinite ==
  ASSUME SearchTypes
  PROVE  IsFiniteSet(Posting) /\ Cardinality(Posting) \in Nat
<1>1. Posting \subseteq requests /\ IsFiniteSet(requests)
  BY DEF Posting, SearchTypes
<1>2. IsFiniteSet(Posting)
  BY <1>1, FS_Subset
<1> QED  BY <1>2, FS_CardinalityType

(* A note that is stored or lost no longer waits.                           *)
LEMMA NoLongerWaits ==
  ASSUME SearchTypes, NEW c \in requests, NEW okay, NEW n, requests' = Answered(c, okay, n)
  PROVE  Posting' = Posting \ {c}
<1>1. [c EXCEPT !.done = TRUE, !.ok = okay, !.at = n].done
  BY DEF SearchTypes, Questions
<1> QED  BY <1>1 DEF Posting, Answered

(* Every record beyond MaxRecords is a note the reader posted.              *)
LEMMA StepRecordsBounded ==
  SearchTypes /\ RecordsBounded /\ [SearchNext]_searchVars => RecordsBounded'
<1> SUFFICES ASSUME SearchTypes, RecordsBounded, [SearchNext]_searchVars
             PROVE  RecordsBounded'
  OBVIOUS
<1> DEFINE notes == Cardinality(Posting)
<1>0. notes \in Nat /\ IsFiniteSet(Posting) /\ asks \in Nat /\ MaxRecords \in Nat /\ MaxAsks \in Nat
  BY WaitingFinite, SearchAssumption DEF SearchTypes
<1>a. ASSUME asks' \in Nat, asks' >= asks, UNCHANGED server, Posting' = Posting
      PROVE  RecordsBounded'
  <2>1. Cardinality(Posting') = notes
    BY <1>a
  <2>2. Cardinality(Posting)' = notes
    BY <2>1
  <2> HIDE DEF notes
  <2> QED  BY <1>0, <1>a, <2>2 DEF RecordsBounded, SearchTypes, server, notes
<1>b. Ask => asks' \in Nat /\ asks' = asks + 1
  BY <1>0 DEF Ask
<1>1. ASSUME NEW q \in Queries, Start(q), asks' \in Nat, asks' >= asks
      PROVE  RecordsBounded'
  <2>1. Posting' = Posting
    BY <1>1 DEF Start, Send, Posting, Question
  <2> QED  BY <1>a, <1>1, <2>1 DEF Start
<1>2. ASSUME NEW q \in Queries, Change(q)
      PROVE  RecordsBounded'
  <2>1. Ask /\ (Start(q) \/ UNCHANGED <<server, requests>>)
    BY <1>2, ChangeCases
  <2>2. CASE Start(q)
    BY <1>0, <1>1, <1>b, <2>1, <2>2
  <2>3. CASE UNCHANGED <<server, requests>>
    <3>1. Posting' = Posting
      BY <2>3 DEF Posting
    <3> QED  BY <1>0, <1>a, <1>b, <2>1, <2>3, <3>1
  <2> QED  BY <2>1, <2>2, <2>3
<1>3. ASSUME Ask, Start(text)
      PROVE  RecordsBounded'
  BY <1>0, <1>1, <1>b, <1>3 DEF SearchTypes
<1>4. ASSUME DebounceFires
      PROVE  RecordsBounded'
  BY <1>0, <1>1, <1>4 DEF SearchTypes, DebounceFires
<1>5. ASSUME GoLive
      PROVE  RecordsBounded'
  <2>1. Posting' = Posting
    BY <1>5 DEF Posting, GoLive
  <2> QED  BY <1>0, <1>a, <1>b, <1>5, <2>1 DEF GoLive
<1>6. ASSUME Poll
      PROVE  RecordsBounded'
  <2>1. Posting' = Posting
    BY <1>6 DEF Poll, Send, Posting, Question
  <2> QED  BY <1>0, <1>a, <1>6, <2>1 DEF Poll
<1>7. ASSUME Post
      PROVE  RecordsBounded'
  <2>1. Posting' = Posting \cup {Question("post", text)}
    BY <1>7 DEF Post, Send, Posting, Question
  <2>2. PICK m \in Nat : m = Cardinality(Posting \cup {Question("post", text)}) /\ m <= notes + 1
    <3>1. Cardinality(Posting \cup {Question("post", text)}) \in {notes, notes + 1}
      BY <1>0, FS_AddElement
    <3> HIDE DEF notes
    <3> QED  BY <1>0, <3>1
  <2>3. Cardinality(Posting)' = m
    BY <2>1, <2>2
  <2> HIDE DEF notes
  <2> QED  BY <1>0, <1>b, <1>7, <2>2, <2>3 DEF RecordsBounded, SearchTypes, Post, server, notes
<1>8. ASSUME NEW q \in Queries, Append(q)
      PROVE  head' = head + 1 /\ \A r \in Queries : newest'[r] <= head'
  BY <1>8 DEF Append, RecordsBounded, SearchTypes
<1>9. ASSUME NEW q \in Queries, Record(q)
      PROVE  RecordsBounded'
  <2>1. Posting' = Posting
    BY <1>9 DEF Record, Posting
  <2>2. Cardinality(Posting)' = notes
    BY <2>1
  <2>3. head < MaxRecords /\ head' = head + 1 /\ (\A r \in Queries : newest'[r] <= head') /\ asks' = asks
    BY <1>8, <1>9 DEF Record
  <2> HIDE DEF notes
  <2> QED  BY <1>0, <2>2, <2>3 DEF RecordsBounded, SearchTypes, notes
<1>10. ASSUME NEW c \in requests, Serve(c)
       PROVE  RecordsBounded'
  <2>1. Posting' = Posting \ {c}
    BY <1>10, NoLongerWaits DEF Serve
  <2>2. c.of \in Queries /\ asks' = asks
    BY <1>10 DEF SearchTypes, Questions, Serve
  <2>3. CASE c.kind = "post"
    <3>1. c \in Posting
      BY <1>10, <2>3 DEF Posting, Serve
    <3>2. PICK m \in Nat : m = Cardinality(Posting \ {c}) /\ m = notes - 1
      BY <1>0, <3>1, FS_RemoveElement, FS_CardinalityType
    <3>3. Cardinality(Posting)' = m
      BY <2>1, <3>2
    <3>4. head' = head + 1 /\ \A r \in Queries : newest'[r] <= head'
      BY <1>8, <1>10, <2>2, <2>3 DEF Serve
    <3> HIDE DEF notes
    <3> QED  BY <1>0, <2>2, <3>2, <3>3, <3>4 DEF RecordsBounded, SearchTypes, notes
  <2>4. CASE c.kind # "post"
    <3>1. Posting' = Posting
      BY <2>1, <2>4 DEF Posting
    <3> QED  BY <1>0, <1>a, <1>10, <2>2, <2>4, <3>1 DEF Serve
  <2> QED  BY <2>3, <2>4
<1>11. ASSUME NEW c \in requests, LoseAnswer(c)
       PROVE  RecordsBounded'
  <2>1. Posting' = Posting \ {c}
    BY <1>11, NoLongerWaits DEF LoseAnswer
  <2>2. PICK m \in Nat : m = Cardinality(Posting \ {c}) /\ m <= notes
    <3>1. Posting \ {c} \subseteq Posting
      OBVIOUS
    <3>2. IsFiniteSet(Posting \ {c}) /\ Cardinality(Posting \ {c}) <= notes
      BY <1>0, <3>1, FS_Subset
    <3> QED  BY <3>2, FS_CardinalityType
  <2>3. Cardinality(Posting)' = m
    BY <2>1, <2>2
  <2>4. UNCHANGED <<newest, head, asks>>
    BY <1>11 DEF LoseAnswer, server
  <2> HIDE DEF notes
  <2> QED  BY <1>0, <2>2, <2>3, <2>4 DEF RecordsBounded, SearchTypes, notes
<1>12. ASSUME NEW c \in requests, AnswerSearch(c) \/ AnswerPoll(c) \/ AnswerPost(c)
       PROVE  RecordsBounded'
  <2>1. c.done /\ requests' = requests \ {c} /\ UNCHANGED <<server, asks>>
    BY <1>12 DEF AnswerSearch, AnswerPoll, AnswerPost
  <2>2. Posting' = Posting
    BY <2>1 DEF Posting
  <2> QED  BY <1>0, <1>a, <2>1, <2>2
<1>13. CASE UNCHANGED searchVars
  <2>1. UNCHANGED <<server, asks>> /\ Posting' = Posting
    BY <1>13 DEF searchVars, Posting, server
  <2> QED  BY <1>0, <1>a, <2>1
<1> QED
  BY <1>2, <1>3, <1>4, <1>5, <1>6, <1>7, <1>9, <1>10, <1>11, <1>12, <1>13
  DEF SearchNext, Asker, ServeSome, AnswerSome, Select, Submit, Refresh

(* A timer only waits, and an interval only runs, on the pages that have    *)
(* one; notes are sent and shown on the page that has them; and the live    *)
(* feed's mark is the record it shows.                                      *)
LEMMA StepTraitsKept ==
  SearchTypes /\ TraitsKept /\ [SearchNext]_searchVars => TraitsKept'
<1> SUFFICES ASSUME SearchTypes, TraitsKept, [SearchNext]_searchVars
             PROVE  TraitsKept'
  OBVIOUS
<1> DEFINE T == SearchTraits
<1>0. /\ T.newer <=> view = "events"
      /\ view = "events" => ~T.clears
      /\ T.posts => T.starts = "select" /\ T.polls = "never"
      /\ T.polls # "never" => T.starts \in {"mount", "change"}
  BY SearchPagesAre DEF SearchTypes
<1>a. view' = view => SearchTraits' = T
  BY DEF SearchTraits
<1> HIDE DEF T
<1>b. view' = view /\ SearchTraits' = SearchTraits
  BY <1>a
  DEF searchVars, SearchNext, Asker, ServeSome, AnswerSome, Change, Select, Submit, Refresh,
     Start, DebounceFires, GoLive, Poll, Post, Record, Serve, LoseAnswer, AnswerSearch, AnswerPoll,
     AnswerPost, T
<1>c. ASSUME UNCHANGED <<screen, seen>>
      PROVE  /\ SearchTraits.posts \/ screen'.added = {}
             /\ view = "events" => seen' = screen'.at
  BY <1>c DEF TraitsKept
<1>1. ASSUME NEW q \in Queries, Start(q), timer' => SearchTraits.starts = "debounced", live' = live
      PROVE  TraitsKept'
  <2>1. \A c \in requests' : c.kind = "post" => SearchTraits.posts
    BY <1>1 DEF Start, Send, Question, TraitsKept
  <2>2. /\ SearchTraits.posts \/ screen'.added = {}
        /\ view = "events" => seen' = screen'.at
    BY <1>0, <1>1 DEF Start, TraitsKept, NothingShown, T
  <2> QED  BY <1>b, <1>1, <2>1, <2>2 DEF TraitsKept
<1>2. ASSUME NEW q \in Queries, Change(q)
      PROVE  TraitsKept'
  <2>1. /\ live' = live
        /\ \/ Start(q) /\ timer' = timer
           \/ /\ timer' => SearchTraits.starts = "debounced"
              /\ UNCHANGED <<screen, seen, requests>>
    BY <1>2, ChangeCases DEF TraitsKept, shownVars
  <2>2. CASE Start(q) /\ timer' = timer
    BY <1>1, <2>1, <2>2 DEF TraitsKept
  <2>3. CASE /\ timer' => SearchTraits.starts = "debounced"
             /\ UNCHANGED <<screen, seen, requests>>
    BY <1>b, <1>c, <2>1, <2>3 DEF TraitsKept
  <2> QED  BY <2>1, <2>2, <2>3
<1>3. ASSUME Start(text), UNCHANGED inputs
      PROVE  TraitsKept'
  BY <1>1, <1>3 DEF SearchTypes, TraitsKept, inputs
<1>4. ASSUME DebounceFires
      PROVE  TraitsKept'
  BY <1>1, <1>4 DEF SearchTypes, DebounceFires
<1>5. ASSUME GoLive
      PROVE  TraitsKept'
  BY <1>b, <1>c, <1>5 DEF TraitsKept, GoLive, shownVars
<1>6. ASSUME Poll
      PROVE  TraitsKept'
  <2>1. \A c \in requests' : c.kind = "post" => SearchTraits.posts
    BY <1>6 DEF Poll, Send, Question, TraitsKept
  <2> QED  BY <1>b, <1>c, <1>6, <2>1 DEF TraitsKept, Poll, shownVars, inputs
<1>7. ASSUME Post
      PROVE  TraitsKept'
  <2>1. \A c \in requests' : c.kind = "post" => SearchTraits.posts
    BY <1>7 DEF Post, Send, Question, TraitsKept
  <2> QED  BY <1>b, <1>c, <1>7, <2>1 DEF TraitsKept, Post, shownVars, inputs
<1>8. ASSUME NEW q \in Queries, Record(q)
      PROVE  TraitsKept'
  BY <1>b, <1>c, <1>8 DEF TraitsKept, Record, shownVars, inputs
<1>9. ASSUME NEW c \in requests, Serve(c) \/ LoseAnswer(c)
      PROVE  TraitsKept'
  <2>1. PICK okay, n : requests' = Answered(c, okay, n)
    BY <1>9 DEF Serve, LoseAnswer
  <2>2. [c EXCEPT !.done = TRUE, !.ok = okay, !.at = n].kind = c.kind
    BY DEF SearchTypes, Questions
  <2>3. \A d \in requests' : d.kind = "post" => SearchTraits.posts
    BY <2>1, <2>2 DEF Answered, TraitsKept
  <2>4. UNCHANGED <<screen, seen, timer, live>>
    BY <1>9 DEF Serve, LoseAnswer, shownVars, inputs
  <2> QED  BY <1>b, <1>c, <2>3, <2>4 DEF TraitsKept
<1>10. ASSUME NEW c \in requests, AnswerSearch(c) \/ AnswerPoll(c)
       PROVE  TraitsKept'
  <2>1. /\ SearchTraits.posts \/ screen'.added = {}
        /\ view = "events" => seen' = screen'.at
    <3>1. CASE Show(c)
      BY <3>1 DEF Show
    <3>2. CASE UNCHANGED <<screen, seen>>
      BY <1>c, <3>2
    <3> QED  BY <1>10, <3>1, <3>2 DEF AnswerSearch, AnswerPoll
  <2> QED  BY <1>b, <1>10, <2>1 DEF TraitsKept, AnswerSearch, AnswerPoll, inputs
<1>11. ASSUME NEW c \in requests, AnswerPost(c)
       PROVE  TraitsKept'
  <2>1. SearchTraits.posts /\ view # "events"
    BY <1>0, <1>11, SearchPagesAre DEF AnswerPost, TraitsKept, SearchTypes
  <2> QED  BY <1>b, <1>11, <2>1 DEF TraitsKept, AnswerPost, inputs
<1>12. CASE UNCHANGED searchVars
  BY <1>b, <1>c, <1>12 DEF TraitsKept, searchVars
<1> QED
  BY <1>2, <1>3, <1>4, <1>5, <1>6, <1>7, <1>8, <1>9, <1>10, <1>11, <1>12
  DEF SearchNext, Asker, ServeSome, AnswerSome, Select, Submit, Refresh

(* Where no button is waited for, what was asked last is what the inputs    *)
(* show, once the debounce timer has gone off.                              *)
LEMMA StepAskedIsShown ==
  SearchTypes /\ TraitsKept /\ AskedIsShown /\ [SearchNext]_searchVars => AskedIsShown'
<1> SUFFICES ASSUME SearchTypes, TraitsKept, AskedIsShown, [SearchNext]_searchVars
             PROVE  AskedIsShown'
  OBVIOUS
<1>0. SearchTraits.starts \in {"mount", "change", "debounced", "submit", "select"}
      /\ (SearchTraits.starts = "mount" => ~SearchTraits.input)
  BY SearchPagesAre DEF SearchTypes
<1>a. view' = view => SearchTraits' = SearchTraits
  BY DEF SearchTraits
<1>1. ASSUME NEW q \in Queries, Start(q), text' = q
      PROVE  AskedIsShown'
  BY <1>a, <1>1 DEF Start, AskedIsShown
<1>2. ASSUME NEW q \in Queries, Change(q)
      PROVE  AskedIsShown'
  <2>1. /\ text' = q /\ SearchTraits.input
        /\ \/ Start(q)
           \/ SearchTraits.starts = "debounced" /\ timer' = TRUE /\ view' = view
           \/ SearchTraits.starts \notin {"change", "select", "debounced"} /\ view' = view
    BY <1>2, ChangeCases
  <2>2. CASE Start(q)
    BY <1>1, <2>1, <2>2
  <2>3. CASE SearchTraits.starts = "debounced" /\ timer' = TRUE /\ view' = view
    BY <1>a, <2>3 DEF AskedIsShown
  <2>4. CASE SearchTraits.starts \notin {"change", "select", "debounced"} /\ view' = view
    BY <1>0, <1>a, <2>1, <2>4 DEF AskedIsShown
  <2> QED  BY <2>1, <2>2, <2>3, <2>4
<1>3. ASSUME Start(text), text' = text
      PROVE  AskedIsShown'
  BY <1>1, <1>3 DEF SearchTypes
<1>4. ASSUME Poll
      PROVE  AskedIsShown'
  BY <1>a, <1>4 DEF AskedIsShown, Poll, inputs
<1>5. ASSUME UNCHANGED <<view, text, timer, asked>>
      PROVE  AskedIsShown'
  BY <1>a, <1>5 DEF AskedIsShown
<1> QED
  BY <1>2, <1>3, <1>4, <1>5
  DEF SearchNext, Asker, ServeSome, AnswerSome, Select, Submit, Refresh, DebounceFires, GoLive, Post,
      Record, Serve, LoseAnswer, AnswerSearch, AnswerPoll, AnswerPost, inputs, searchVars

(* Unless requests overlap, there is at most one, it asks what was asked    *)
(* last, and so does the answer shown, or the request will replace it.      *)
LEMMA StepOneQuestion ==
  /\ SearchTypes /\ TraitsKept /\ AskedIsShown /\ OneQuestion
  /\ [SearchNext]_searchVars
  => OneQuestion'
<1> SUFFICES ASSUME SearchTypes, TraitsKept, AskedIsShown, OneQuestion, [SearchNext]_searchVars
             PROVE  OneQuestion'
  OBVIOUS
<1>0. /\ SearchTraits.newer <=> view = "events"
      /\ view = "events" => SearchTraits.starts = "change"
      /\ SearchTraits.posts => /\ SearchTraits.starts = "select" /\ SearchTraits.clears
                              /\ SearchTraits.polls = "never"
  BY SearchPagesAre DEF SearchTypes
<1>a. view' = view => SearchTraits' = SearchTraits /\ \A kind : Replaces(kind)' = Replaces(kind)
  BY DEF SearchTraits, Replaces
<1>b. ASSUME NEW kind, NEW q, Send(kind, q)
      PROVE  /\ ~overlap' => requests = {} /\ requests' = {Question(kind, q)}
             /\ ~overlap' => ~overlap \/ Replaces(kind)
             /\ Question(kind, q).of = q /\ Question(kind, q).kind = kind
  BY <1>b DEF Send, Question
<1>c. ASSUME UNCHANGED <<view, asked, screen, failed, requests, overlap>>
      PROVE  OneQuestion'
  BY <1>a, <1>c DEF OneQuestion
<1>1. ASSUME NEW q \in Queries, Start(q)
      PROVE  OneQuestion'
  <2>1. Send("search", q)
    BY <1>1 DEF Start
  <2>2. view' = view /\ asked' = q /\ screen'.added = {}
    BY <1>0, <1>1 DEF Start, TraitsKept, NothingShown
  <2>3. Replaces("search")'
    BY DEF Replaces
  <2> QED  BY <1>a, <1>b, <2>1, <2>2, <2>3 DEF OneQuestion
<1>2. ASSUME NEW q \in Queries, Change(q)
      PROVE  OneQuestion'
  <2>1. Start(q) \/ UNCHANGED <<view, asked, screen, failed, requests, overlap>>
    BY <1>2, ChangeCases DEF shownVars
  <2> QED  BY <1>1, <1>c, <2>1
<1>3. ASSUME Start(text)
      PROVE  OneQuestion'
  BY <1>1, <1>3 DEF SearchTypes
<1>4. ASSUME Poll
      PROVE  OneQuestion'
  <2>1. /\ Send("poll", text) /\ view' = view /\ asked' = text
        /\ UNCHANGED <<screen, failed>> /\ live
    BY <1>4 DEF Poll, shownVars
  <2>2. screen.added = {} /\ ~timer /\ SearchTraits.starts # "submit"
    BY <1>0, <2>1, SearchPagesAre DEF TraitsKept, SearchTypes
  <2>3. asked \in {NoQuery, text}
    BY <2>2 DEF AskedIsShown
  <2>4. CASE Replaces("poll")
    BY <1>a, <1>b, <2>1, <2>2, <2>4 DEF OneQuestion
  <2>5. CASE ~Replaces("poll")
    <3>1. SUFFICES ASSUME ~overlap'
                   PROVE  OneQuestion'
      BY DEF OneQuestion
    <3>2. ~overlap /\ requests = {} /\ requests' = {Question("poll", text)}
      BY <1>b, <2>1, <2>5, <3>1
    <3>3. failed \/ screen.of \in {NoQuery, asked}
      BY <3>2 DEF OneQuestion
    <3> QED  BY <1>b, <2>1, <2>2, <2>3, <3>2, <3>3 DEF OneQuestion
  <2> QED  BY <2>4, <2>5
<1>5. ASSUME Post
      PROVE  OneQuestion'
  <2>1. /\ Send("post", text) /\ view' = view /\ asked' = asked /\ asked # NoQuery
        /\ UNCHANGED <<screen, failed>> /\ SearchTraits.posts
    BY <1>5 DEF Post, shownVars
  <2>2. asked = text
    BY <1>0, <2>1 DEF AskedIsShown, TraitsKept
  <2>3. ~Replaces("post")
    BY DEF Replaces
  <2>4. SUFFICES ASSUME ~overlap'
                 PROVE  OneQuestion'
    BY DEF OneQuestion
  <2>5. ~overlap /\ requests = {} /\ requests' = {Question("post", text)}
    BY <1>b, <2>1, <2>3, <2>4
  <2>6. (failed \/ screen.of \in {NoQuery, asked}) /\ screen.added \subseteq {asked}
    BY <2>5 DEF OneQuestion
  <2> QED  BY <1>b, <2>1, <2>2, <2>5, <2>6 DEF OneQuestion
<1>6. ASSUME NEW c \in requests, Serve(c) \/ LoseAnswer(c)
      PROVE  OneQuestion'
  <2>1. PICK okay, n : requests' = Answered(c, okay, n)
    BY <1>6 DEF Serve, LoseAnswer
  <2>2. UNCHANGED <<view, asked, screen, failed, overlap>>
    BY <1>6 DEF Serve, LoseAnswer, shownVars
  <2> DEFINE new == [c EXCEPT !.done = TRUE, !.ok = okay, !.at = n]
  <2>3. new.kind = c.kind /\ new.of = c.of
    BY DEF SearchTypes, Questions
  <2>4. ~overlap => requests = {c}
    BY DEF OneQuestion
  <2>5. requests' = (requests \ {c}) \cup {new}
    BY <2>1 DEF Answered
  <2> HIDE DEF new
  <2> QED  BY <1>a, <2>2, <2>3, <2>4, <2>5 DEF OneQuestion
<1>7. ASSUME NEW c \in requests, AnswerSearch(c) \/ AnswerPoll(c) \/ AnswerPost(c)
      PROVE  OneQuestion'
  <2>1. requests' = requests \ {c} /\ UNCHANGED <<view, asked, overlap>>
    BY <1>7 DEF AnswerSearch, AnswerPoll, AnswerPost
  <2>2. SUFFICES ASSUME ~overlap
                 PROVE  /\ screen'.added \subseteq {asked}
                        /\ failed' \/ screen'.of \in {NoQuery, asked}
    <3>1. overlap' => OneQuestion'
      BY DEF OneQuestion
    <3>2. ~overlap => requests' = {}
      BY <2>1 DEF OneQuestion
    <3> QED  BY <2>1, <2>2, <3>1, <3>2 DEF OneQuestion
  <2>3. /\ requests = {c} /\ c.of = asked
        /\ screen.added \subseteq {asked}
        /\ failed \/ screen.of \in {NoQuery, asked} \/ Replaces(c.kind)
    BY <2>2 DEF OneQuestion
  <2>4. Show(c) => screen'.of = asked /\ screen'.added = {}
    BY <2>3 DEF Show
  <2>5. CASE AnswerSearch(c)
    BY <2>3, <2>4, <2>5 DEF AnswerSearch
  <2>6. CASE AnswerPoll(c)
    <3>1. CASE SearchTraits.newer
      <4>1. ~Replaces(c.kind) /\ failed' = failed
        BY <2>6, <3>1 DEF Replaces, AnswerPoll
      <4> QED  BY <2>3, <2>4, <2>6, <4>1 DEF AnswerPoll
    <3>2. CASE ~SearchTraits.newer
      BY <2>3, <2>4, <2>6, <3>2 DEF AnswerPoll
    <3> QED  BY <3>1, <3>2
  <2>7. CASE AnswerPost(c)
    <3>1. ~Replaces(c.kind) /\ failed' = failed
      BY <2>7 DEF Replaces, AnswerPost
    <3>2. screen'.of = screen.of /\ screen'.added \subseteq screen.added \cup {c.of}
      BY <2>7 DEF AnswerPost, SearchTypes
    <3> QED  BY <2>3, <3>1, <3>2
  <2> QED  BY <1>7, <2>5, <2>6, <2>7
<1> QED
  BY <1>2, <1>3, <1>4, <1>5, <1>6, <1>7, <1>c
  DEF SearchNext, Asker, ServeSome, AnswerSome, Select, Submit, Refresh, DebounceFires, GoLive,
      Record, shownVars, searchVars

(* An opened page shows nothing, and has asked what its inputs show.        *)
LEMMA InitSearchIndInv == SearchInit => SearchIndInv
<1> SUFFICES ASSUME SearchInit
             PROVE  SearchIndInv
  OBVIOUS
<1>1. MaxInFlight \in Nat /\ MaxInFlight # 0 /\ {MaxRecords, MaxAsks} \subseteq Nat
  BY SearchAssumption
<1> DEFINE first == [id |-> 1, kind |-> "search", of |-> text,
                     done |-> FALSE, ok |-> FALSE, at |-> 0]
<1>a. \/ requests = {} /\ asked = NoQuery /\ loading = FALSE
      \/ requests = {first} /\ asked = text /\ loading = TRUE
  BY Zenon DEF SearchInit
<1>b. first \in Questions /\ first.kind = "search" /\ first.of = text
  BY <1>1 DEF Questions, SearchInit
<1> HIDE DEF first
<1>c. /\ timer = (SearchTraits.starts = "debounced") /\ live = (SearchTraits.polls = "always")
      /\ timer \in BOOLEAN /\ live \in BOOLEAN
      /\ screen = [of |-> NoQuery, at |-> 0, added |-> {}] /\ seen = 0 /\ failed = FALSE
      /\ asks = 0 /\ overlap = FALSE
  BY DEF SearchInit, SearchTraits, NothingShown
<1>d. \A c \in requests : c = first
  BY <1>a
<1>2. requests \subseteq Questions /\ IsFiniteSet(requests) /\ Posting = {}
  BY <1>a, <1>b, <1>d, FS_EmptySet, FS_Singleton DEF Posting
<1>3. SearchTypes
  <2>1. view \in DOMAIN SearchPageOf /\ newest \in [Queries -> Nat] /\ head \in Nat
    BY DEF SearchInit
  <2>2. text \in Queries /\ asked \in Queries \cup {NoQuery} /\ loading \in BOOLEAN
    BY <1>a DEF SearchInit
  <2>3. screen \in [of : Queries \cup {NoQuery}, at : Nat, added : SUBSET Queries] /\ seen \in Nat
    BY <1>c
  <2>4. asks \in 0 .. MaxAsks
    BY <1>1, <1>c
  <2>5. timer \in BOOLEAN /\ live \in BOOLEAN /\ failed \in BOOLEAN /\ overlap \in BOOLEAN
    BY <1>c
  <2> QED  BY <1>2, <2>1, <2>2, <2>3, <2>4, <2>5 DEF SearchTypes
<1>4. Cardinality(Posting) = 0
  BY <1>2, FS_EmptySet
<1>5. RecordsBounded
  BY <1>1, <1>4 DEF SearchInit, RecordsBounded
<1>6. SearchTraits.polls # "never" => SearchTraits.starts \in {"mount", "change"}
  BY <1>3, SearchPagesAre DEF SearchTypes
<1>7. TraitsKept
  BY <1>6, <1>b, <1>c, <1>d DEF TraitsKept
<1>8. AskedIsShown
  BY <1>a DEF AskedIsShown
<1>9. OneQuestion
  BY <1>a, <1>b, <1>c DEF OneQuestion
<1> QED  BY <1>3, <1>5, <1>7, <1>8, <1>9 DEF SearchIndInv

(* The invariant of every page that asks and shows.                         *)
THEOREM SearchInvariance == SearchSpec => []SearchIndInv
<1>1. SearchIndInv /\ [SearchNext]_searchVars => SearchIndInv'
  BY StepSearchTypes, StepRecordsBounded, StepTraitsKept, StepAskedIsShown, StepOneQuestion
  DEF SearchIndInv
<1> QED  BY InitSearchIndInv, <1>1, PTL DEF SearchSpec

(* SearchTypeOK: no more records come to be than others report and the      *)
(* reader posts, and no more requests than there are numbers for.           *)
THEOREM SearchTypeCorrect == SearchSpec => []SearchTypeOK
<1>1. SearchIndInv => SearchTypeOK
  <2> SUFFICES ASSUME SearchIndInv
               PROVE  SearchTypeOK
    OBVIOUS
  <2>1. SearchTypes /\ RecordsBounded /\ MaxRecords \in Nat /\ MaxAsks \in Nat
    BY SearchAssumption DEF SearchIndInv
  <2>2. Cardinality(Posting) \in Nat
    BY <2>1, WaitingFinite
  <2>3. head \in 0 .. MaxRecords + MaxAsks
    BY <2>1, <2>2 DEF SearchTypes, RecordsBounded
  <2>4. \A q \in Queries : newest[q] \in 0 .. MaxRecords + MaxAsks
    BY <2>1, <2>3 DEF SearchTypes, RecordsBounded
  <2> QED  BY <2>1, <2>3, <2>4 DEF SearchTypes, SearchTypeOK, Questions
<1> QED  BY <1>1, SearchInvariance, PTL

(* ScreenAnswersTheQuestion, for any page, any number of questions and any  *)
(* number of requests in flight: without overlapping requests no filter,    *)
(* timer or selection leaves another question's answer on the screen.       *)
THEOREM ScreenAlwaysAnswers == SearchSpec => []ScreenAnswersTheQuestion
<1>1. SearchIndInv => ScreenAnswersTheQuestion
  <2> SUFFICES ASSUME SearchIndInv, Quiet, ~overlap, ~failed
               PROVE  /\ screen.of \in {NoQuery, text}
                         \/ (SearchTraits.starts = "submit" /\ screen.of = asked)
                      /\ screen.added \subseteq {text}
    BY DEF ScreenAnswersTheQuestion
  <2>1. screen.of \in {NoQuery, asked} /\ screen.added \subseteq {asked}
    BY DEF SearchIndInv, OneQuestion, Quiet
  <2>2. SearchTraits.starts = "submit" => screen.added = {}
    BY SearchPagesAre DEF SearchIndInv, TraitsKept, SearchTypes
  <2>3. SearchTraits.starts # "submit" => asked \in {NoQuery, text}
    BY DEF SearchIndInv, AskedIsShown, Quiet
  <2>4. screen.added \subseteq Queries /\ NoQuery \notin Queries
    BY SearchAssumption DEF SearchIndInv, SearchTypes
  <2> QED  BY <2>1, <2>2, <2>3, <2>4
<1> QED  BY <1>1, SearchInvariance, PTL

(* LiveFeedNeverRewinds: on the events page the mark the polls are compared *)
(* with is the record on the screen, so that only a search goes back.       *)
THEOREM LiveFeedGoesForward == SearchSpec => LiveFeedNeverRewinds
<1> DEFINE Forward ==
       view = "events" /\ screen'.of = screen.of /\ screen'.at < screen.at =>
         \E c \in requests \ requests' : c.kind = "search"
<1>1. SearchIndInv /\ [SearchNext]_searchVars => [Forward]_searchVars
  <2> SUFFICES ASSUME SearchIndInv, SearchNext, view = "events", screen'.at < screen.at
               PROVE  \E c \in requests \ requests' : c.kind = "search"
    OBVIOUS
  <2>1. /\ SearchTypes /\ seen = screen.at /\ screen.at \in Nat
        /\ SearchTraits.newer /\ ~SearchTraits.clears
    BY SearchPagesAre DEF SearchIndInv, SearchTypes, TraitsKept
  <2>2. screen' # screen
    BY <2>1
  <2>3. \A q \in Queries : ~Start(q)
    BY <2>1, <2>2 DEF Start
  <2>4. \A q \in Queries : ~Change(q)
    BY <2>2, <2>3, ChangeCases DEF shownVars
  <2>5. PICK c \in requests : AnswerSearch(c) \/ AnswerPoll(c) \/ AnswerPost(c)
    BY <2>1, <2>2, <2>3, <2>4
    DEF SearchNext, Asker, ServeSome, AnswerSome, Select, Submit, Refresh, DebounceFires, GoLive,
        Record, Poll, Post, Serve, LoseAnswer, shownVars, SearchTypes
  <2>6. c.at \in Nat
    BY <2>1 DEF SearchTypes, Questions
  <2>7. ~AnswerPoll(c)
    BY <2>1, <2>2, <2>6 DEF AnswerPoll, Show
  <2>8. ~AnswerPost(c)
    BY <2>1 DEF AnswerPost, SearchTypes
  <2> QED  BY <2>5, <2>7, <2>8 DEF AnswerSearch
<1> QED  BY <1>1, SearchInvariance, PTL DEF SearchSpec, LiveFeedNeverRewinds
=============================================================================
