--------------------------- MODULE DashboardTables ---------------------------
(***************************************************************************)
(* The tenant dashboard's pages that show a table and change it            *)
(* (frontend/src/app).  For each page, its handlers and its controls.      *)
(***************************************************************************)
EXTENDS TableTraits

-----------------------------------------------------------------------------
(* Users.  The rows are the accounts of others: the reader's own has no    *)
(* controls.  Every change of a row reloads the list without waiting.      *)

UsersHandlers ==
  [create |-> [Handler EXCEPT !.does = Created, !.lock = "form", !.then = "reload"],
   role   |-> [Handler EXCEPT !.does = Changed, !.lock = "second", !.then = "reload",
                              !.closes = {"edit"}],
   block  |-> [Handler EXCEPT !.does = Deactivated, !.lock = "row", !.then = "reload",
                              !.closes = {"confirm"}],
   unblock |-> [Handler EXCEPT !.does = Reactivated, !.lock = "row", !.then = "reload"],
   reset  |-> [Handler EXCEPT !.lock = "row", !.closes = {"reset"}]]

\* busy is loadingId or savingRoleId naming the row.
UsersControls ==
  {[Control EXCEPT !.op = "create", !.drawn = {"none"}, !.blockedBy = {"form"}],
   [Control EXCEPT !.op = "role", !.dialog = "edit", !.blockedBy = {"row", "second"}],
   [Control EXCEPT !.op = "block", !.dialog = "confirm", !.drawn = {"on", "edited"},
                   !.blockedBy = {"row", "second"}],
   [Control EXCEPT !.op = "unblock", !.drawn = {"off"}, !.blockedBy = {"row", "second"}],
   [Control EXCEPT !.op = "reset", !.dialog = "reset", !.blockedBy = {"row", "second"}]}

UsersPage ==
  [Page EXCEPT !.handlers = UsersHandlers, !.controls = UsersControls, !.statuses = Statuses]

-----------------------------------------------------------------------------
(* Settings, team panel.  The flags are held until the list is reloaded.   *)

TeamHandlers ==
  [create |-> [Handler EXCEPT !.does = Created, !.lock = "form", !.then = "reload",
                              !.awaits = TRUE, !.closes = {"new"}],
   deactivate |-> [Handler EXCEPT !.does = Deactivated, !.lock = "row", !.then = "reload",
                                  !.awaits = TRUE],
   reset |-> [Handler EXCEPT !.lock = "second", !.closes = {"reset"}]]

TeamControls ==
  {[Control EXCEPT !.op = "create", !.drawn = {"none"}, !.dialog = "new", !.blockedBy = {"form"}],
   [Control EXCEPT !.op = "deactivate", !.drawn = {"on"}, !.blockedBy = {"row"}],
   [Control EXCEPT !.op = "reset", !.drawn = {"on"}, !.dialog = "reset", !.blockedBy = {"second"}]}

TeamPage == [Page EXCEPT !.handlers = TeamHandlers, !.controls = TeamControls]

-----------------------------------------------------------------------------
(* API keys.  The rows are the tenant's 20 slots.                          *)

\* The flag of the form belongs to the dialog, which can be closed while its
\* request is under way; onCreate still reaches the page.
NewKeyModal ==
  [Control EXCEPT !.op = "create", !.drawn = {"none"}, !.dialog = "new", !.blockedBy = {"modal"}]

\* Fault: the key does not cover the page.
RevealKeyInline == "inline"

\* The full key, over the page until the reader is done with it.
RevealKeyModal == "overlay"

ApiKeysHandlers ==
  [create |-> [Handler EXCEPT !.does = Created, !.lock = "modal", !.then = "reload",
                              !.closes = {"new"}, !.reveals = TRUE],
   revoke |-> [Handler EXCEPT !.does = Removed, !.lock = "row", !.then = "drop"],
   disable |-> [Handler EXCEPT !.does = Deactivated, !.lock = "second", !.then = "patch"],
   enable |-> [Handler EXCEPT !.does = Activated, !.lock = "second", !.then = "patch"]]

\* Fault: the Revoke button looks at the other buttons' flag.
ApiKeysRowsWrongFlag ==
  {[Control EXCEPT !.op = "revoke", !.blockedBy = {"second"}],
   [Control EXCEPT !.op = "disable", !.drawn = {"on"}, !.blockedBy = {"second"}],
   [Control EXCEPT !.op = "enable", !.drawn = {"off"}, !.blockedBy = {"second"}]}

ApiKeysRows ==
  {[Control EXCEPT !.op = "revoke", !.blockedBy = {"row"}],
   [Control EXCEPT !.op = "disable", !.drawn = {"on"}, !.blockedBy = {"second"}],
   [Control EXCEPT !.op = "enable", !.drawn = {"off"}, !.blockedBy = {"second"}]}

ApiKeysPage ==
  [Page EXCEPT !.handlers = ApiKeysHandlers, !.controls = ApiKeysRows \cup {NewKeyModal},
               !.overlays = {"new"}, !.secret = RevealKeyModal]

-----------------------------------------------------------------------------
(* Ingestion sources.  Starting a creation takes the last key off the      *)
(* screen; the Deactivate button is never disabled.                        *)

SourcesHandlers ==
  [create |-> [Handler EXCEPT !.does = Created, !.lock = "form", !.then = "reload",
                              !.reveals = TRUE, !.clears = TRUE],
   deactivate |-> [Handler EXCEPT !.does = Deactivated, !.then = "reload"]]

SourcesControls ==
  {[Control EXCEPT !.op = "create", !.drawn = {"none"}, !.blockedBy = {"form"}],
   [Control EXCEPT !.op = "deactivate", !.drawn = {"on"}]}

SourcesPage == [Page EXCEPT !.handlers = SourcesHandlers, !.controls = SourcesControls]

-----------------------------------------------------------------------------
(* Deletion requests, as an approver who may also create them sees them.   *)

DeletionsHandlers ==
  [create |-> [Handler EXCEPT !.does = Created, !.lock = "form", !.then = "reload"],
   decide |-> [Handler EXCEPT !.does = Voted, !.then = "reload"]]

DeletionsControls ==
  {[Control EXCEPT !.op = "create", !.drawn = {"none"}, !.blockedBy = {"form"}],
   [Control EXCEPT !.op = "decide", !.drawn = {"on"}]}

DeletionsPage ==
  [Page EXCEPT !.handlers = DeletionsHandlers, !.controls = DeletionsControls,
               !.statuses = Statuses]

-----------------------------------------------------------------------------
(* Alerts: open ("on"), acknowledged ("off") or escalated ("edited").  Any *)
(* error hides the list, and nothing clears it.                            *)

AlertsHandlers ==
  [acknowledge |-> [Handler EXCEPT !.does = Acknowledged, !.lock = "row", !.then = "reload"],
   escalate |-> [Handler EXCEPT !.does = Escalated, !.lock = "row", !.then = "reload"]]

AlertsControls ==
  {[Control EXCEPT !.op = "acknowledge", !.drawn = {"on"}, !.blockedBy = {"row"}],
   [Control EXCEPT !.op = "escalate", !.drawn = {"on"}, !.blockedBy = {"row"}]}

AlertsPage ==
  [Page EXCEPT !.handlers = AlertsHandlers, !.controls = AlertsControls,
               !.hides = TRUE, !.statuses = Statuses]
=============================================================================
