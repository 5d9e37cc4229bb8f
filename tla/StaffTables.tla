----------------------------- MODULE StaffTables -----------------------------
(***************************************************************************)
(* The staff portal's pages that show a table and change it                *)
(* (staff-portal/src/app).  They load their list once and then edit their  *)
(* own copy of it with each answer; only the deletion queue loads again.   *)
(***************************************************************************)
EXTENDS TableTraits

\* Suspend and activate, the two sides of every toggle: the answered row
\* replaces the shown one.
Suspend == [Handler EXCEPT !.does = Deactivated, !.lock = "row", !.then = "patch"]
Activate == [Handler EXCEPT !.does = Activated, !.lock = "row", !.then = "patch"]
SuspendControl == [Control EXCEPT !.op = "suspend", !.drawn = {"on"}, !.blockedBy = {"row"}]
ActivateControl == [Control EXCEPT !.op = "activate", !.drawn = {"off"}, !.blockedBy = {"row"}]

-----------------------------------------------------------------------------
(* Tenants; and the header of one tenant's page, whose table is one row.   *)

TenantsHandlers == [suspend |-> Suspend, activate |-> Activate]
TenantsControls == {SuspendControl, ActivateControl}
TenantsPage == [Page EXCEPT !.handlers = TenantsHandlers, !.controls = TenantsControls]

\* acting is a Boolean here, so it disables the button whatever it is about.
TenantHeaderHandlers ==
  [suspend |-> [Suspend EXCEPT !.lock = "form"], activate |-> [Activate EXCEPT !.lock = "form"]]
TenantHeaderControls ==
  {[SuspendControl EXCEPT !.blockedBy = {"form"}], [ActivateControl EXCEPT !.blockedBy = {"form"}]}
TenantHeader ==
  [Page EXCEPT !.handlers = TenantHeaderHandlers, !.controls = TenantHeaderControls]

-----------------------------------------------------------------------------
(* One tenant's tabs.  A tab loads its list when it is entered with nothing *)
(* to show.  The import that a user's buttons wait for is of a module the  *)
(* page has loaded, so no other click comes before the flag is set.        *)

TenantUsersHandlers == [suspend |-> Suspend, activate |-> Activate]
TenantUsersTab ==
  [Page EXCEPT !.handlers = TenantUsersHandlers, !.controls = {SuspendControl, ActivateControl},
               !.reload = "empty"]

\* Fault: the page's copy is left as it was.
TenantKeysUnmarked ==
  [revoke |-> [Handler EXCEPT !.does = Deactivated, !.lock = "row", !.then = "keep"]]

\* Revoked keys stay listed: the page marks its own copy.
TenantKeysHandlers ==
  [revoke |-> [Handler EXCEPT !.does = Deactivated, !.lock = "row", !.then = "off"]]
TenantKeysTab ==
  [Page EXCEPT !.handlers = TenantKeysHandlers, !.reload = "empty",
               !.controls = {[Control EXCEPT !.op = "revoke", !.drawn = {"on"}, !.blockedBy = {"row"}]}]

TenantNotesHandlers ==
  [post |-> [Handler EXCEPT !.does = Created, !.lock = "form", !.then = "put"],
   delete |-> [Handler EXCEPT !.does = Removed, !.lock = "row", !.then = "drop"]]
\* The button is disabled while posting; the keyboard shortcut is not.
TenantNotesTab ==
  [Page EXCEPT !.handlers = TenantNotesHandlers, !.reload = "empty",
               !.controls = {[Control EXCEPT !.op = "post", !.drawn = {"none"}, !.blockedBy = {"form"}],
                             [Control EXCEPT !.op = "post", !.drawn = {"none"}],
                             [Control EXCEPT !.op = "delete", !.blockedBy = {"row"}]}]

-----------------------------------------------------------------------------
(* Users of all tenants.  The temporary password covers the page.          *)

StaffUsersHandlers ==
  [suspend |-> Suspend, activate |-> Activate,
   reset |-> [Handler EXCEPT !.lock = "row", !.reveals = TRUE]]
StaffUsersControls ==
  {SuspendControl, ActivateControl, [Control EXCEPT !.op = "reset", !.blockedBy = {"row"}]}
StaffUsersPage ==
  [Page EXCEPT !.handlers = StaffUsersHandlers, !.controls = StaffUsersControls,
               !.secret = "overlay"]

-----------------------------------------------------------------------------
(* Staff administrators; the rows are the others' accounts, so the reader  *)
(* is never the only one listed.                                           *)

AdminsHandlers ==
  [suspend |-> Suspend, activate |-> Activate,
   create |-> [Handler EXCEPT !.does = Created, !.lock = "form", !.then = "put", !.closes = {"new"}],
   delete |-> [Handler EXCEPT !.does = Removed, !.lock = "row", !.then = "drop",
                              !.always = {"confirm"}]]
AdminsControls ==
  {SuspendControl, ActivateControl,
   [Control EXCEPT !.op = "create", !.drawn = {"none"}, !.dialog = "new", !.blockedBy = {"form"}],
   [Control EXCEPT !.op = "delete", !.dialog = "confirm", !.opener = {"row"}, !.blockedBy = {"row"}]}
AdminsPage ==
  [Page EXCEPT !.handlers = AdminsHandlers, !.controls = AdminsControls,
               !.overlays = {"new", "confirm"}]

-----------------------------------------------------------------------------
(* API keys of all tenants.                                                *)

StaffKeysHandlers ==
  [revoke |-> [Handler EXCEPT !.does = Deactivated, !.lock = "row", !.then = "off",
                              !.always = {"confirm"}]]
StaffKeysControls ==
  {[Control EXCEPT !.op = "revoke", !.drawn = {"on"}, !.dialog = "confirm",
                   !.opener = {"row"}, !.blockedBy = {"row"}]}
StaffKeysPage ==
  [Page EXCEPT !.handlers = StaffKeysHandlers, !.controls = StaffKeysControls,
               !.overlays = {"confirm"}]

-----------------------------------------------------------------------------
(* Announcements.                                                          *)

AnnouncementsHandlers ==
  [suspend |-> Suspend, activate |-> Activate,
   delete |-> [Handler EXCEPT !.does = Removed, !.lock = "row", !.then = "drop"],
   post |-> [Handler EXCEPT !.does = Created, !.lock = "form", !.then = "put", !.closes = {"new"}]]
AnnouncementsControls ==
  {SuspendControl, ActivateControl,
   [Control EXCEPT !.op = "delete", !.blockedBy = {"row"}],
   [Control EXCEPT !.op = "post", !.drawn = {"none"}, !.dialog = "new", !.blockedBy = {"form"}]}
AnnouncementsPage ==
  [Page EXCEPT !.handlers = AnnouncementsHandlers, !.controls = AnnouncementsControls,
               !.overlays = {"new"}]

-----------------------------------------------------------------------------
(* Plans.  The form's flag lives in the dialog; the answer of a save that  *)
(* was closed while under way still reaches handleSaved, which closes      *)
(* whichever dialog is then open.                                          *)

PlanModal ==
  {[Control EXCEPT !.op = "create", !.drawn = {"none"}, !.dialog = "new", !.blockedBy = {"modal"}],
   [Control EXCEPT !.op = "edit", !.dialog = "edit", !.blockedBy = {"modal"}]}
PlansHandlers ==
  [create |-> [Handler EXCEPT !.does = Created, !.lock = "modal", !.then = "put",
                              !.closes = {"new", "edit"}],
   edit |-> [Handler EXCEPT !.does = Changed, !.lock = "modal", !.then = "put",
                            !.closes = {"new", "edit"}],
   archive |-> [Handler EXCEPT !.does = Deactivated, !.lock = "row", !.then = "patch"]]
PlansControls ==
  PlanModal \cup {[Control EXCEPT !.op = "archive", !.drawn = {"on", "edited"}, !.blockedBy = {"row"}]}
PlansPage ==
  [Page EXCEPT !.handlers = PlansHandlers, !.controls = PlansControls,
               !.overlays = {"new", "edit"}, !.statuses = Statuses]

\* The billing page repeats the dialog, the handlers and the table.
BillingPlanModal == PlanModal
BillingHandlers == PlansHandlers
BillingPlansTable ==
  {[Control EXCEPT !.op = "archive", !.drawn = {"on", "edited"}, !.blockedBy = {"row"}]}
BillingPage ==
  [Page EXCEPT !.handlers = BillingHandlers, !.controls = BillingPlansTable \cup BillingPlanModal,
               !.overlays = {"new", "edit"}, !.statuses = Statuses]

-----------------------------------------------------------------------------
(* The deletion queue.  Each decision is taken in a dialog that asks for   *)
(* the password: its button is disabled while busy, its Enter key is not.  *)

InSecurityModal(op, drawn) ==
  {[Control EXCEPT !.op = op, !.dialog = op, !.drawn = drawn, !.blockedBy = {"modal"}],
   [Control EXCEPT !.op = op, !.dialog = op, !.drawn = drawn]}
Decision(effect) ==
  [Handler EXCEPT !.does = effect, !.lock = "modal", !.then = "reload",
                  !.closes = {"approve", "reject", "execute"}]
QueueHandlers ==
  [approve |-> Decision(Approved), reject |-> Decision(LeftQueue), execute |-> Decision(LeftQueue)]
\* Pending requests are approved or rejected, scheduled ones rejected or executed.
QueueControls ==
  InSecurityModal("approve", {"on"}) \cup InSecurityModal("reject", {"on", "edited"})
    \cup InSecurityModal("execute", {"edited"})
QueuePage ==
  [Page EXCEPT !.handlers = QueueHandlers, !.controls = QueueControls, !.reload = "button",
               !.overlays = {"approve", "reject", "execute"}, !.statuses = {"none", "on", "edited"}]
=============================================================================
