----------------------------- MODULE TableTraits -----------------------------
(***************************************************************************)
(* What a page with a table of rows and buttons is made of: the vocabulary *)
(* in which DashboardTables and StaffTables describe each page, and what   *)
(* the backend does to the row a button names.                             *)
(*                                                                         *)
(* A row is absent ("none"), active ("on"), inactive ("off"), or active    *)
(* with something about it changed ("edited": another role, other terms).  *)
(***************************************************************************)

Statuses == {"none", "on", "off", "edited"}
Existing == Statuses \ {"none"}

-----------------------------------------------------------------------------
(* The backend.  An effect maps each status the endpoint accepts to the    *)
(* statuses it may leave; for any other it answers 404, 400 or 409.        *)

Unchanged == [s \in Existing |-> {s}]
Created == [s \in {"none"} |-> {"on"}]
Removed == [s \in Existing |-> {"none"}]

\* Fault: an active row may keep part of what it was.
DeactivatedPartly == [s \in Existing |-> {"off", "edited"}]

\* Staff and tenant administrators deactivate and activate whatever the row
\* was: none of these endpoints looks at is_active first.
Deactivated == [s \in Existing |-> {"off"}]
Activated == [s \in Existing |-> {"on"}]

\* Reactivating a user brings back the role it had.
Reactivated == [s \in Existing |-> IF s = "off" THEN {"on", "edited"} ELSE {s}]

\* A new role, or new terms of a plan; an inactive row stays inactive.
Changed == [s \in Existing |-> IF s = "off" THEN {"off"} ELSE {"on", "edited"}]

\* An alert's key carries one acknowledgement, and the last action names it.
Acknowledged == [s \in Existing |-> {"off"}]
Escalated == [s \in Existing |-> {"edited"}]

\* A vote on a deletion request: "edited" is a request on which this role has
\* voted, "off" one decided.
Voted == [s \in {"on"} |-> {"edited", "off"}]

\* The staff's deletion queue: "on" is pending, "edited" scheduled; a deleted
\* or reactivated tenant leaves the queue.
Approved == [s \in {"on", "edited"} |-> {"edited", "none"}]
LeftQueue == [s \in {"on", "edited"} |-> {"none"}]

-----------------------------------------------------------------------------
(* The browser.  A page has one flag per kind of request in flight: "form" *)
(* and "modal" disable a form, "row" and "second" hold the id of one row.  *)
(* The "modal" flag lives inside a dialog and goes away with it.           *)

Locks == {"form", "modal", "row", "second"}
FormLocks == {"form", "modal"}
Dialogs == {"new", "confirm", "edit", "reset", "approve", "reject", "execute"}

\* A handler: the endpoint it awaits and what its continuation does.
Handler ==
  [does |-> Unchanged,     \* the endpoint's effect on the row
   lock |-> "",            \* the flag set while it runs
   then |-> "keep",        \* on success: "reload" the list, "put" or "patch" the
                           \* answered row, mark it "off", "drop" it, or "keep"
   awaits |-> FALSE,       \* whether the flag is held until the reload is over
   closes |-> {},          \* dialogs closed on success
   always |-> {},          \* dialogs closed however it ends
   reveals |-> FALSE,      \* whether the answer holds a one-time secret
   clears |-> FALSE]       \* whether starting it removes the secret on show

\* A control: the handler it calls and when it can be used.
Control ==
  [op |-> "",
   drawn |-> Existing,     \* the statuses of a shown row that draw it
   dialog |-> "",          \* the dialog it sits in
   opener |-> {},          \* flags that disable the button opening that dialog
   blockedBy |-> {}]       \* flags that disable it

Page ==
  [handlers |-> <<>>, controls |-> {},
   overlays |-> {},        \* dialogs that cover the page
   secret |-> "inline",    \* where a secret is shown: "inline" or over the page
   reload |-> "never",     \* when the reader can load again: "button", "empty"
   hides |-> FALSE,        \* whether an error hides the rows for good
   statuses |-> {"none", "on", "off"}]
=============================================================================
