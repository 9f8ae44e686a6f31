------------------------------- MODULE Roles --------------------------------
(***************************************************************************)
(* Permission sets: the rows behind the offices, seeded from the role      *)
(* templates at every start and edited from the console in between.        *)
(*                                                                         *)
(* Requests and starts overlap (READ COMMITTED).  An edit replaces a set:  *)
(* one statement deletes the grants it sees, then the new ones are         *)
(* inserted.  The deletion locks its rows; a second deletion waits for     *)
(* them, finds them gone, and does not see what was inserted meanwhile.    *)
(* Insertion and commit are one action: an insertion of the same row waits *)
(* for the commit.                                                         *)
(*                                                                         *)
(* The permissions that are not about roles are all alike here.            *)
(***************************************************************************)
EXTENDS AppointmentRules

CONSTANTS
  Tracked,      \* the permissions that are told apart
  SystemRoles,  \* offices that have a template
  CustomRoles,  \* identifiers of roles made in the console; nobody can be given one
  Editors,      \* people who use the console
  OfficeOf,     \* OfficeOf[e]: the office of e, in a department that is not retired
  Requests,     \* console requests
  Processes     \* backend processes that start

VARIABLES
  grants,    \* grants[x]: the role_permission rows of role x
  rescoped,  \* system roles whose scope is not that of their template
  made,      \* custom roles that exist
  edit,      \* edits under way
  start,     \* synchronisations under way
  edited     \* history: roles edited since the last start that saw them

vars == <<grants, rescoped, made, edit, start, edited>>

Roles == SystemRoles \cup CustomRoles

\* tuple(Permission) for the administrator; manage_roles for the president too.
TrackedGrants(office) ==
  {p \in Tracked :
     \/ office = Administrator
     \/ office = President /\ p # "manage_settings"
     \/ office \in {InternalVP, ExternalVP} /\ p \notin {"manage_settings", "manage_roles"}}

Existing == SystemRoles \cup made

NoEdit == [at |-> "none"]
Edit == [at : {"begun", "deleting", "deleted"}, role : Roles, wanted : SUBSET Tracked,
         snapshot : SUBSET Tracked, locked : SUBSET Tracked]
NoStart == [at |-> "none"]
\* snapshot and rescoped: the grants and the scopes as the synchronisation read them; since: the
\* roles edited after that.
Start == [at : {"read"}, snapshot : [SystemRoles -> SUBSET Tracked], rescoped : SUBSET SystemRoles,
          since : SUBSET SystemRoles]

ASSUME RolesAssumption ==
  /\ OfficeOf \in [Editors -> SystemRoles]
  /\ SystemRoles \subseteq OfficeKeys
  /\ SystemRoles \cap CustomRoles = {}

TypeOK ==
  /\ grants \in [Roles -> SUBSET Tracked]
  /\ rescoped \subseteq SystemRoles
  /\ made \subseteq CustomRoles
  /\ edit \in [Requests -> Edit \cup {NoEdit}]
  /\ start \in [Processes -> Start \cup {NoStart}]
  /\ edited \subseteq SystemRoles
  /\ \A x \in Roles \ Existing : grants[x] = {}

\* The tables after the first start.
Init ==
  /\ grants = [x \in Roles |-> IF x \in SystemRoles THEN TrackedGrants(x) ELSE {}]
  /\ rescoped = {}
  /\ made = {}
  /\ edit = [r \in Requests |-> NoEdit]
  /\ start = [p \in Processes |-> NoStart]
  /\ edited = {}

(***************************************************************************)
(* The console.                                                            *)
(***************************************************************************)
HeldBy(e) == grants[OfficeOf[e]]
MayManageRoles(e) == "manage_roles" \in HeldBy(e)

\* Rows of x that an edit other than r has deleted and not committed.
LockedBy(others, x) == UNION {edit[q].locked : q \in {o \in others :
                                edit[o].at = "deleted" /\ edit[o].role = x}}

Create(e, x, wanted) ==
  /\ MayManageRoles(e) /\ wanted \subseteq HeldBy(e)
  /\ x \in CustomRoles \ made
  /\ \A r \in Requests : edit[r] # NoEdit => edit[r].role # x
  /\ made' = made \cup {x}
  /\ grants' = [grants EXCEPT ![x] = wanted]
  /\ UNCHANGED <<rescoped, edit, start, edited>>

\* Slip: what is requested is not compared with what the editor holds.
BeginUncheckedEdit(r, e, x, wanted) ==
  /\ edit[r] = NoEdit
  /\ MayManageRoles(e)
  /\ x \in Existing
  /\ edit' = [edit EXCEPT ![r] = [at |-> "begun", role |-> x, wanted |-> wanted,
       snapshot |-> {}, locked |-> {}]]
  /\ UNCHANGED <<grants, rescoped, made, start, edited>>

\* The caller's permissions are those of the moment the request was authenticated.
BeginEdit(r, e, x, wanted) ==
  /\ edit[r] = NoEdit
  /\ MayManageRoles(e) /\ wanted \subseteq HeldBy(e)
  /\ x \in Existing
  /\ edit' = [edit EXCEPT ![r] = [at |-> "begun", role |-> x, wanted |-> wanted,
       snapshot |-> {}, locked |-> {}]]
  /\ UNCHANGED <<grants, rescoped, made, start, edited>>

\* The DELETE takes its snapshot, and ends once nobody else holds a row of it.
BeginDelete(r) ==
  /\ edit[r].at = "begun"
  /\ edit' = [edit EXCEPT ![r].at = "deleting", ![r].snapshot = grants[edit[r].role]]
  /\ UNCHANGED <<grants, rescoped, made, start, edited>>

EndDelete(r) ==
  /\ edit[r].at = "deleting"
  /\ edit[r].snapshot \cap LockedBy(Requests \ {r}, edit[r].role) = {}
  /\ edit' = [edit EXCEPT ![r].at = "deleted", ![r].snapshot = {},
                              ![r].locked = edit[r].snapshot \cap grants[edit[r].role]]
  /\ UNCHANGED <<grants, rescoped, made, start, edited>>

\* The rows of x that are deleted for good are not there for a deletion that was waiting.
WithoutRows(x, rows) ==
  [q \in Requests |-> IF edit[q].at = "deleting" /\ edit[q].role = x
                        THEN [edit[q] EXCEPT !.snapshot = @ \ rows] ELSE edit[q]]

Touch(x) ==
  /\ edited' = edited \cup ({x} \cap SystemRoles)
  /\ start' = [p \in Processes |->
       IF start[p] = NoStart THEN NoStart ELSE [start[p] EXCEPT !.since = @ \cup ({x} \cap SystemRoles)]]

\* Slip: without the foreign key, grants are inserted for a role that was deleted.
CommitOrphanEdit(r) ==
  LET x == edit[r].role IN
  /\ edit[r].at = "deleted"
  /\ grants' = [grants EXCEPT ![x] = (@ \ edit[r].locked) \cup edit[r].wanted]
  /\ Touch(x)
  /\ edit' = [WithoutRows(x, edit[r].locked) EXCEPT ![r] = NoEdit]
  /\ UNCHANGED <<rescoped, made>>

\* A grant somebody else committed meanwhile is a duplicate key; only Fail is left.
CommitEdit(r) ==
  LET x == edit[r].role IN
  /\ edit[r].at = "deleted"
  /\ x \in Existing
  /\ edit[r].wanted \cap (grants[x] \ edit[r].locked) = {}
  /\ grants' = [grants EXCEPT ![x] = (@ \ edit[r].locked) \cup edit[r].wanted]
  /\ Touch(x)
  /\ edit' = [WithoutRows(x, edit[r].locked) EXCEPT ![r] = NoEdit]
  /\ UNCHANGED <<rescoped, made>>

\* An edit that names no permissions writes the columns it changes, and deletes nothing; an edit
\* that does both is a Rescope and a BeginEdit.
Rescope(e, x) ==
  /\ MayManageRoles(e)
  /\ x \in SystemRoles
  /\ rescoped' = (rescoped \ {x}) \cup ({x} \ rescoped)
  /\ Touch(x)
  /\ UNCHANGED <<grants, made, edit>>

Fail(r) ==
  /\ edit[r] # NoEdit
  /\ edit' = [edit EXCEPT ![r] = NoEdit]
  /\ UNCHANGED <<grants, rescoped, made, start, edited>>

\* Only custom roles: a system role is refused.  Nobody is assigned to them.
Delete(e, x) ==
  /\ MayManageRoles(e)
  /\ x \in made
  /\ LockedBy(Requests, x) = {}
  /\ made' = made \ {x}
  /\ grants' = [grants EXCEPT ![x] = {}]
  /\ UNCHANGED <<rescoped, edit, start, edited>>

(***************************************************************************)
(* A start: _sync_roles.                                                   *)
(***************************************************************************)
\* Roles are read one after the other; an edit changes one of them, so it is either seen or not.
ReadRoles(p) ==
  /\ start[p] = NoStart
  /\ start' = [start EXCEPT ![p] = [at |-> "read",
       snapshot |-> [x \in SystemRoles |-> grants[x]],
       rescoped |-> rescoped, since |-> {}]]
  /\ UNCHANGED <<grants, rescoped, made, edit, edited>>

Missing(p, x) == TrackedGrants(x) \ start[p].snapshot[x]

\* Slip: grants are added and never taken away.
NothingExcess(p, x) == {}

Excess(p, x) == start[p].snapshot[x] \ TrackedGrants(x)

\* Rows to delete that an edit holds make it wait, and what that edit inserted is then missed;
\* a missing row inserted meanwhile is a duplicate.
SyncRoles(p) == \E missed \in [SystemRoles -> SUBSET Tracked] :
  /\ start[p] # NoStart
  /\ \A x \in SystemRoles : missed[x] \subseteq Excess(p, x) /\ (missed[x] # {} => x \in start[p].since)
  /\ \A x \in SystemRoles :
       /\ Excess(p, x) \cap LockedBy(Requests, x) = {}
       /\ Missing(p, x) \cap grants[x] = {}
  /\ grants' = [x \in Roles |-> IF x \in SystemRoles
                                  THEN (grants[x] \ (Excess(p, x) \ missed[x])) \cup Missing(p, x) ELSE grants[x]]
  /\ rescoped' = rescoped \ start[p].rescoped
  /\ edited' = start[p].since
  /\ start' = [start EXCEPT ![p] = NoStart]
  /\ edit' = [q \in Requests |-> IF edit[q].at = "deleting" /\ edit[q].role \in SystemRoles
                THEN [edit[q] EXCEPT !.snapshot = @ \ (Excess(p, edit[q].role) \ missed[edit[q].role])]
                ELSE edit[q]]
  /\ UNCHANGED made

\* The exception ends the process; another start tries again.
StartFails(p) ==
  /\ start[p] # NoStart
  /\ start' = [start EXCEPT ![p] = NoStart]
  /\ UNCHANGED <<grants, rescoped, made, edit, edited>>

Next ==
  \/ \E e \in Editors, wanted \in SUBSET Tracked :
       \/ \E x \in CustomRoles : Create(e, x, wanted)
       \/ \E r \in Requests, x \in Roles : BeginEdit(r, e, x, wanted)
  \/ \E e \in Editors :
       \/ \E x \in SystemRoles : Rescope(e, x)
       \/ \E x \in CustomRoles : Delete(e, x)
  \/ \E r \in Requests : BeginDelete(r) \/ EndDelete(r) \/ CommitEdit(r) \/ Fail(r)
  \/ \E p \in Processes : ReadRoles(p) \/ SyncRoles(p) \/ StartFails(p)

Spec == Init /\ [][Next]_vars

(***************************************************************************)
(* Properties.                                                             *)
(***************************************************************************)
\* Whatever editors grant each other, and however their edits and the starts overlap, a role has
\* only permissions of its template or of the template of some editor: no chain of edits brings
\* up a permission that none of them had (role_service.py:80).
WithinReach == UNION {TrackedGrants(OfficeOf[e]) : e \in Editors}

NothingFromNowhere ==
  \A x \in Roles :
    grants[x] \subseteq WithinReach \cup (IF x \in SystemRoles THEN TrackedGrants(x) ELSE {})

\* A start restores the permission set and the scope of every role that was not edited while it
\* ran; an association that edited its administrators' rights away has them back
\* (provisioning_service.py:3).
StartsRestore ==
  \A x \in SystemRoles \ edited :
    grants[x] = TrackedGrants(x) /\ x \notin rescoped
=============================================================================
