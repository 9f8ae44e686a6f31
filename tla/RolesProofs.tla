---------------------------- MODULE RolesProofs -----------------------------
(***************************************************************************)
(* Proofs about Roles, for every set of roles, editors, requests and       *)
(* processes.                                                              *)
(***************************************************************************)
EXTENDS Roles, TLAPS

LEMMA TemplatesAreTracked == ASSUME NEW x PROVE TrackedGrants(x) \in SUBSET Tracked
  BY DEF TrackedGrants

LEMMA RolesAreApart == \A x \in SystemRoles : x \notin CustomRoles
  BY RolesAssumption

\* Slots without an edit or a start are told from the others by their fields.
LEMMA NoneIsApart == NoEdit \notin Edit /\ NoStart \notin Start
  BY DEF NoEdit, Edit, NoStart, Start

LEMMA OfficesAreRoles == \A e \in Editors : OfficeOf[e] \in SystemRoles
  BY RolesAssumption

(***************************************************************************)
(* Types.                                                                  *)
(***************************************************************************)
LEMMA InitTypes == Init => TypeOK
  BY RolesAreApart, TemplatesAreTracked DEF Init, TypeOK, Roles, Existing

\* What an edit in progress knows.
LEMMA EditTypes ==
  ASSUME TypeOK, NEW r \in Requests, edit[r] # NoEdit
  PROVE  /\ edit[r] \in Edit
         /\ edit[r].role \in Roles
         /\ edit[r].wanted \in SUBSET Tracked
         /\ edit[r].snapshot \in SUBSET Tracked
         /\ edit[r].locked \in SUBSET Tracked
  BY DEF TypeOK, Edit

LEMMA StartTypes ==
  ASSUME TypeOK, NEW p \in Processes, start[p] # NoStart
  PROVE  /\ start[p] \in Start
         /\ start[p].snapshot \in [SystemRoles -> SUBSET Tracked]
         /\ start[p].rescoped \in SUBSET SystemRoles
         /\ start[p].since \in SUBSET SystemRoles
  BY DEF TypeOK, Start

\* A commit notes the role in every synchronisation under way, and changes nothing else of it.
LEMMA Touched ==
  ASSUME TypeOK, NEW x \in Roles, Touch(x)
  PROVE  /\ edited' = edited \cup ({x} \cap SystemRoles)
         /\ start' \in [Processes -> Start \cup {NoStart}]
         /\ \A p \in Processes : start[p] = NoStart <=> start'[p] = NoStart
         /\ \A p \in Processes : start[p] # NoStart =>
              /\ start'[p].snapshot = start[p].snapshot
              /\ start'[p].rescoped = start[p].rescoped
              /\ start'[p].since = start[p].since \cup ({x} \cap SystemRoles)
  <1>1. edited' = edited \cup ({x} \cap SystemRoles)
    BY DEF Touch
  <1>2. ASSUME NEW p \in Processes, start[p] = NoStart PROVE start'[p] = NoStart
    BY <1>2 DEF Touch
  <1>3. ASSUME NEW p \in Processes, start[p] # NoStart
        PROVE  /\ start'[p] \in Start
               /\ start'[p].snapshot = start[p].snapshot
               /\ start'[p].rescoped = start[p].rescoped
               /\ start'[p].since = start[p].since \cup ({x} \cap SystemRoles)
    <2>1. start'[p] = [start[p] EXCEPT !.since = @ \cup ({x} \cap SystemRoles)]
      BY <1>3 DEF Touch
    <2>2. start[p] \in Start
      BY <1>3, StartTypes
    <2>3. QED
      BY <2>1, <2>2 DEF Start
  <1>4. DOMAIN start' = Processes /\ start' = [p \in Processes |-> start'[p]]
    BY DEF Touch
  <1>5. QED
    BY <1>1, <1>2, <1>3, <1>4, NoneIsApart

\* Deletions that were waiting lose rows from what they saw.
LEMMA FewerRows ==
  ASSUME TypeOK, NEW q \in Requests, NEW rows, edit[q] # NoEdit
  PROVE  LET shorter == [edit[q] EXCEPT !.snapshot = @ \ rows] IN
         /\ shorter \in Edit
         /\ shorter.wanted = edit[q].wanted /\ shorter.role = edit[q].role
         /\ shorter.at = edit[q].at /\ shorter.locked = edit[q].locked
  BY EditTypes DEF Edit

LEMMA WithoutRowsTypes ==
  ASSUME TypeOK, NEW x, NEW rows, NEW q \in Requests
  PROVE  /\ WithoutRows(x, rows) \in [Requests -> Edit \cup {NoEdit}]
         /\ WithoutRows(x, rows)[q].at = edit[q].at
         /\ edit[q] = NoEdit => WithoutRows(x, rows)[q] = NoEdit
         /\ edit[q] # NoEdit => WithoutRows(x, rows)[q].wanted = edit[q].wanted
  <1>1. ASSUME NEW o \in Requests
        PROVE  /\ WithoutRows(x, rows)[o] \in Edit \cup {NoEdit}
               /\ WithoutRows(x, rows)[o].at = edit[o].at
               /\ edit[o] = NoEdit => WithoutRows(x, rows)[o] = NoEdit
               /\ edit[o] # NoEdit => WithoutRows(x, rows)[o].wanted = edit[o].wanted
    <2>1. CASE edit[o] = NoEdit
      BY <2>1 DEF WithoutRows, NoEdit
    <2>2. CASE edit[o] # NoEdit
      BY <2>2, FewerRows, EditTypes DEF WithoutRows
    <2>3. QED
      BY <2>1, <2>2
  <1>2. QED
    BY <1>1 DEF WithoutRows

LEMMA StepTypes == TypeOK /\ [Next]_vars => TypeOK'
  <1> SUFFICES ASSUME TypeOK, [Next]_vars PROVE TypeOK'
    OBVIOUS
  <1> USE RolesAreApart, NoneIsApart
  <1>1. CASE UNCHANGED vars
    BY <1>1 DEF TypeOK, vars, Existing
  <1>2. ASSUME NEW e \in Editors, NEW x \in CustomRoles, NEW wanted \in SUBSET Tracked, Create(e, x, wanted)
        PROVE  TypeOK'
    BY <1>2 DEF Create, TypeOK, Existing, Roles
  <1>3. ASSUME NEW e \in Editors, NEW r \in Requests, NEW x \in Roles, NEW wanted \in SUBSET Tracked,
               BeginEdit(r, e, x, wanted)
        PROVE  TypeOK'
    BY <1>3 DEF BeginEdit, TypeOK, Existing, Edit
  <1>4. ASSUME NEW e \in Editors, NEW x \in SystemRoles, Rescope(e, x) PROVE TypeOK'
    <2>1. x \in Roles
      BY DEF Roles
    <2>2. start' \in [Processes -> Start \cup {NoStart}] /\ edited' \subseteq SystemRoles
      BY <1>4, <2>1, Touched DEF Rescope, TypeOK
    <2>3. QED
      BY <1>4, <2>2 DEF Rescope, TypeOK, Existing
  <1>5. ASSUME NEW e \in Editors, NEW x \in CustomRoles, Delete(e, x) PROVE TypeOK'
    BY <1>5 DEF Delete, TypeOK, Existing, Roles
  <1>6. ASSUME NEW r \in Requests, BeginDelete(r) PROVE TypeOK'
    <2>1. edit[r] # NoEdit
      BY <1>6 DEF BeginDelete, NoEdit
    <2>2. edit' = [edit EXCEPT ![r] = [edit[r] EXCEPT !.at = "deleting", !.snapshot = grants[edit[r].role]]]
      BY <1>6 DEF BeginDelete
    <2>3. [edit[r] EXCEPT !.at = "deleting", !.snapshot = grants[edit[r].role]] \in Edit
      BY <2>1, EditTypes DEF Edit, TypeOK
    <2>4. QED
      BY <1>6, <2>2, <2>3 DEF BeginDelete, TypeOK, Existing
  <1>7. ASSUME NEW r \in Requests, EndDelete(r) PROVE TypeOK'
    <2>1. edit[r] # NoEdit
      BY <1>7 DEF EndDelete, NoEdit
    <2> DEFINE after == [edit[r] EXCEPT !.at = "deleted", !.snapshot = {},
                                         !.locked = edit[r].snapshot \cap grants[edit[r].role]]
    <2>2. edit' = [edit EXCEPT ![r] = after]
      BY <1>7 DEF EndDelete
    <2>3. after \in Edit
      BY <2>1, EditTypes DEF Edit
    <2>4. QED
      BY <1>7, <2>2, <2>3 DEF EndDelete, TypeOK, Existing
  <1>8. ASSUME NEW r \in Requests, CommitEdit(r) PROVE TypeOK'
    <2>1. edit[r] # NoEdit /\ edit[r].role \in Existing
      BY <1>8 DEF CommitEdit, NoEdit
    <2>2. edit[r].role \in Roles /\ edit[r].wanted \in SUBSET Tracked
      BY <2>1, EditTypes
    <2>3. start' \in [Processes -> Start \cup {NoStart}] /\ edited' \subseteq SystemRoles
      BY <1>8, <2>2, Touched DEF CommitEdit, TypeOK
    <2>4. grants' \in [Roles -> SUBSET Tracked] /\ \A x \in Roles \ Existing : grants'[x] = {}
      BY <1>8, <2>1, <2>2 DEF CommitEdit, TypeOK
    <2>5. edit' \in [Requests -> Edit \cup {NoEdit}]
      BY <1>8, WithoutRowsTypes DEF CommitEdit
    <2>6. QED
      BY <1>8, <2>3, <2>4, <2>5 DEF CommitEdit, TypeOK, Existing
  <1>9. ASSUME NEW r \in Requests, Fail(r) PROVE TypeOK'
    BY <1>9 DEF Fail, TypeOK, Existing
  <1>10. ASSUME NEW p \in Processes, ReadRoles(p) PROVE TypeOK'
    <2>1. [at |-> "read", snapshot |-> [x \in SystemRoles |-> grants[x]], rescoped |-> rescoped,
           since |-> {}] \in Start
      BY DEF TypeOK, Start, Roles
    <2>2. QED
      BY <1>10, <2>1 DEF ReadRoles, TypeOK, Existing
  <1>11. ASSUME NEW p \in Processes, SyncRoles(p) PROVE TypeOK'
    <2>1. PICK missed \in [SystemRoles -> SUBSET Tracked] : SyncRoles(p)!(missed)
      BY <1>11 DEF SyncRoles
    <2>2. start[p] # NoStart
      BY <2>1
    <2>3. \A x \in SystemRoles : Missing(p, x) \in SUBSET Tracked
      BY TemplatesAreTracked DEF Missing
    <2>4. grants' \in [Roles -> SUBSET Tracked]
      BY <2>1, <2>3 DEF TypeOK, Roles
    <2>5. \A x \in Roles \ Existing : grants'[x] = {}
      BY <2>1 DEF TypeOK, Existing
    <2>6. edit' \in [Requests -> Edit \cup {NoEdit}]
      <3>1. ASSUME NEW q \in Requests PROVE edit'[q] \in Edit \cup {NoEdit}
        <4>1. CASE edit[q].at = "deleting" /\ edit[q].role \in SystemRoles
          <5>1. edit[q] # NoEdit
            BY <4>1 DEF NoEdit
          <5>2. QED
            BY <2>1, <4>1, <5>1, FewerRows
        <4>2. CASE ~(edit[q].at = "deleting" /\ edit[q].role \in SystemRoles)
          BY <2>1, <4>2 DEF TypeOK
        <4>3. QED
          BY <4>1, <4>2
      <3>2. edit' = [q \in Requests |-> edit'[q]]
        BY <2>1
      <3>3. QED
        BY <3>1, <3>2
    <2>7. rescoped' \subseteq SystemRoles /\ edited' \subseteq SystemRoles
      BY <2>1, <2>2, StartTypes DEF TypeOK
    <2>8. QED
      BY <2>1, <2>4, <2>5, <2>6, <2>7 DEF TypeOK, Existing
  <1>12. ASSUME NEW p \in Processes, StartFails(p) PROVE TypeOK'
    BY <1>12 DEF StartFails, TypeOK, Existing
  <1>13. QED
    BY <1>1, <1>2, <1>3, <1>4, <1>5, <1>6, <1>7, <1>8, <1>9, <1>10, <1>11, <1>12 DEF Next

\* Requests and synchronisations stay well-formed, and a role that does not exist has no grants:
\* an edit of a role that was deleted meanwhile inserts nothing.
THEOREM TypeCorrect == Spec => []TypeOK
  BY InitTypes, StepTypes, PTL DEF Spec

(***************************************************************************)
(* Permissions come from somewhere.  What an edit wants was compared with  *)
(* what the editor held, so the permissions on their way count too.        *)
(***************************************************************************)
WantedWithinReach == \A r \in Requests : edit[r] # NoEdit => edit[r].wanted \subseteq WithinReach

Reach == NothingFromNowhere /\ WantedWithinReach

LEMMA InitReach == Init => Reach
  BY RolesAreApart DEF Init, Reach, NothingFromNowhere, WantedWithinReach, Roles

\* Editors hold only what is within reach, whoever edited their office.
LEMMA EditorsWithinReach ==
  ASSUME NothingFromNowhere, NEW e \in Editors
  PROVE  HeldBy(e) \subseteq WithinReach
  BY OfficesAreRoles DEF NothingFromNowhere, HeldBy, WithinReach, Roles

\* Reach depends on two things: the grants and what the edits want.
LEMMA ReachKept ==
  ASSUME Reach,
         \A x \in Roles : grants'[x] \subseteq grants[x] \cup WithinReach
                                      \cup (IF x \in SystemRoles THEN TrackedGrants(x) ELSE {}),
         \A r \in Requests : edit'[r] # NoEdit =>
            edit'[r].wanted \subseteq WithinReach \cup (IF edit[r] # NoEdit THEN edit[r].wanted ELSE {})
  PROVE  Reach'
  BY DEF Reach, NothingFromNowhere, WantedWithinReach, WithinReach

LEMMA StepReach == TypeOK /\ Reach /\ [Next]_vars => Reach'
  <1> SUFFICES ASSUME TypeOK, Reach, [Next]_vars PROVE Reach'
    OBVIOUS
  <1> USE RolesAreApart, NoneIsApart
  <1>1. CASE UNCHANGED <<grants, edit>>
    BY <1>1, ReachKept
  <1>2. ASSUME NEW e \in Editors, NEW x \in CustomRoles, NEW wanted \in SUBSET Tracked, Create(e, x, wanted)
        PROVE  Reach'
    <2>1. wanted \subseteq WithinReach
      BY <1>2, EditorsWithinReach DEF Create, Reach
    <2>2. QED
      BY <1>2, <2>1, ReachKept DEF Create, TypeOK
  <1>3. ASSUME NEW e \in Editors, NEW r \in Requests, NEW x \in Roles, NEW wanted \in SUBSET Tracked,
               BeginEdit(r, e, x, wanted)
        PROVE  Reach'
    <2>1. wanted \subseteq WithinReach
      BY <1>3, EditorsWithinReach DEF BeginEdit, Reach
    <2>2. QED
      BY <1>3, <2>1, ReachKept DEF BeginEdit, TypeOK
  <1>4. ASSUME NEW e \in Editors, NEW x \in CustomRoles, Delete(e, x) PROVE Reach'
    BY <1>4, ReachKept DEF Delete, TypeOK
  <1>5. ASSUME NEW r \in Requests, BeginDelete(r) PROVE Reach'
    <2>1. edit[r] # NoEdit
      BY <1>5 DEF BeginDelete, NoEdit
    <2>2. \A q \in Requests : edit'[q] # NoEdit => edit[q] # NoEdit /\ edit'[q].wanted = edit[q].wanted
      BY <1>5, <2>1, EditTypes DEF BeginDelete, TypeOK, Edit
    <2>3. QED
      BY <1>5, <2>2, ReachKept DEF BeginDelete
  <1>6. ASSUME NEW r \in Requests, EndDelete(r) PROVE Reach'
    <2>1. edit[r] # NoEdit
      BY <1>6 DEF EndDelete, NoEdit
    <2>2. \A q \in Requests : edit'[q] # NoEdit => edit[q] # NoEdit /\ edit'[q].wanted = edit[q].wanted
      BY <1>6, <2>1, EditTypes DEF EndDelete, TypeOK, Edit
    <2>3. QED
      BY <1>6, <2>2, ReachKept DEF EndDelete
  <1>7. ASSUME NEW r \in Requests, CommitEdit(r) PROVE Reach'
    <2>1. edit[r] # NoEdit
      BY <1>7 DEF CommitEdit, NoEdit
    <2>2. edit[r].role \in Roles /\ edit[r].wanted \subseteq WithinReach
      BY <2>1, EditTypes DEF Reach, WantedWithinReach
    <2>3. \A x \in Roles : grants'[x] \subseteq grants[x] \cup WithinReach
      BY <1>7, <2>2 DEF CommitEdit, TypeOK
    <2>4. \A q \in Requests : edit'[q] # NoEdit => edit[q] # NoEdit /\ edit'[q].wanted = edit[q].wanted
      BY <1>7, WithoutRowsTypes DEF CommitEdit
    <2>5. QED
      BY <2>3, <2>4, ReachKept
  <1>8. ASSUME NEW r \in Requests, Fail(r) PROVE Reach'
    BY <1>8, ReachKept DEF Fail, TypeOK
  <1>9. ASSUME NEW p \in Processes, SyncRoles(p) PROVE Reach'
    <2>1. PICK missed \in [SystemRoles -> SUBSET Tracked] : SyncRoles(p)!(missed)
      BY <1>9 DEF SyncRoles
    <2>2. \A x \in Roles : grants'[x] \subseteq grants[x] \cup (IF x \in SystemRoles THEN TrackedGrants(x) ELSE {})
      BY <2>1 DEF Missing
    <2>3. ASSUME NEW q \in Requests, edit'[q] # NoEdit PROVE edit[q] # NoEdit /\ edit'[q].wanted = edit[q].wanted
      <3>1. CASE edit[q].at = "deleting" /\ edit[q].role \in SystemRoles
        <4>1. edit[q] # NoEdit
          BY <3>1 DEF NoEdit
        <4>2. QED
          BY <2>1, <3>1, <4>1, FewerRows
      <3>2. CASE ~(edit[q].at = "deleting" /\ edit[q].role \in SystemRoles)
        BY <2>1, <2>3, <3>2
      <3>3. QED
        BY <3>1, <3>2
    <2>4. QED
      BY <2>2, <2>3, ReachKept
  <1>10. QED
    BY <1>1, <1>2, <1>3, <1>4, <1>5, <1>6, <1>7, <1>8, <1>9
       DEF Next, vars, Rescope, ReadRoles, StartFails

\* Whatever chain of edits is made, in any number of requests at once and between any restarts, a
\* role has only permissions of its template or of the template of some editor's office.
THEOREM NothingComesFromNowhere == Spec => []NothingFromNowhere
  BY InitTypes, StepTypes, InitReach, StepReach, PTL DEF Spec, Reach

(***************************************************************************)
(* A start restores.  A synchronisation works from a snapshot, and another *)
(* one may end in between: for a role that nobody edited since, the rows   *)
(* are then between what both agree on and what either of them has.        *)
(***************************************************************************)
SnapshotHolds(p, x) ==
  /\ TrackedGrants(x) \cap start[p].snapshot[x] \subseteq grants[x]
  /\ grants[x] \subseteq TrackedGrants(x) \cup start[p].snapshot[x]
  /\ x \in rescoped => x \in start[p].rescoped

SnapshotsHold ==
  \A p \in Processes : start[p] # NoStart =>
    \A x \in SystemRoles \ start[p].since : SnapshotHolds(p, x)

Restored == StartsRestore /\ SnapshotsHold

LEMMA InitRestored == Init => Restored
  BY RolesAreApart DEF Init, Restored, StartsRestore, SnapshotsHold, Roles

\* A change to one role that is noted where it must be.
LEMMA RestoredTouch ==
  ASSUME TypeOK, Restored, NEW x \in Roles, Touch(x),
         \A y \in SystemRoles \ {x} : grants'[y] = grants[y] /\ (y \in rescoped' => y \in rescoped)
  PROVE  Restored'
  <1>1. StartsRestore'
    BY Touched DEF Restored, StartsRestore
  <1>2. ASSUME NEW p \in Processes, start'[p] # NoStart, NEW y \in SystemRoles \ start'[p].since
        PROVE  SnapshotHolds(p, y)'
    <2>1. /\ start[p] # NoStart /\ y \notin start[p].since /\ y # x
          /\ start'[p].snapshot = start[p].snapshot /\ start'[p].rescoped = start[p].rescoped
      BY <1>2, Touched
    <2>2. SnapshotHolds(p, y)
      BY <2>1 DEF Restored, SnapshotsHold
    <2>3. QED
      BY <2>1, <2>2 DEF SnapshotHolds
  <1>3. QED
    BY <1>1, <1>2 DEF Restored, SnapshotsHold

LEMMA StepRestored == TypeOK /\ Restored /\ [Next]_vars => Restored'
  <1> SUFFICES ASSUME TypeOK, Restored, [Next]_vars PROVE Restored'
    OBVIOUS
  <1> USE RolesAreApart
  <1>1. CASE UNCHANGED <<grants, rescoped, start, edited>>
    BY <1>1 DEF Restored, StartsRestore, SnapshotsHold, SnapshotHolds
  <1>2. CASE /\ \A x \in SystemRoles : grants'[x] = grants[x]
             /\ UNCHANGED <<rescoped, start, edited>>
    BY <1>2 DEF Restored, StartsRestore, SnapshotsHold, SnapshotHolds
  <1>3. ASSUME NEW e \in Editors, NEW x \in CustomRoles, NEW wanted \in SUBSET Tracked, Create(e, x, wanted)
        PROVE  Restored'
    BY <1>2, <1>3 DEF Create, TypeOK, Roles
  <1>4. ASSUME NEW e \in Editors, NEW x \in CustomRoles, Delete(e, x) PROVE Restored'
    BY <1>2, <1>4 DEF Delete, TypeOK, Roles
  <1>5. ASSUME NEW e \in Editors, NEW x \in SystemRoles, Rescope(e, x) PROVE Restored'
    BY <1>5, RestoredTouch DEF Rescope, Roles
  <1>6. ASSUME NEW r \in Requests, CommitEdit(r) PROVE Restored'
    <2>1. edit[r] # NoEdit
      BY <1>6 DEF CommitEdit, NoEdit
    <2>2. edit[r].role \in Roles
      BY <2>1, EditTypes
    <2>3. \A y \in SystemRoles \ {edit[r].role} : grants'[y] = grants[y] /\ rescoped' = rescoped
      BY <1>6 DEF CommitEdit, TypeOK, Roles
    <2>4. QED
      BY <1>6, <2>2, <2>3, RestoredTouch DEF CommitEdit
  <1>7. ASSUME NEW p \in Processes, ReadRoles(p) PROVE Restored'
    <2>1. StartsRestore'
      BY <1>7 DEF ReadRoles, Restored, StartsRestore
    <2>2. ASSUME NEW q \in Processes, start'[q] # NoStart, NEW x \in SystemRoles \ start'[q].since
          PROVE  SnapshotHolds(q, x)'
      <3>1. CASE q = p
        BY <1>7, <3>1 DEF ReadRoles, TypeOK, SnapshotHolds
      <3>2. CASE q # p
        BY <1>7, <2>2, <3>2 DEF ReadRoles, TypeOK, Restored, SnapshotsHold, SnapshotHolds
      <3>3. QED
        BY <3>1, <3>2
    <2>3. QED
      BY <2>1, <2>2 DEF Restored, SnapshotsHold
  <1>8. ASSUME NEW p \in Processes, SyncRoles(p) PROVE Restored'
    <2>1. PICK missed \in [SystemRoles -> SUBSET Tracked] : SyncRoles(p)!(missed)
      BY <1>8 DEF SyncRoles
    <2>2. ASSUME NEW x \in SystemRoles
          PROVE  grants'[x] = (grants[x] \ (Excess(p, x) \ missed[x])) \cup Missing(p, x)
      BY <2>1 DEF Roles
    <2>3. start[p] # NoStart /\ edited' = start[p].since /\ rescoped' = rescoped \ start[p].rescoped
      BY <2>1
    <2>4. ASSUME NEW x \in SystemRoles \ edited' PROVE grants'[x] = TrackedGrants(x) /\ x \notin rescoped'
      <3>1. SnapshotHolds(p, x)
        BY <2>3 DEF Restored, SnapshotsHold
      <3>2. missed[x] = {}
        BY <2>1, <2>3
      <3>3. QED
        BY <2>2, <2>3, <3>1, <3>2 DEF SnapshotHolds, Excess, Missing
    <2>5. ASSUME NEW q \in Processes, start'[q] # NoStart, NEW x \in SystemRoles \ start'[q].since
          PROVE  SnapshotHolds(q, x)'
      <3>1. start'[q] = start[q] /\ start[q] # NoStart
        BY <2>1, <2>5 DEF TypeOK
      <3>2. SnapshotHolds(q, x)
        BY <2>5, <3>1 DEF Restored, SnapshotsHold
      <3>3. QED
        BY <2>2, <2>3, <3>1, <3>2 DEF SnapshotHolds, Excess, Missing
    <2>6. QED
      BY <2>4, <2>5 DEF Restored, StartsRestore, SnapshotsHold
  <1>9. ASSUME NEW p \in Processes, StartFails(p) PROVE Restored'
    <2>1. /\ UNCHANGED <<grants, rescoped, edited>>
          /\ \A q \in Processes : start'[q] # NoStart => start'[q] = start[q]
      BY <1>9 DEF StartFails, TypeOK
    <2>2. QED
      BY <2>1 DEF Restored, StartsRestore, SnapshotsHold, SnapshotHolds
  <1>10. QED
    BY <1>1, <1>3, <1>4, <1>5, <1>6, <1>7, <1>8, <1>9
       DEF Next, vars, BeginEdit, BeginDelete, EndDelete, Fail

\* A start restores every office nobody edited while it ran, though other starts and any number of
\* edits overlap with it.
THEOREM EveryStartRestores == Spec => []StartsRestore
  BY InitTypes, StepTypes, InitRestored, StepRestored, PTL DEF Spec, Restored

(***************************************************************************)
(* What follows for one permission, and for edits that do not overlap.     *)
(***************************************************************************)
\* System settings are the administrators' alone, by the templates. As long as no administrator
\* uses the console, no chain of edits and no start gives them to another role: a president who
\* may edit every role, their own too, does not get at them.
THEOREM SettingsStayWithAdministrators ==
  ASSUME \A e \in Editors : OfficeOf[e] # Administrator
  PROVE  Spec => [](\A x \in Roles \ {Administrator} : "manage_settings" \notin grants[x])
  <1>1. \A x : x # Administrator => "manage_settings" \notin TrackedGrants(x)
    BY DEF TrackedGrants
  <1>2. "manage_settings" \notin WithinReach
    BY <1>1 DEF WithinReach
  <1>3. NothingFromNowhere => \A x \in Roles \ {Administrator} : "manage_settings" \notin grants[x]
    BY <1>1, <1>2 DEF NothingFromNowhere
  <1>4. QED
    BY <1>3, NothingComesFromNowhere, PTL
=============================================================================
