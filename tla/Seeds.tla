------------------------------- MODULE Seeds --------------------------------
(***************************************************************************)
(* What a start of the backend makes of the departments and the filing     *)
(* tree that people edit between two starts.  The synchronisation of the   *)
(* roles, which comes first, is module Roles; the bootstrap administrator, *)
(* which comes last, is the initial state of Placement.                    *)
(*                                                                         *)
(* A start is one action: the process answers nobody before it ends, and   *)
(* an old process still serving is a console edit before or after it.      *)
(***************************************************************************)
EXTENDS CategoryTree, FiniteSets

CONSTANTS
  Editors,     \* authorization contexts of the people who use the console
  Blueprints,  \* departments the code lists
  Defaults,    \* slugs of the categories every department starts with
  Folders      \* slugs of the children of the planning category

VARIABLES
  departments,   \* rows of the department table
  started        \* how the last start ended

vars == <<category, departments, started>>

Planning == "planning"

Init ==
  /\ category = InitialCategory
  /\ departments = {}
  /\ started = "never"

(***************************************************************************)
(* A start: _sync_departments and _sync_document_categories.               *)
(***************************************************************************)
\* What _ensure_category finds: built-in or not, only department, parent and slug are compared.
Matches(rows, dept, parent, slug) ==
  {c \in Categories : /\ rows[c] # NoCategory
                      /\ rows[c].dept = dept /\ rows[c].parent = parent /\ rows[c].slug = slug}

\* rows with a built-in row for each slug that nothing matches; which free identifier a row gets
\* does not matter.
Seeded(rows, dept, parent, slugs) ==
  LET missing == {slug \in slugs : Matches(rows, dept, parent, slug) = {}}
      free == {c \in Categories : rows[c] = NoCategory}
      place == CHOOSE f \in [missing -> free] : \A s, t \in missing : f[s] = f[t] => s = t IN
  [c \in Categories |->
     IF \E s \in missing : place[s] = c
       THEN [slug |-> CHOOSE s \in missing : place[s] = c, dept |-> dept, parent |-> parent,
             builtin |-> TRUE]
       ELSE rows[c]]

\* Department after department; the children go beneath the one planning category.
WithDefaults(rows, dept) ==
  LET tops == Seeded(rows, dept, NoCategory, Defaults)
      planning == CHOOSE c \in Matches(tops, dept, NoCategory, Planning) : TRUE IN
  Seeded(tops, dept, planning, Folders)

\* More than one row is an error of scalar_one_or_none, and the transaction is rolled back.  Below
\* the planning category the unique constraint lets no second row in.
Ambiguous(dept) ==
  \E slug \in Defaults : Cardinality(Matches(category, dept, NoCategory, slug)) > 1

AllSeeded[depts \in SUBSET Departments] ==
  IF depts = {} THEN category
  ELSE LET d == CHOOSE d \in depts : TRUE IN WithDefaults(AllSeeded[depts \ {d}], d)

Provision ==
  LET depts == departments \cup Blueprints IN
  IF \E d \in depts : Ambiguous(d)
    THEN started' = "failed" /\ UNCHANGED <<category, departments>>
    ELSE started' = "up" /\ departments' = depts /\ category' = AllSeeded[depts]

(***************************************************************************)
(* The console, while the backend is up.                                   *)
(***************************************************************************)
\* Holding manage_departments is not told apart: some editor holds it.
CreateDepartment(d) ==
  /\ d \notin departments
  /\ departments' = departments \cup {d}
  /\ UNCHANGED <<category, started>>

EditTree ==
  /\ \E e \in Editors, c \in Categories, p \in Categories \cup {NoCategory} :
       \/ \E slug \in Slugs, d \in departments : CreateCategory(e, c, slug, d, p)
       \/ MoveCategory(e, c, p)
       \/ DeleteCategory(e, c, {})
  /\ UNCHANGED <<departments, started>>

Next ==
  \/ Provision
  \/ started = "up" /\ ((\E d \in Departments : CreateDepartment(d)) \/ EditTree)

Spec == Init /\ [][Next]_vars

(***************************************************************************)
(* Property.                                                               *)
(***************************************************************************)
\* However the departments and the tree were edited, the next start finds at most one row for
\* each default it looks up, updates or keeps that row, and comes up (provisioning_service.py:3-4:
\* "Runs on every startup. Existing rows are updated in place rather than duplicated").
EveryStartComesUp == started # "failed"
=============================================================================
