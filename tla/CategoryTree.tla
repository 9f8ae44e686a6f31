---------------------------- MODULE CategoryTree ----------------------------
(***************************************************************************)
(* The filing tree behind the vault: category rows that point at their     *)
(* parents, edited from the console.  Every handler reads what it needs    *)
(* and writes once; the constraints of the table decide again at the       *)
(* write, so each is one action.  Names, kinds and the sort order are      *)
(* display data.                                                           *)
(*                                                                         *)
(* A definition marked "Slip" is a plausible mistake in the definition     *)
(* that follows it, kept to show which property would notice.              *)
(***************************************************************************)
EXTENDS VaultRules

CONSTANTS
  Categories,    \* identifiers of category rows
  Slugs,
  Departments,
  NoCategory,    \* no row, or a null parent_id
  InitialCategory   \* the rows before anyone edits them: the seeded categories

VARIABLE category

CategoryRow == [slug : Slugs, dept : Departments \cup {Shared},
                parent : Categories \cup {NoCategory}, builtin : BOOLEAN]

Filed == {c \in Categories : category[c] # NoCategory}

ChildrenOf(S) == {k \in Filed : category[k].parent \in S}

\* A category with everything beneath it: the least set that contains it and the children of its members.
Subtree(c) ==
  {k \in Filed : \A S \in SUBSET Filed : c \in S /\ ChildrenOf(S) \subseteq S => k \in S}

\* Two moves can put categories beneath each other.
InCycle(c) == \E k \in ChildrenOf({c}) : c \in Subtree(k)

\* build_tree: the rows that reach a root of the listing, where a row whose parent is not among the
\* rows is a root; rows are those of a department and of the association, or all.
Listing(rows) ==
  LET roots == {k \in rows : category[k].parent \notin rows} IN
  {k \in rows : \A S \in SUBSET rows : roots \subseteq S /\ ChildrenOf(S) \cap rows \subseteq S => k \in S}

\* The unique constraint counts a null parent or department as different from every other null.
SlugFree(c, slug, dept, parent) ==
  dept # Shared /\ parent # NoCategory =>
    \A k \in Filed \ {c} :
      <<category[k].slug, category[k].dept, category[k].parent>> # <<slug, dept, parent>>

CreateCategory(ctx, c, slug, dept, parent) ==
  /\ MayIn(ctx, "manage_categories", dept)
  /\ category[c] = NoCategory
  /\ parent # NoCategory => parent \in Filed /\ category[parent].dept = dept
  /\ SlugFree(c, slug, dept, parent)
  /\ category' = [category EXCEPT ![c] =
       [slug |-> slug, dept |-> dept, parent |-> parent, builtin |-> FALSE]]

\* update_category with a parent: any category but itself, of any department.
MoveCategory(ctx, c, parent) ==
  /\ c \in Filed
  /\ MayIn(ctx, "manage_categories", category[c].dept)
  /\ parent # c
  /\ parent \in Filed \cup {NoCategory}
  /\ SlugFree(c, category[c].slug, category[c].dept, parent)
  /\ category' = [category EXCEPT ![c].parent = parent]

\* Slip: only the category's own documents are counted, and the foreign key is not there.
UncheckedDelete(ctx, c, holding) ==
  /\ c \in Filed
  /\ MayIn(ctx, "manage_categories", category[c].dept)
  /\ ~category[c].builtin
  /\ ~InCycle(c)
  /\ c \notin holding
  /\ category' = [k \in Categories |-> IF k \in Subtree(c) THEN NoCategory ELSE category[k]]

\* Slip: the children are left behind.
ShallowDelete(ctx, c, holding) ==
  /\ c \in Filed
  /\ MayIn(ctx, "manage_categories", category[c].dept)
  /\ ~category[c].builtin
  /\ c \notin holding
  /\ category' = [category EXCEPT ![c] = NoCategory]

\* The deletion takes the subtree with it; a document in any of it (holding) refuses the whole
\* request, counted for c itself and by the foreign key below.  Rows that are each other's
\* ancestors cannot be put in an order of deletion: the unit of work raises.
DeleteCategory(ctx, c, holding) ==
  /\ c \in Filed
  /\ MayIn(ctx, "manage_categories", category[c].dept)
  /\ ~category[c].builtin
  /\ ~InCycle(c)
  /\ Subtree(c) \cap holding = {}
  /\ category' = [k \in Categories |-> IF k \in Subtree(c) THEN NoCategory ELSE category[k]]

(***************************************************************************)
(* Properties.                                                             *)
(***************************************************************************)
\* A parent_id names a row that exists: moves and cascading deletions of other people's branches
\* leave no category hanging from a deleted one.
ParentsExist ==
  \A c \in Filed : category[c].parent \in Filed \cup {NoCategory}
=============================================================================
