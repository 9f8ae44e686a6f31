---------------------------- MODULE VaultProofs -----------------------------
(***************************************************************************)
(* The vault for any number of documents, versions, requests and           *)
(* categories: gapless histories, bytes that are there, documents that are *)
(* filed, and the append-only lists of FileHistory.                        *)
(***************************************************************************)
EXTENDS Vault, TLAPS, SequenceTheorems

LEMMA Kinds ==
  ASSUME TypeOK, NEW r \in Requests
  PROVE  /\ Uploading(r) => req[r] \in UploadRequest /\ ~Deleting(r) /\ req[r] # Idle
         /\ Deleting(r) => req[r] \in DeleteRequest /\ req[r] # Idle
         /\ req[r] # Idle => Uploading(r) \/ Deleting(r)
  BY DEF TypeOK, Uploading, Deleting, UploadRequest, DeleteRequest, Idle

LEMMA LiveRow ==
  ASSUME TypeOK, NEW d \in Live
  PROVE  d \in Documents /\ document[d] \in DocumentRow /\ document[d].current \in Numbers
           /\ document[d].category \in Categories
  BY DEF TypeOK, Live, DocumentRow

LEMMA KeysAreKeys ==
  ASSUME TypeOK, NEW d \in Documents
  PROVE  KeysOf(d) \subseteq Keys
  BY DEF TypeOK, KeysOf, VersionsOf, Numbers

-----------------------------------------------------------------------------
LEMMA TypeInit == Init => TypeOK
  BY VaultAssumption DEF Init, TypeOK, NoRevision

\* The tree of categories changes in its own module; its rows keep their shape.
LEMMA TreeType ==
  ASSUME TypeOK, NEW ctx, EditCategories(ctx)
  PROVE  category' \in [Categories -> CategoryRow \cup {NoCategory}]
  <1>1. ASSUME NEW c \in Categories, NEW slug \in Slugs, NEW dept \in Departments \cup {Shared},
               NEW parent \in Categories \cup {NoCategory}, CreateCategory(ctx, c, slug, dept, parent)
        PROVE  category' \in [Categories -> CategoryRow \cup {NoCategory}]
    <2>1. [slug |-> slug, dept |-> dept, parent |-> parent, builtin |-> FALSE] \in CategoryRow
      BY DEF CategoryRow
    <2>2. QED
      BY <1>1, <2>1 DEF CreateCategory, TypeOK
  <1>2. ASSUME NEW c \in Categories, NEW parent \in Categories \cup {NoCategory},
               MoveCategory(ctx, c, parent)
        PROVE  category' \in [Categories -> CategoryRow \cup {NoCategory}]
    <2>1. category[c] \in CategoryRow
      BY <1>2 DEF MoveCategory, Filed, TypeOK
    <2>2. [category[c] EXCEPT !.parent = parent] \in CategoryRow
      BY <2>1 DEF CategoryRow
    <2>3. category' = [category EXCEPT ![c] = [category[c] EXCEPT !.parent = parent]]
      BY <1>2 DEF MoveCategory
    <2>4. QED
      BY <2>2, <2>3 DEF TypeOK
  <1>3. ASSUME NEW c \in Categories, DeleteCategory(ctx, c, Holding)
        PROVE  category' \in [Categories -> CategoryRow \cup {NoCategory}]
    BY <1>3 DEF DeleteCategory, TypeOK
  <1>4. QED
    BY <1>1, <1>2, <1>3 DEF EditCategories

\* What the steps of a request make of its record.
LEMMA WrittenRequest ==
  ASSUME TypeOK, NEW r \in Requests, NEW k \in Keys, WriteObject(r, k)
  PROVE  /\ Uploading(r) /\ req[r] \in UploadRequest
         /\ req'[r] = [req[r] EXCEPT !.key = k] /\ req'[r] \in UploadRequest
         /\ req' \in [Requests -> {Idle} \cup UploadRequest \cup DeleteRequest]
         /\ \A q \in Requests \ {r} : req'[q] = req[q]
  <1>1. Uploading(r) /\ req[r] \in UploadRequest
    BY Kinds DEF WriteObject
  <1>2. [req[r] EXCEPT !.key = k] \in UploadRequest
    BY <1>1 DEF UploadRequest
  <1>3. req' = [req EXCEPT ![r] = [req[r] EXCEPT !.key = k]]
    BY DEF WriteObject
  <1>4. QED
    BY <1>1, <1>2, <1>3 DEF TypeOK

LEMMA DeletedRequest ==
  ASSUME TypeOK, NEW r \in Requests, NEW k \in Keys, DeleteObject(r, k)
  PROVE  /\ Deleting(r) /\ req[r] \in DeleteRequest /\ k \in req[r].left
         /\ req'[r] = [req[r] EXCEPT !.left = req[r].left \ {k}] /\ req'[r] \in DeleteRequest
         /\ req' \in [Requests -> {Idle} \cup UploadRequest \cup DeleteRequest]
         /\ \A q \in Requests \ {r} : req'[q] = req[q]
  <1>1. Deleting(r) /\ req[r] \in DeleteRequest
    BY Kinds DEF DeleteObject
  <1>2. [req[r] EXCEPT !.left = req[r].left \ {k}] \in DeleteRequest
    BY <1>1 DEF DeleteRequest
  <1>3. req' = [req EXCEPT ![r] = [req[r] EXCEPT !.left = req[r].left \ {k}]]
    BY DEF DeleteObject
  <1>4. QED
    BY <1>1, <1>2, <1>3 DEF TypeOK, DeleteObject

\* What InsertVersion makes of the rows.
LEMMA Inserted ==
  ASSUME TypeOK, NEW r \in Requests, InsertVersion(r)
  PROVE  LET d == req[r].doc
             n == req[r].number
             row == IF req[r].row # NoDocument THEN req[r].row
                    ELSE [document[d] EXCEPT !.current = n]
         IN  /\ Uploading(r) /\ req[r] \in UploadRequest /\ d \in Documents /\ n \in Numbers
             /\ req[r].key \in Keys /\ revision[d][n] = NoKey
             /\ req[r].row # NoDocument \/ d \in Live
             /\ row \in DocumentRow
             /\ row.current = IF req[r].row # NoDocument THEN req[r].row.current ELSE n
             /\ row.category = IF req[r].row # NoDocument THEN req[r].row.category
                               ELSE document[d].category
             /\ document' = [document EXCEPT ![d] = row]
             /\ revision' = [revision EXCEPT ![d][n] = req[r].key]
             /\ revision' \in [Documents -> [Numbers -> Keys \cup {NoKey}]]
             /\ req' = [req EXCEPT ![r] = Idle]
  <1> DEFINE d == req[r].doc
             n == req[r].number
             row == IF req[r].row # NoDocument THEN req[r].row
                    ELSE [document[d] EXCEPT !.current = n]
  <1>1. /\ Uploading(r) /\ req[r] \in UploadRequest /\ revision[d][n] = NoKey
        /\ req[r].row # NoDocument \/ d \in Live
        /\ req' = [req EXCEPT ![r] = Idle]
    BY Kinds DEF InsertVersion
  <1>2. d \in Documents /\ n \in Numbers /\ req[r].key \in Keys
          /\ req[r].row \in DocumentRow \cup {NoDocument}
    BY <1>1 DEF UploadRequest, InsertVersion
  <1>3. CASE req[r].row # NoDocument
    <2>1. row = req[r].row
      BY <1>3
    <2>2. document' = [document EXCEPT ![d] = row]
      BY <1>3, <2>1 DEF InsertVersion
    <2>3. revision' \in [Documents -> [Numbers -> Keys \cup {NoKey}]]
            /\ revision' = [revision EXCEPT ![d][n] = req[r].key]
      BY <1>2 DEF InsertVersion, TypeOK
    <2>4. QED
      BY <1>1, <1>2, <1>3, <2>1, <2>2, <2>3
  <1>4. CASE req[r].row = NoDocument
    <2>1. row = [document[d] EXCEPT !.current = n] /\ document[d] \in DocumentRow
      BY <1>1, <1>4, LiveRow
    <2>2. row \in DocumentRow /\ row.current = n /\ row.category = document[d].category
      BY <1>2, <2>1 DEF DocumentRow
    <2>3. document' = [document EXCEPT ![d] = row]
      BY <1>4, <2>1 DEF InsertVersion
    <2>4. revision' \in [Documents -> [Numbers -> Keys \cup {NoKey}]]
            /\ revision' = [revision EXCEPT ![d][n] = req[r].key]
      BY <1>2 DEF InsertVersion, TypeOK
    <2>5. QED
      BY <1>1, <1>2, <1>4, <2>2, <2>3, <2>4
  <1>5. QED
    BY <1>3, <1>4

LEMMA TypeStep == TypeOK /\ [Next]_vars => TypeOK'
  <1> SUFFICES ASSUME TypeOK, [Next]_vars PROVE TypeOK'
    OBVIOUS
  <1> DEFINE Typed == {Idle} \cup UploadRequest \cup DeleteRequest
  <1>1. ASSUME NEW ctx \in Callers, NEW r \in Requests, NEW d \in Documents, NEW dept \in Departments,
               NEW c \in Categories, NEW visibility \in VisibilityInputs,
               BeginCreate(r, ctx, d, dept, c, visibility)
        PROVE  TypeOK'
    <2>1. [dept |-> dept, category |-> c, visibility |-> visibility, archived |-> FALSE,
           current |-> 1] \in DocumentRow /\ 1 \in Numbers
      BY VaultAssumption DEF DocumentRow, Numbers
    <2>2. req'[r] \in UploadRequest /\ req' \in [Requests -> Typed]
      BY <1>1, <2>1 DEF BeginCreate, UploadRequest, TypeOK
    <2>3. QED
      BY <1>1, <2>2 DEF BeginCreate, TypeOK
  <1>2. ASSUME NEW ctx \in Callers, NEW r \in Requests, NEW d \in Documents, BeginAppend(r, ctx, d)
        PROVE  TypeOK'
    <2>1. PICK n \in Numbers : req' = [req EXCEPT ![r] =
            [op |-> "upload", doc |-> d, row |-> NoDocument, number |-> n, key |-> NoKey]]
      BY <1>2 DEF BeginAppend
    <2>2. [op |-> "upload", doc |-> d, row |-> NoDocument, number |-> n, key |-> NoKey]
            \in UploadRequest
      BY DEF UploadRequest
    <2>3. req' \in [Requests -> Typed]
      BY <2>1, <2>2 DEF TypeOK
    <2>4. QED
      BY <1>2, <2>3 DEF BeginAppend, TypeOK
  <1>3. ASSUME NEW ctx \in Callers, NEW r \in Requests, NEW d \in Documents, BeginDelete(r, ctx, d)
        PROVE  TypeOK'
    <2>1. [op |-> "delete", doc |-> d, left |-> KeysOf(d)] \in DeleteRequest
      BY KeysAreKeys DEF DeleteRequest
    <2>2. req' \in [Requests -> Typed]
      BY <1>3, <2>1 DEF BeginDelete, TypeOK
    <2>3. QED
      BY <1>3, <2>2 DEF BeginDelete, TypeOK
  <1>4. ASSUME NEW ctx \in Callers, NEW d \in Documents, NEW c \in Categories,
               NEW visibility \in VisibilityInputs, NEW archived \in BOOLEAN,
               UpdateDocument(ctx, d, c, visibility, archived)
        PROVE  TypeOK'
    <2> DEFINE row == [document[d] EXCEPT !.category = c, !.visibility = visibility,
                                          !.archived = archived]
    <2>1. document[d] \in DocumentRow
      BY <1>4, LiveRow DEF UpdateDocument, CanRead
    <2>2. row \in DocumentRow
      BY <2>1, VaultAssumption DEF DocumentRow
    <2>3. document' = [document EXCEPT ![d] = row]
      BY <1>4 DEF UpdateDocument
    <2>4. QED
      BY <1>4, <2>2, <2>3 DEF UpdateDocument, TypeOK
  <1>5. ASSUME NEW r \in Requests, NEW k \in Keys, WriteObject(r, k) PROVE TypeOK'
    BY <1>5, WrittenRequest DEF WriteObject, TypeOK
  <1>6. ASSUME NEW r \in Requests, NEW k \in Keys, DeleteObject(r, k) PROVE TypeOK'
    BY <1>6, DeletedRequest DEF DeleteObject, TypeOK
  <1>7. ASSUME NEW r \in Requests, InsertVersion(r) PROVE TypeOK'
    <2> DEFINE d == req[r].doc
               n == req[r].number
               row == IF req[r].row # NoDocument THEN req[r].row
                      ELSE [document[d] EXCEPT !.current = n]
    <2>1. /\ row \in DocumentRow /\ document' = [document EXCEPT ![d] = row]
          /\ revision' \in [Documents -> [Numbers -> Keys \cup {NoKey}]]
          /\ req' = [req EXCEPT ![r] = Idle]
      BY <1>7, Inserted
    <2> HIDE DEF row, d, n
    <2>2. document' \in [Documents -> DocumentRow \cup {NoDocument}] /\ req' \in [Requests -> Typed]
      BY <2>1 DEF TypeOK
    <2>3. QED
      BY <1>7, <2>1, <2>2 DEF InsertVersion, TypeOK
  <1>8. ASSUME NEW r \in Requests, DeleteRows(r) PROVE TypeOK'
    BY <1>8 DEF DeleteRows, TypeOK, NoRevision
  <1>9. ASSUME NEW r \in Requests, Fail(r) PROVE TypeOK'
    BY <1>9 DEF Fail, TypeOK
  <1>10. ASSUME NEW ctx \in Callers, EditCategories(ctx) PROVE TypeOK'
    BY <1>10, TreeType DEF EditCategories, TypeOK
  <1>11. CASE UNCHANGED vars
    BY <1>11 DEF vars, TypeOK
  <1>12. QED
    BY <1>1, <1>2, <1>3, <1>4, <1>5, <1>6, <1>7, <1>8, <1>9, <1>10, <1>11 DEF Next

\* The vault's type invariant, for every instance.
THEOREM TypeCorrect == Spec => []TypeOK
  BY TypeInit, TypeStep, PTL DEF Spec

-----------------------------------------------------------------------------
\* A parent_id names a row that exists, for every tree and every sequence of edits: with a
\* category goes everything beneath it.
LEMMA SubtreeClosed ==
  ASSUME NEW c \in Categories, NEW k \in Filed, category[k].parent \in Subtree(c)
  PROVE  k \in Subtree(c)
  <1> SUFFICES ASSUME NEW S \in SUBSET Filed, c \in S, ChildrenOf(S) \subseteq S
               PROVE  k \in S
    BY DEF Subtree
  <1>1. category[k].parent \in S
    BY DEF Subtree
  <1>2. k \in ChildrenOf(S)
    BY <1>1 DEF ChildrenOf
  <1>3. QED
    BY <1>2

\* The categories change only where somebody edits them.
LEMMA OnlyEditsCategories ==
  [Next]_vars => UNCHANGED category \/ \E ctx \in Callers : EditCategories(ctx)
  <1>1. ASSUME NEW ctx \in Callers, NEW r \in Requests, NEW d \in Documents, NEW dept \in Departments,
               NEW c \in Categories, NEW visibility \in VisibilityInputs,
               BeginCreate(r, ctx, d, dept, c, visibility)
        PROVE  UNCHANGED category
    BY <1>1 DEF BeginCreate
  <1>2. ASSUME NEW ctx \in Callers, NEW r \in Requests, NEW d \in Documents,
               BeginAppend(r, ctx, d) \/ BeginDelete(r, ctx, d)
        PROVE  UNCHANGED category
    BY <1>2 DEF BeginAppend, BeginDelete
  <1>3. ASSUME NEW ctx \in Callers, NEW d \in Documents, NEW c \in Categories,
               NEW visibility \in VisibilityInputs, NEW archived \in BOOLEAN,
               UpdateDocument(ctx, d, c, visibility, archived)
        PROVE  UNCHANGED category
    BY <1>3 DEF UpdateDocument
  <1>4. ASSUME NEW r \in Requests, NEW k \in Keys, WriteObject(r, k) \/ DeleteObject(r, k)
        PROVE  UNCHANGED category
    BY <1>4 DEF WriteObject, DeleteObject
  <1>5. ASSUME NEW r \in Requests, InsertVersion(r) \/ DeleteRows(r) \/ Fail(r)
        PROVE  UNCHANGED category
    BY <1>5 DEF InsertVersion, DeleteRows, Fail
  <1>6. CASE UNCHANGED vars
    BY <1>6 DEF vars
  <1>7. QED
    BY <1>1, <1>2, <1>3, <1>4, <1>5, <1>6 DEF Next

LEMMA ParentsStep == TypeOK /\ ParentsExist /\ [Next]_vars => ParentsExist'
  <1> SUFFICES ASSUME TypeOK, ParentsExist, [Next]_vars PROVE ParentsExist'
    OBVIOUS
  <1>1. CASE UNCHANGED category
    BY <1>1 DEF ParentsExist, Filed
  <1>2. ASSUME NEW ctx \in Callers, NEW c \in Categories, NEW slug \in Slugs,
               NEW dept \in Departments \cup {Shared}, NEW parent \in Categories \cup {NoCategory},
               CreateCategory(ctx, c, slug, dept, parent)
        PROVE  ParentsExist'
    <2> DEFINE new == [slug |-> slug, dept |-> dept, parent |-> parent, builtin |-> FALSE]
    <2>0. new \in CategoryRow
      BY DEF CategoryRow
    <2>1. new # NoCategory
      BY <2>0, VaultAssumption
    <2>2. category' = [category EXCEPT ![c] = new] /\ parent \in Filed \cup {NoCategory}
      BY <1>2 DEF CreateCategory
    <2>3. Filed' = Filed \cup {c}
      BY <2>1, <2>2 DEF Filed, TypeOK
    <2>4. category'[c].parent = parent /\ \A k \in Categories \ {c} : category'[k] = category[k]
      BY <2>2 DEF TypeOK
    <2>5. QED
      BY <2>2, <2>3, <2>4 DEF ParentsExist
  <1>3. ASSUME NEW ctx \in Callers, NEW c \in Categories, NEW parent \in Categories \cup {NoCategory},
               MoveCategory(ctx, c, parent)
        PROVE  ParentsExist'
    <2>1. category[c] \in CategoryRow /\ c \in Filed /\ parent \in Filed \cup {NoCategory}
      BY <1>3 DEF MoveCategory, Filed, TypeOK
    <2> DEFINE new == [category[c] EXCEPT !.parent = parent]
    <2>2. new \in CategoryRow /\ new.parent = parent
      BY <2>1 DEF CategoryRow
    <2>3. category' = [category EXCEPT ![c] = new]
      BY <1>3 DEF MoveCategory
    <2>4. Filed' = Filed
      BY <2>1, <2>2, <2>3, VaultAssumption DEF Filed, TypeOK
    <2>5. category'[c].parent = parent /\ \A k \in Categories \ {c} : category'[k] = category[k]
      BY <2>2, <2>3 DEF TypeOK
    <2>6. QED
      BY <2>1, <2>4, <2>5 DEF ParentsExist, Filed
  <1>4. ASSUME NEW ctx \in Callers, NEW c \in Categories, DeleteCategory(ctx, c, Holding)
        PROVE  ParentsExist'
    <2>1. category' = [k \in Categories |-> IF k \in Subtree(c) THEN NoCategory ELSE category[k]]
      BY <1>4 DEF DeleteCategory
    <2>2. Filed' = Filed \ Subtree(c) /\ \A k \in Filed' : category'[k] = category[k]
      BY <2>1 DEF Filed
    <2>3. \A k \in Filed' : category[k].parent \notin Subtree(c)
      BY <2>2, SubtreeClosed
    <2>4. QED
      BY <2>2, <2>3 DEF ParentsExist
  <1>5. QED
    BY <1>1, <1>2, <1>3, <1>4, OnlyEditsCategories DEF EditCategories

\* No edit of the tree leaves a category under one that is gone, for every instance.
THEOREM ParentsAlwaysExist == Spec => []ParentsExist
  <1>1. Init => ParentsExist
    BY VaultAssumption DEF Init, ParentsExist, Filed, CategoryRow
  <1>2. QED
    BY <1>1, TypeInit, TypeStep, ParentsStep, PTL DEF Spec

-----------------------------------------------------------------------------
\* What an upload that is under way can count on: a new document is nobody else's, and no number
\* is further than one above the current one.
Pending ==
  \A r \in Requests : Uploading(r) =>
    /\ req[r].row # NoDocument =>
         /\ req[r].doc \notin Live /\ req[r].number = 1 /\ req[r].row.current = 1
         /\ req[r].row.category \in Filed
         /\ \A q \in Requests \ {r} : req[q] # Idle => req[q].doc # req[r].doc
    /\ req[r].row = NoDocument /\ req[r].doc \in Live =>
         req[r].number <= document[req[r].doc].current + 1

\* A step that leaves the documents' rows and the filed categories alone and only ends requests or
\* moves them on keeps all of it.
LEMMA PendingKept ==
  ASSUME TypeOK, Pending, Live' \subseteq Live, Filed \subseteq Filed',
         \A d \in Live' : document'[d].current = document[d].current,
         \A r \in Requests : \/ req'[r] = Idle
                             \/ ~Uploading(r) /\ ~Uploading(r)' /\ req[r] # Idle /\ req'[r].doc = req[r].doc
                             \/ /\ Uploading(r) /\ req'[r].doc = req[r].doc
                                /\ req'[r].row = req[r].row /\ req'[r].number = req[r].number
  PROVE  Pending'
  <1> SUFFICES ASSUME NEW r \in Requests, Uploading(r)'
      PROVE  /\ req'[r].row # NoDocument =>
                  /\ req'[r].doc \notin Live' /\ req'[r].number = 1 /\ req'[r].row.current = 1
                  /\ req'[r].row.category \in Filed'
                  /\ \A q \in Requests \ {r} : req'[q] # Idle => req'[q].doc # req'[r].doc
             /\ req'[r].row = NoDocument /\ req'[r].doc \in Live' =>
                  req'[r].number <= document'[req'[r].doc].current + 1
    BY DEF Pending
  <1>1. /\ Uploading(r) /\ req'[r].doc = req[r].doc
        /\ req'[r].row = req[r].row /\ req'[r].number = req[r].number
    BY DEF Uploading, Idle
  <1>2. \A q \in Requests : req'[q] # Idle => req[q] # Idle /\ req'[q].doc = req[q].doc
    BY Kinds
  <1>3. QED
    BY <1>1, <1>2 DEF Pending

\* An edit of a row changes no pointer.
LEMMA Updated ==
  ASSUME TypeOK, NEW ctx, NEW d \in Documents, NEW c \in Categories,
         NEW visibility \in VisibilityInputs, NEW archived \in BOOLEAN,
         UpdateDocument(ctx, d, c, visibility, archived)
  PROVE  /\ Live' = Live /\ \A e \in Documents : document'[e].current = document[e].current
         /\ document'[d].category = c /\ \A e \in Documents \ {d} : document'[e] = document[e]
  <1> DEFINE row == [document[d] EXCEPT !.category = c, !.visibility = visibility,
                                        !.archived = archived]
  <1>1. document[d] \in DocumentRow /\ d \in Live
    BY LiveRow DEF UpdateDocument, CanRead
  <1>2. row \in DocumentRow /\ row.current = document[d].current /\ row.category = c
    BY <1>1, VaultAssumption DEF DocumentRow
  <1>3. document' = [document EXCEPT ![d] = row]
    BY DEF UpdateDocument
  <1>4. row # NoDocument
    BY <1>2, VaultAssumption
  <1> HIDE DEF row
  <1>5. QED
    BY <1>1, <1>2, <1>3, <1>4 DEF Live, TypeOK

LEMMA InsertedLive ==
  ASSUME TypeOK, NEW r \in Requests, InsertVersion(r)
  PROVE  /\ Live' = Live \cup {req[r].doc}
         /\ \A e \in Documents \ {req[r].doc} : document'[e] = document[e] /\ revision'[e] = revision[e]
  <1> DEFINE d == req[r].doc
             row == IF req[r].row # NoDocument THEN req[r].row
                    ELSE [document[d] EXCEPT !.current = req[r].number]
  <1>1. d \in Documents /\ row \in DocumentRow /\ document' = [document EXCEPT ![d] = row]
          /\ revision' = [revision EXCEPT ![d][req[r].number] = req[r].key]
    BY Inserted
  <1>2. row # NoDocument
    BY <1>1, VaultAssumption
  <1> HIDE DEF row
  <1>3. QED
    BY <1>1, <1>2 DEF Live, TypeOK

\* The number that is inserted is the next one.
LEMMA AppendsNext ==
  ASSUME TypeOK, HistoryIsGapless, Pending, NEW r \in Requests, InsertVersion(r), req[r].row = NoDocument
  PROVE  /\ req[r].doc \in Live
         /\ document[req[r].doc].current \in Nat
         /\ req[r].number = document[req[r].doc].current + 1
         /\ document'[req[r].doc].current = document[req[r].doc].current + 1
  <1> DEFINE d == req[r].doc
             n == req[r].number
             row == IF req[r].row # NoDocument THEN req[r].row
                    ELSE [document[d] EXCEPT !.current = n]
  <1>1. /\ Uploading(r) /\ d \in Documents /\ n \in Numbers /\ revision[d][n] = NoKey /\ d \in Live
        /\ row.current = n /\ document' = [document EXCEPT ![d] = row]
    BY Inserted
  <1>2. document[d].current \in Numbers /\ VersionsOf(d) = 1..document[d].current
    BY <1>1, LiveRow DEF HistoryIsGapless
  <1>3. n <= document[d].current + 1
    BY <1>1 DEF Pending
  <1>4. n \notin VersionsOf(d)
    BY <1>1 DEF VersionsOf
  <1>5. n = document[d].current + 1 /\ document[d].current \in Nat
    BY <1>1, <1>2, <1>3, <1>4, VaultAssumption DEF Numbers
  <1> HIDE DEF row
  <1>6. document'[d].current = n
    BY <1>1 DEF TypeOK
  <1>7. QED
    BY <1>1, <1>5, <1>6

\* A category that holds documents, or is about to, stays.
LEMMA HeldStay ==
  ASSUME TypeOK, NEW ctx, EditCategories(ctx)
  PROVE  Holding \cap Filed \subseteq Filed'
  <1>1. ASSUME NEW c \in Categories, NEW slug \in Slugs, NEW dept \in Departments \cup {Shared},
               NEW parent \in Categories \cup {NoCategory}, CreateCategory(ctx, c, slug, dept, parent)
        PROVE  Filed \subseteq Filed'
    BY <1>1 DEF CreateCategory, Filed, TypeOK
  <1>2. ASSUME NEW c \in Categories, NEW parent \in Categories \cup {NoCategory},
               MoveCategory(ctx, c, parent)
        PROVE  Filed \subseteq Filed'
    <2>1. category[c] \in CategoryRow
      BY <1>2 DEF MoveCategory, Filed, TypeOK
    <2>2. [category[c] EXCEPT !.parent = parent] \in CategoryRow
      BY <2>1 DEF CategoryRow
    <2>3. category' = [category EXCEPT ![c] = [category[c] EXCEPT !.parent = parent]]
      BY <1>2 DEF MoveCategory
    <2>4. QED
      BY <2>2, <2>3, VaultAssumption DEF Filed, TypeOK
  <1>3. ASSUME NEW c \in Categories, DeleteCategory(ctx, c, Holding)
        PROVE  Holding \cap Filed \subseteq Filed'
    <2>1. Subtree(c) \cap Holding = {}
            /\ category' = [k \in Categories |-> IF k \in Subtree(c) THEN NoCategory ELSE category[k]]
      BY <1>3 DEF DeleteCategory
    <2>2. QED
      BY <2>1 DEF Filed
  <1>4. QED
    BY <1>1, <1>2, <1>3 DEF EditCategories

LEMMA PendingStep == TypeOK /\ HistoryIsGapless /\ Pending /\ [Next]_vars => Pending'
  <1> SUFFICES ASSUME TypeOK, HistoryIsGapless, Pending, [Next]_vars PROVE Pending'
    OBVIOUS
  <1>1. ASSUME NEW ctx \in Callers, NEW r \in Requests, NEW d \in Documents, NEW dept \in Departments,
               NEW c \in Categories, NEW visibility \in VisibilityInputs,
               BeginCreate(r, ctx, d, dept, c, visibility)
        PROVE  Pending'
    <2> DEFINE row == [dept |-> dept, category |-> c, visibility |-> visibility,
                       archived |-> FALSE, current |-> 1]
    <2>1. /\ req' = [req EXCEPT ![r] = [op |-> "upload", doc |-> d, row |-> row, number |-> 1,
                                        key |-> NoKey]]
          /\ d \notin Live /\ \A q \in Requests : req[q] # Idle => req[q].doc # d
          /\ c \in Filed /\ Live' = Live /\ document' = document /\ Filed' = Filed
      BY <1>1 DEF BeginCreate, FreshDocument, InUse, Live, Filed
    <2>2. row \in DocumentRow /\ row # NoDocument
      <3>1. row \in DocumentRow
        BY VaultAssumption DEF DocumentRow, Numbers
      <3>2. QED
        BY <3>1, VaultAssumption
    <2>3. \A q \in Requests \ {r} : req'[q] = req[q]
      BY <2>1 DEF TypeOK
    <2>4. /\ req'[r].row = row /\ req'[r].doc = d /\ req'[r].number = 1
          /\ row.current = 1 /\ row.category = c
      BY <2>1 DEF TypeOK
    <2> HIDE DEF row
    <2> SUFFICES ASSUME NEW q \in Requests, Uploading(q)'
        PROVE  /\ req'[q].row # NoDocument =>
                    /\ req'[q].doc \notin Live' /\ req'[q].number = 1 /\ req'[q].row.current = 1
                    /\ req'[q].row.category \in Filed'
                    /\ \A x \in Requests \ {q} : req'[x] # Idle => req'[x].doc # req'[q].doc
               /\ req'[q].row = NoDocument /\ req'[q].doc \in Live' =>
                    req'[q].number <= document'[req'[q].doc].current + 1
      BY DEF Pending
    <2>5. CASE q = r
      BY <2>1, <2>2, <2>3, <2>4, <2>5
    <2>6. CASE q # r
      <3>1. Uploading(q) /\ req'[q] = req[q] /\ req[q].doc # d
        BY <2>1, <2>3, <2>6, Kinds DEF Uploading
      <3>2. QED
        BY <2>1, <2>3, <2>4, <3>1 DEF Pending
    <2>7. QED
      BY <2>5, <2>6
  <1>2. ASSUME NEW ctx \in Callers, NEW r \in Requests, NEW d \in Documents, BeginAppend(r, ctx, d)
        PROVE  Pending'
    <2>1. PICK n \in Numbers : NextNumber(d, n) /\ req' = [req EXCEPT ![r] =
            [op |-> "upload", doc |-> d, row |-> NoDocument, number |-> n, key |-> NoKey]]
      BY <1>2 DEF BeginAppend
    <2>2. d \in Live /\ UNCHANGED <<document, category>> /\ Live' = Live /\ Filed' = Filed
      BY <1>2 DEF BeginAppend, CanRead, Live, Filed
    <2>3. n <= document[d].current + 1
      <3>1. VersionsOf(d) = 1..document[d].current /\ document[d].current \in Numbers
        BY <2>2, LiveRow DEF HistoryIsGapless
      <3>2. QED
        BY <2>1, <3>1 DEF NextNumber, Numbers
    <2>4. /\ \A q \in Requests \ {r} : req'[q] = req[q]
          /\ req'[r].row = NoDocument /\ req'[r].doc = d /\ req'[r].number = n
      BY <2>1 DEF TypeOK
    <2> SUFFICES ASSUME NEW q \in Requests, Uploading(q)'
        PROVE  /\ req'[q].row # NoDocument =>
                    /\ req'[q].doc \notin Live' /\ req'[q].number = 1 /\ req'[q].row.current = 1
                    /\ req'[q].row.category \in Filed'
                    /\ \A x \in Requests \ {q} : req'[x] # Idle => req'[x].doc # req'[q].doc
               /\ req'[q].row = NoDocument /\ req'[q].doc \in Live' =>
                    req'[q].number <= document'[req'[q].doc].current + 1
      BY DEF Pending
    <2>5. CASE q = r
      BY <2>2, <2>3, <2>4, <2>5
    <2>6. CASE q # r
      <3>1. Uploading(q) /\ req'[q] = req[q]
        BY <2>4, <2>6 DEF Uploading
      <3>2. QED
        BY <2>2, <2>4, <3>1 DEF Pending
    <2>7. QED
      BY <2>5, <2>6
  <1>3. ASSUME NEW ctx \in Callers, NEW r \in Requests, NEW d \in Documents, BeginDelete(r, ctx, d)
        PROVE  Pending'
    <2>1. /\ req' = [req EXCEPT ![r] = [op |-> "delete", doc |-> d, left |-> KeysOf(d)]]
          /\ d \in Live /\ UNCHANGED <<document, category>> /\ Live' = Live /\ Filed' = Filed
      BY <1>3 DEF BeginDelete, CanRead, Live, Filed
    <2>2. \A q \in Requests \ {r} : req'[q] = req[q]
      BY <2>1 DEF TypeOK
    <2>3. req'[r].doc = d /\ ~Uploading(r)'
      BY <2>1 DEF TypeOK, Uploading
    <2> SUFFICES ASSUME NEW q \in Requests \ {r}, Uploading(q)'
        PROVE  /\ req'[q].row # NoDocument =>
                    /\ req'[q].doc \notin Live' /\ req'[q].number = 1 /\ req'[q].row.current = 1
                    /\ req'[q].row.category \in Filed'
                    /\ \A x \in Requests \ {q} : req'[x] # Idle => req'[x].doc # req'[q].doc
               /\ req'[q].row = NoDocument /\ req'[q].doc \in Live' =>
                    req'[q].number <= document'[req'[q].doc].current + 1
      BY <2>3 DEF Pending
    <2>4. Uploading(q) /\ req'[q] = req[q]
      BY <2>2 DEF Uploading
    <2>5. QED
      BY <2>1, <2>2, <2>3, <2>4 DEF Pending
  <1>4. ASSUME NEW ctx \in Callers, NEW d \in Documents, NEW c \in Categories,
               NEW visibility \in VisibilityInputs, NEW archived \in BOOLEAN,
               UpdateDocument(ctx, d, c, visibility, archived)
        PROVE  Pending'
    <2>1. Live' = Live /\ \A e \in Documents : document'[e].current = document[e].current
      BY <1>4, Updated
    <2>2. req' = req /\ Filed' = Filed
      BY <1>4 DEF UpdateDocument, Filed
    <2>3. QED
      BY <2>1, <2>2, PendingKept, Kinds DEF Live, Uploading
  <1>5. ASSUME NEW r \in Requests, NEW k \in Keys, WriteObject(r, k) PROVE Pending'
    <2>1. /\ Uploading(r) /\ req'[r].doc = req[r].doc /\ req'[r].row = req[r].row
          /\ req'[r].number = req[r].number /\ \A q \in Requests \ {r} : req'[q] = req[q]
      BY <1>5, WrittenRequest DEF UploadRequest
    <2>2. UNCHANGED <<document, category>> /\ Live' = Live /\ Filed' = Filed
      BY <1>5 DEF WriteObject, Live, Filed
    <2>3. QED
      BY <2>1, <2>2, PendingKept, Kinds DEF Uploading
  <1>6. ASSUME NEW r \in Requests, NEW k \in Keys, DeleteObject(r, k) PROVE Pending'
    <2>1. /\ Deleting(r) /\ req'[r].doc = req[r].doc /\ ~Uploading(r)'
          /\ \A q \in Requests \ {r} : req'[q] = req[q]
      BY <1>6, DeletedRequest DEF DeleteRequest, Uploading
    <2>2. UNCHANGED <<document, category>> /\ Live' = Live /\ Filed' = Filed
      BY <1>6 DEF DeleteObject, Live, Filed
    <2>3. QED
      BY <2>1, <2>2, PendingKept, Kinds DEF Uploading
  <1>7. ASSUME NEW r \in Requests, InsertVersion(r) PROVE Pending'
    <2> DEFINE d == req[r].doc
               n == req[r].number
    <2>1. /\ Uploading(r)
          /\ req[r].row # NoDocument \/ d \in Live
          /\ \A q \in Requests \ {r} : req'[q] = req[q]
          /\ req'[r] = Idle /\ Filed' = Filed
      BY <1>7, Kinds DEF InsertVersion, TypeOK, Filed
    <2>2. Live' = Live \cup {d} /\ \A e \in Documents \ {d} : document'[e] = document[e]
      BY <1>7, InsertedLive
    <2>3. req[r].row = NoDocument => /\ document'[d].current = document[d].current + 1
                                     /\ document[d].current \in Nat
      BY <1>7, AppendsNext
    <2> SUFFICES ASSUME NEW q \in Requests \ {r}, Uploading(q)'
        PROVE  /\ req'[q].row # NoDocument =>
                    /\ req'[q].doc \notin Live' /\ req'[q].number = 1 /\ req'[q].row.current = 1
                    /\ req'[q].row.category \in Filed'
                    /\ \A x \in Requests \ {q} : req'[x] # Idle => req'[x].doc # req'[q].doc
               /\ req'[q].row = NoDocument /\ req'[q].doc \in Live' =>
                    req'[q].number <= document'[req'[q].doc].current + 1
      BY <2>1 DEF Pending, Uploading, Idle
    <2>a. req'[q] = req[q] /\ Uploading(q)
      BY <2>1 DEF Uploading
    <2>4. Uploading(q) /\ req'[q] = req[q] /\ req[q] # Idle /\ req[r] # Idle /\ req[q] \in UploadRequest
      BY <2>1, <2>a, Kinds
    <2>5. ASSUME req[q].row # NoDocument
          PROVE  /\ req[q].doc \notin Live' /\ req[q].number = 1 /\ req[q].row.current = 1
                 /\ req[q].row.category \in Filed'
                 /\ \A x \in Requests \ {q} : req'[x] # Idle => req'[x].doc # req[q].doc
      <3>1. req[q].doc # d
        BY <2>4, <2>5 DEF Pending
      <3>2. QED
        BY <2>1, <2>2, <2>4, <2>5, <3>1 DEF Pending
    <2>6. ASSUME req[q].row = NoDocument, req[q].doc \in Live'
          PROVE  req[q].number <= document'[req[q].doc].current + 1
      <3>1. CASE req[q].doc = d
        <4>1. req[r].row = NoDocument
          <5>1. req[r].row # NoDocument => req[q].doc # req[r].doc
            BY <2>1, <2>4 DEF Pending
          <5>2. QED
            BY <3>1, <5>1
        <4>2. d \in Live /\ req[q].number <= document[d].current + 1
          BY <2>1, <2>4, <2>6, <3>1, <4>1 DEF Pending
        <4>3. req[q].number \in Nat
          BY <2>4 DEF UploadRequest, Numbers
        <4>4. QED
          BY <2>3, <3>1, <4>1, <4>2, <4>3
      <3>2. CASE req[q].doc # d
        BY <2>2, <2>4, <2>6, <3>2 DEF Pending, UploadRequest
      <3>3. QED
        BY <3>1, <3>2
    <2>7. QED
      BY <2>4, <2>5, <2>6
  <1>8. ASSUME NEW r \in Requests, DeleteRows(r) PROVE Pending'
    <2>1. Live' \subseteq Live /\ \A d \in Live' : document'[d] = document[d]
      BY <1>8 DEF DeleteRows, Live, TypeOK
    <2>2. req' = [req EXCEPT ![r] = Idle] /\ Filed' = Filed
      BY <1>8 DEF DeleteRows, Filed
    <2>3. QED
      BY <2>1, <2>2, PendingKept, Kinds DEF Uploading, TypeOK
  <1>9. ASSUME NEW r \in Requests, Fail(r) PROVE Pending'
    <2>1. req' = [req EXCEPT ![r] = Idle] /\ UNCHANGED <<document, category>> /\ Live' = Live /\ Filed' = Filed
      BY <1>9 DEF Fail, Live, Filed
    <2>2. QED
      BY <2>1, PendingKept, Kinds DEF Uploading, TypeOK
  <1>10. ASSUME NEW ctx \in Callers, EditCategories(ctx) PROVE Pending'
    <2>1. UNCHANGED <<document, req>> /\ Live' = Live
      BY <1>10 DEF EditCategories, Live
    <2>2. \A r \in Requests : Uploading(r) /\ req[r].row # NoDocument =>
            (req[r].row.category \in Filed => req[r].row.category \in Filed')
      BY <1>10, HeldStay DEF Holding
    <2>3. QED
      BY <2>1, <2>2 DEF Pending, Uploading
  <1>11. CASE UNCHANGED vars
    <2>1. Live' = Live /\ Filed' = Filed /\ req' = req /\ document' = document
      BY <1>11 DEF vars, Live, Filed
    <2>2. QED
      BY <2>1, PendingKept, Kinds DEF Uploading
  <1>12. QED
    BY <1>1, <1>2, <1>3, <1>4, <1>5, <1>6, <1>7, <1>8, <1>9, <1>10, <1>11 DEF Next

\* What an insertion makes of the numbers.
LEMMA InsertedNumbers ==
  ASSUME TypeOK, HistoryIsGapless, Pending, NEW r \in Requests, InsertVersion(r)
  PROVE  LET d == req[r].doc
             n == req[r].number
         IN  /\ d \in Documents /\ n \in Nat /\ n \in Numbers
             /\ VersionsOf(d) = 1..(n - 1)
             /\ {m \in Numbers : revision'[d][m] # NoKey} = 1..n
             /\ document'[d].current = n
             /\ d \in Live => document[d].current = n - 1
             /\ d \notin Live => n = 1
  <1> DEFINE d == req[r].doc
             n == req[r].number
             row == IF req[r].row # NoDocument THEN req[r].row
                    ELSE [document[d] EXCEPT !.current = n]
  <1>1. /\ Uploading(r) /\ d \in Documents /\ n \in Numbers /\ req[r].key \in Keys
        /\ req[r].row # NoDocument \/ d \in Live
        /\ revision' = [revision EXCEPT ![d][n] = req[r].key]
        /\ row.current = IF req[r].row # NoDocument THEN req[r].row.current ELSE n
        /\ document' = [document EXCEPT ![d] = row]
    BY Inserted
  <1>2. n \in Nat
    BY <1>1 DEF Numbers
  <1>3. {m \in Numbers : revision'[d][m] # NoKey} = VersionsOf(d) \cup {n}
    BY <1>1, VaultAssumption DEF VersionsOf, TypeOK
  <1>4. CASE req[r].row # NoDocument
    <2>1. d \notin Live /\ n = 1 /\ row.current = 1
      BY <1>1, <1>4 DEF Pending
    <2>2. VersionsOf(d) = {}
      BY <1>1, <2>1 DEF HistoryIsGapless
    <2> HIDE DEF row
    <2>3. document'[d].current = 1
      BY <1>1, <2>1 DEF TypeOK
    <2>4. QED
      BY <1>1, <1>3, <2>1, <2>2, <2>3
  <1>5. CASE req[r].row = NoDocument
    <2>1. /\ d \in Live /\ document[d].current \in Nat /\ n = document[d].current + 1
          /\ document'[d].current = document[d].current + 1
      BY <1>5, AppendsNext
    <2>2. VersionsOf(d) = 1..document[d].current
      BY <1>1, <2>1 DEF HistoryIsGapless
    <2>3. {m \in Numbers : revision'[d][m] # NoKey} = 1..n
      BY <1>3, <2>1, <2>2
    <2>4. QED
      BY <1>1, <1>2, <2>1, <2>2, <2>3
  <1>6. QED
    BY <1>4, <1>5

LEMMA GaplessStep == TypeOK /\ HistoryIsGapless /\ Pending /\ [Next]_vars => HistoryIsGapless'
  <1> SUFFICES ASSUME TypeOK, HistoryIsGapless, Pending, [Next]_vars,
                      NEW d \in Documents
               PROVE  VersionsOf(d)' = IF d \in Live' THEN 1..document'[d].current ELSE {}
    BY DEF HistoryIsGapless
  <1>0. VersionsOf(d) = IF d \in Live THEN 1..document[d].current ELSE {}
    BY DEF HistoryIsGapless
  <1>1. CASE UNCHANGED <<document, revision>>
    BY <1>0, <1>1 DEF VersionsOf, Live
  <1>2. ASSUME NEW ctx \in Callers, NEW e \in Documents, NEW c \in Categories,
               NEW visibility \in VisibilityInputs, NEW archived \in BOOLEAN,
               UpdateDocument(ctx, e, c, visibility, archived)
        PROVE  VersionsOf(d)' = IF d \in Live' THEN 1..document'[d].current ELSE {}
    BY <1>0, <1>2, Updated DEF UpdateDocument, VersionsOf
  <1>3. ASSUME NEW r \in Requests, InsertVersion(r)
        PROVE  VersionsOf(d)' = IF d \in Live' THEN 1..document'[d].current ELSE {}
    <2>1. CASE d = req[r].doc
      BY <1>3, <2>1, InsertedNumbers, InsertedLive DEF VersionsOf
    <2>2. CASE d # req[r].doc
      <3>1. document'[d] = document[d] /\ revision'[d] = revision[d] /\ (d \in Live' <=> d \in Live)
        BY <1>3, <2>2, InsertedLive
      <3>2. QED
        BY <1>0, <3>1 DEF VersionsOf
    <2>3. QED
      BY <2>1, <2>2
  <1>4. ASSUME NEW r \in Requests, DeleteRows(r)
        PROVE  VersionsOf(d)' = IF d \in Live' THEN 1..document'[d].current ELSE {}
    <2>1. CASE d = req[r].doc
      BY <1>4, <2>1 DEF DeleteRows, VersionsOf, Live, NoRevision, TypeOK
    <2>2. CASE d # req[r].doc
      <3>1. document'[d] = document[d] /\ revision'[d] = revision[d] /\ (d \in Live' <=> d \in Live)
        BY <1>4, <2>2 DEF DeleteRows, Live, TypeOK
      <3>2. QED
        BY <1>0, <3>1 DEF VersionsOf
    <2>3. QED
      BY <2>1, <2>2
  <1>5. QED
    BY <1>1, <1>2, <1>3, <1>4 DEF Next, vars, BeginCreate, BeginAppend, BeginDelete, WriteObject,
       DeleteObject, Fail, EditCategories

LEMMA EmptyVault == Init => HistoryIsGapless /\ Pending /\ DocumentsAreFiled
  BY VaultAssumption
  DEF Init, HistoryIsGapless, VersionsOf, Live, NoRevision, Pending, Uploading, Idle, DocumentsAreFiled

\* Histories have no gap and the pointer names the last entry, for every instance: the uploads that
\* are under way never get further than one number ahead.
THEOREM GaplessHistories == Spec => []HistoryIsGapless
  BY EmptyVault, TypeInit, TypeStep, GaplessStep, PendingStep, PTL DEF Spec

LEMMA FiledStep == TypeOK /\ Pending /\ DocumentsAreFiled /\ [Next]_vars => DocumentsAreFiled'
  <1> SUFFICES ASSUME TypeOK, Pending, DocumentsAreFiled, [Next]_vars, NEW d \in Live'
               PROVE  document'[d].category \in Filed'
    BY DEF DocumentsAreFiled
  <1>0. \A e \in Live : e \in Documents /\ document[e].category \in Filed
    BY DEF DocumentsAreFiled, Live
  <1>1. CASE UNCHANGED <<document, category>>
    BY <1>0, <1>1 DEF Live, Filed
  <1>2. ASSUME NEW ctx \in Callers, NEW e \in Documents, NEW c \in Categories,
               NEW visibility \in VisibilityInputs, NEW archived \in BOOLEAN,
               UpdateDocument(ctx, e, c, visibility, archived)
        PROVE  document'[d].category \in Filed'
    <2>1. /\ Live' = Live /\ document'[e].category = c
          /\ \A x \in Documents \ {e} : document'[x] = document[x]
      BY <1>2, Updated
    <2>2. c \in Filed /\ Filed' = Filed
      BY <1>2 DEF UpdateDocument, Filed
    <2>3. QED
      BY <1>0, <2>1, <2>2
  <1>3. ASSUME NEW r \in Requests, InsertVersion(r) PROVE document'[d].category \in Filed'
    <2> DEFINE x == req[r].doc
               row == IF req[r].row # NoDocument THEN req[r].row
                      ELSE [document[x] EXCEPT !.current = req[r].number]
    <2>1. /\ Uploading(r) /\ x \in Documents
          /\ req[r].row # NoDocument \/ x \in Live
          /\ row.category = IF req[r].row # NoDocument THEN req[r].row.category
                            ELSE document[x].category
          /\ document' = [document EXCEPT ![x] = row]
      BY <1>3, Inserted
    <2>2. row.category \in Filed
      BY <1>0, <2>1 DEF Pending
    <2>3. Filed' = Filed
      BY <1>3 DEF InsertVersion, Filed
    <2> HIDE DEF row
    <2>4. CASE d = x
      BY <2>1, <2>2, <2>3, <2>4 DEF TypeOK
    <2>5. CASE d # x
      BY <1>0, <1>3, <2>3, <2>5, InsertedLive
    <2>6. QED
      BY <2>4, <2>5
  <1>4. ASSUME NEW r \in Requests, DeleteRows(r) PROVE document'[d].category \in Filed'
    <2>1. d \in Live /\ document'[d] = document[d]
      BY <1>4 DEF DeleteRows, Live, TypeOK
    <2>2. Filed' = Filed
      BY <1>4 DEF DeleteRows, Filed
    <2>3. QED
      BY <1>0, <2>1, <2>2
  <1>5. ASSUME NEW ctx \in Callers, EditCategories(ctx) PROVE document'[d].category \in Filed'
    <2>1. document' = document /\ d \in Live
      BY <1>5 DEF EditCategories, Live
    <2>2. document[d].category \in Holding \cap Filed
      BY <1>0, <2>1 DEF Holding
    <2>3. QED
      BY <1>5, <2>1, <2>2, HeldStay
  <1>6. QED
    BY <1>1, <1>2, <1>3, <1>4, <1>5 DEF Next, vars, BeginCreate, BeginAppend, BeginDelete, WriteObject,
       DeleteObject, Fail

\* Nothing is left unfiled, for every instance: a category somebody is filing into is not deleted,
\* and with a category goes everything beneath it.
THEOREM FilingStaysIntact == Spec => []FilingIsIntact
  <1>1. Init => ParentsExist
    BY VaultAssumption DEF Init, ParentsExist, Filed, CategoryRow
  <1>2. DocumentsAreFiled /\ ParentsExist => FilingIsIntact
    BY DEF FilingIsIntact
  <1>3. QED
    BY <1>1, <1>2, EmptyVault, TypeInit, TypeStep, GaplessStep, PendingStep, FiledStep, ParentsStep,
       PTL DEF Spec

-----------------------------------------------------------------------------
\* Subtrees: what is in one, and what a set must have to contain one.
LEMMA SubtreeFacts ==
  ASSUME NEW c \in Filed
  PROVE  /\ Subtree(c) \subseteq Filed /\ c \in Subtree(c)
         /\ ChildrenOf(Subtree(c)) \subseteq Subtree(c)
         /\ \A S \in SUBSET Filed : c \in S /\ ChildrenOf(S) \subseteq S => Subtree(c) \subseteq S
  <1>1. c \in Categories
    BY DEF Filed
  <1>2. ChildrenOf(Subtree(c)) \subseteq Subtree(c)
    BY <1>1, SubtreeClosed DEF ChildrenOf
  <1>3. QED
    BY <1>2 DEF Subtree

\* Whoever is in a subtree without being its root hangs from a member of it.
LEMMA ParentInSubtree ==
  ASSUME NEW k \in Filed, NEW x \in Subtree(k), x # k
  PROVE  category[x].parent \in Subtree(k)
  <1> DEFINE S == {y \in Subtree(k) : y = k \/ category[y].parent \in Subtree(k)}
  <1>1. S \in SUBSET Filed /\ k \in S
    BY SubtreeFacts
  <1>2. ChildrenOf(S) \subseteq S
    <2>1. ChildrenOf(S) \subseteq ChildrenOf(Subtree(k))
      BY DEF ChildrenOf
    <2>2. QED
      BY <2>1, SubtreeFacts DEF ChildrenOf
  <1> HIDE DEF S
  <1>3. Subtree(k) \subseteq S
    BY <1>1, <1>2, SubtreeFacts
  <1>4. QED
    BY <1>3 DEF S

\* From a cycle no parent pointer leads out: every member of a subtree whose root is in a cycle
\* hangs from a member.
LEMMA CycleClosed ==
  ASSUME NEW c \in Filed, InCycle(c), NEW x \in Subtree(c)
  PROVE  category[x].parent \in Subtree(c)
  <1>1. CASE x # c
    BY <1>1, ParentInSubtree
  <1>2. CASE x = c
    <2>1. PICK k \in Filed : category[k].parent = c /\ c \in Subtree(k)
      BY DEF InCycle, ChildrenOf
    <2>2. k \in Subtree(c)
      BY <2>1, SubtreeFacts DEF ChildrenOf
    <2>3. Subtree(k) \subseteq Subtree(c)
      BY <2>2, SubtreeFacts
    <2>4. CASE k = c
      BY <1>2, <2>1, <2>4, SubtreeFacts
    <2>5. CASE k # c
      BY <1>2, <2>1, <2>3, <2>5, ParentInSubtree
    <2>6. QED
      BY <2>4, <2>5
  <1>3. QED
    BY <1>1, <1>2

LEMMA OutsideCycle ==
  ASSUME NEW c \in Filed, InCycle(c)
  PROVE  ChildrenOf(Filed \ Subtree(c)) \subseteq Filed \ Subtree(c)
  BY CycleClosed DEF ChildrenOf

\* Whoever has a member of a cycle beneath it is in the cycle itself.
LEMMA CycleAbove ==
  ASSUME NEW k \in Filed, NEW c \in Subtree(k), InCycle(c)
  PROVE  InCycle(k)
  <1> DEFINE U == {k} \cup UNION {Subtree(m) : m \in ChildrenOf({k})}
  <1>1. c \in Filed /\ c \in Subtree(c) /\ Subtree(c) \subseteq Subtree(k)
    BY SubtreeFacts
  <1>2. k \in Subtree(c)
    <2>1. Filed \ Subtree(c) \in SUBSET Filed /\ ChildrenOf(Filed \ Subtree(c)) \subseteq Filed \ Subtree(c)
      BY <1>1, OutsideCycle
    <2>2. k \in Filed \ Subtree(c) => Subtree(k) \subseteq Filed \ Subtree(c)
      BY <2>1, SubtreeFacts
    <2>3. QED
      BY <1>1, <2>2
  <1>3. category[k].parent \in Subtree(k)
    BY <1>1, <1>2, CycleClosed
  <1>4. ChildrenOf({k}) \subseteq Filed
    BY DEF ChildrenOf
  <1>5. Subtree(k) \subseteq U
    <2>1. U \in SUBSET Filed /\ k \in U
      BY <1>4, SubtreeFacts
    <2>2. ASSUME NEW y \in ChildrenOf(U) PROVE y \in U
      <3>1. y \in Filed /\ category[y].parent \in U
        BY <2>2 DEF ChildrenOf
      <3>2. CASE category[y].parent = k
        <4>1. y \in ChildrenOf({k}) /\ y \in Subtree(y)
          BY <3>1, <3>2, SubtreeFacts DEF ChildrenOf
        <4>2. QED
          BY <4>1
      <3>3. ASSUME NEW m \in ChildrenOf({k}), category[y].parent \in Subtree(m) PROVE y \in U
        <4>1. y \in Subtree(m)
          BY <1>4, <3>1, <3>3, SubtreeFacts DEF ChildrenOf
        <4>2. QED
          BY <4>1
      <3>4. QED
        BY <3>1, <3>2, <3>3
    <2> HIDE DEF U
    <2>3. QED
      BY <2>1, <2>2, SubtreeFacts
  <1>6. CASE category[k].parent = k
    <2>1. k \in ChildrenOf({k}) /\ k \in Subtree(k)
      BY <1>6, SubtreeFacts DEF ChildrenOf
    <2>2. QED
      BY <2>1 DEF InCycle
  <1>7. ASSUME NEW m \in ChildrenOf({k}), category[k].parent \in Subtree(m) PROVE InCycle(k)
    <2>1. k \in Subtree(m)
      BY <1>4, <1>7, SubtreeFacts DEF ChildrenOf
    <2>2. QED
      BY <2>1 DEF InCycle
  <1>8. QED
    BY <1>3, <1>5, <1>6, <1>7

LEMMA CycleHidden ==
  ASSUME NEW c \in Filed, InCycle(c)
  PROVE  c \notin Listing(Filed)
  <1> DEFINE S == Filed \ Subtree(c)
             roots == {k \in Filed : category[k].parent \notin Filed}
  <1>1. roots \subseteq S
    BY CycleClosed, SubtreeFacts
  <1>2. S \in SUBSET Filed /\ ChildrenOf(S) \cap Filed \subseteq S /\ c \notin S
    BY OutsideCycle, SubtreeFacts
  <1> HIDE DEF S
  <1>3. QED
    BY <1>1, <1>2 DEF Listing

LEMMA StuckStep ==
  ASSUME TypeOK, [Next]_vars, NEW c \in Filed, InCycle(c)
  PROVE  category'[c] # NoCategory
  <1>0. c \in Categories /\ category[c] # NoCategory
    BY DEF Filed
  <1>1. CASE UNCHANGED category
    BY <1>0, <1>1
  <1>2. ASSUME NEW ctx \in Callers, NEW k \in Categories, NEW slug \in Slugs,
               NEW dept \in Departments \cup {Shared}, NEW parent \in Categories \cup {NoCategory},
               CreateCategory(ctx, k, slug, dept, parent)
        PROVE  category'[c] # NoCategory
    BY <1>0, <1>2 DEF CreateCategory, TypeOK
  <1>3. ASSUME NEW ctx \in Callers, NEW k \in Categories, NEW parent \in Categories \cup {NoCategory},
               MoveCategory(ctx, k, parent)
        PROVE  category'[c] # NoCategory
    <2>1. category[k] \in CategoryRow /\ parent \in Categories \cup {NoCategory}
      BY <1>3 DEF MoveCategory, Filed, TypeOK
    <2>2. [category[k] EXCEPT !.parent = parent] \in CategoryRow
      BY <2>1 DEF CategoryRow
    <2>3. category' = [category EXCEPT ![k] = [category[k] EXCEPT !.parent = parent]]
      BY <1>3 DEF MoveCategory
    <2>4. QED
      BY <1>0, <2>2, <2>3, VaultAssumption DEF TypeOK
  <1>4. ASSUME NEW ctx \in Callers, NEW k \in Categories, DeleteCategory(ctx, k, Holding)
        PROVE  category'[c] # NoCategory
    <2>1. k \in Filed /\ ~InCycle(k)
          /\ category' = [x \in Categories |-> IF x \in Subtree(k) THEN NoCategory ELSE category[x]]
      BY <1>4 DEF DeleteCategory
    <2>2. c \notin Subtree(k)
      BY <2>1, CycleAbove
    <2>3. QED
      BY <1>0, <2>1, <2>2
  <1>5. QED
    BY <1>1, <1>2, <1>3, <1>4, OnlyEditsCategories DEF EditCategories

\* Categories moved beneath each other are hidden and undeletable until they are moved again, for
\* every tree: a parent pointer never leads out of a cycle, so nothing outside it reaches it, neither
\* a listing nor a cascading deletion.
THEOREM CyclesStayStuck == Spec => CyclesAreStuck
  <1>1. TypeOK /\ [Next]_vars =>
          [\A c \in Filed : InCycle(c) => c \notin Listing(Filed) /\ category'[c] # NoCategory]_vars
    BY CycleHidden, StuckStep
  <1>2. QED
    BY <1>1, TypeInit, TypeStep, PTL DEF Spec, CyclesAreStuck

-----------------------------------------------------------------------------
\* A key is in one place: in one row, or in the hands of one upload, whose bytes are in the store;
\* a deletion holds keys of its own document only, and that document is condemned or gone.
UploadsOwn ==
  \A r \in Requests : Uploading(r) /\ req[r].key # NoKey =>
    /\ req[r].key \in objects
    /\ \A d \in Documents : req[r].key \notin KeysOf(d)
    /\ \A q \in Requests \ {r} : Uploading(q) => req[q].key # req[r].key
    /\ \A q \in Requests : Deleting(q) => req[r].key \notin req[q].left

DeletionsOwn ==
  \A r \in Requests : Deleting(r) =>
    /\ req[r].doc \in condemned \/ req[r].doc \notin Live
    /\ \A d \in Documents : KeysOf(d) \cap req[r].left # {} => d = req[r].doc

RowsOwn ==
  \A d, e \in Documents, n, m \in Numbers :
    revision[d][n] # NoKey /\ revision[d][n] = revision[e][m] => d = e /\ n = m

KeysOnce == UploadsOwn /\ DeletionsOwn /\ RowsOwn

LEMMA InsertedKeys ==
  ASSUME TypeOK, NEW r \in Requests, InsertVersion(r)
  PROVE  LET d == req[r].doc
             k == req[r].key
         IN  /\ Uploading(r) /\ k \in Keys /\ k # NoKey /\ d \in Documents
             /\ \A e \in Documents : KeysOf(e)' = IF e = d THEN KeysOf(e) \cup {k} ELSE KeysOf(e)
  <1> DEFINE d == req[r].doc
             n == req[r].number
             k == req[r].key
  <1>1. /\ Uploading(r) /\ d \in Documents /\ n \in Numbers /\ k \in Keys /\ revision[d][n] = NoKey
        /\ revision' = [revision EXCEPT ![d][n] = k]
    BY Inserted
  <1>2. k # NoKey
    BY <1>1, VaultAssumption
  <1>3. ASSUME NEW e \in Documents
        PROVE  KeysOf(e)' = IF e = d THEN KeysOf(e) \cup {k} ELSE KeysOf(e)
    <2> HIDE DEF d, n, k
    <2>1. CASE e = d
      <3>1. revision'[e][n] = k /\ \A m \in Numbers \ {n} : revision'[e][m] = revision[e][m]
        BY <1>1, <2>1 DEF TypeOK
      <3>2. VersionsOf(e)' = VersionsOf(e) \cup {n} /\ n \notin VersionsOf(e)
        BY <1>1, <1>2, <2>1, <3>1 DEF VersionsOf
      <3>3. QED
        BY <2>1, <3>1, <3>2 DEF KeysOf, VersionsOf
    <2>2. CASE e # d
      <3>1. revision'[e] = revision[e]
        BY <1>1, <2>2 DEF TypeOK
      <3>2. QED
        BY <2>2, <3>1 DEF KeysOf, VersionsOf
    <2>3. QED
      BY <2>1, <2>2
  <1>4. QED
    BY <1>1, <1>2, <1>3

LEMMA ClearedKeys ==
  ASSUME TypeOK, NEW r \in Requests, DeleteRows(r)
  PROVE  /\ Deleting(r) /\ req[r].doc \in Documents /\ Live' = Live \ {req[r].doc}
         /\ \A e \in Documents : revision'[e] = IF e = req[r].doc THEN NoRevision ELSE revision[e]
         /\ \A e \in Documents : KeysOf(e)' = IF e = req[r].doc THEN {} ELSE KeysOf(e)
         /\ req'[r] = Idle /\ \A q \in Requests \ {r} : req'[q] = req[q]
  <1> DEFINE d == req[r].doc
  <1>1. Deleting(r) /\ d \in Documents
    BY Kinds DEF DeleteRows, DeleteRequest
  <1>2. /\ document' = [document EXCEPT ![d] = NoDocument]
        /\ revision' = [revision EXCEPT ![d] = NoRevision]
        /\ req' = [req EXCEPT ![r] = Idle]
    BY DEF DeleteRows
  <1>3. \A e \in Documents : revision'[e] = IF e = d THEN NoRevision ELSE revision[e]
    BY <1>1, <1>2 DEF TypeOK
  <1>4. Live' = Live \ {d}
    BY <1>1, <1>2 DEF Live, TypeOK
  <1>5. ASSUME NEW e \in Documents PROVE KeysOf(e)' = IF e = d THEN {} ELSE KeysOf(e)
    BY <1>3 DEF KeysOf, VersionsOf, NoRevision
  <1>6. QED
    BY <1>1, <1>2, <1>3, <1>4, <1>5 DEF TypeOK

\* A step that touches no row, and of the requests only ends some, keeps the keys where they are.
LEMMA KeysKept ==
  ASSUME TypeOK, KeysOnce, revision' = revision, condemned \subseteq condemned', Live' \subseteq Live,
         \A r \in Requests : \/ req'[r] = req[r]
                             \/ ~Uploading(r)' /\ ~Deleting(r)'
                             \/ Uploading(r)' /\ ~Deleting(r)' /\ req'[r].key = NoKey,
         \A r \in Requests : Uploading(r)' /\ req'[r].key # NoKey => req'[r].key \in objects'
  PROVE  KeysOnce'
  <1>1. \A d \in Documents : KeysOf(d)' = KeysOf(d)
    BY DEF KeysOf, VersionsOf
  <1>2. RowsOwn'
    BY DEF KeysOnce, RowsOwn
  <1>3. \A r \in Requests : Uploading(r)' /\ req'[r].key # NoKey => req'[r] = req[r] /\ Uploading(r)
    BY DEF Uploading
  <1>4. \A r \in Requests : Deleting(r)' => req'[r] = req[r] /\ Deleting(r)
    BY DEF Deleting
  <1>5. UploadsOwn'
    <2> SUFFICES ASSUME NEW r \in Requests, Uploading(r)', req'[r].key # NoKey
        PROVE  /\ req'[r].key \in objects'
               /\ \A d \in Documents : req'[r].key \notin KeysOf(d)'
               /\ \A q \in Requests \ {r} : Uploading(q)' => req'[q].key # req'[r].key
               /\ \A q \in Requests : Deleting(q)' => req'[r].key \notin req'[q].left
      BY DEF UploadsOwn
    <2>1. req'[r] = req[r] /\ Uploading(r)
      BY <1>3
    <2>2. ASSUME NEW q \in Requests \ {r}, Uploading(q)' PROVE req'[q].key # req'[r].key
      <3>1. CASE req'[q].key = NoKey
        BY <3>1
      <3>2. CASE req'[q].key # NoKey
        BY <1>3, <2>1, <2>2, <3>2 DEF KeysOnce, UploadsOwn
      <3>3. QED
        BY <3>1, <3>2
    <2>3. ASSUME NEW q \in Requests, Deleting(q)' PROVE req'[r].key \notin req'[q].left
      BY <1>4, <2>1, <2>3 DEF KeysOnce, UploadsOwn
    <2>4. QED
      BY <1>1, <2>1, <2>2, <2>3 DEF KeysOnce, UploadsOwn
  <1>6. DeletionsOwn'
    BY <1>1, <1>4 DEF KeysOnce, DeletionsOwn
  <1>7. QED
    BY <1>2, <1>5, <1>6 DEF KeysOnce

LEMMA KeysOnceStep ==
  TypeOK /\ Pending /\ KeysOnce /\ [Next]_vars => KeysOnce'
  <1> SUFFICES ASSUME TypeOK, Pending, KeysOnce, [Next]_vars PROVE KeysOnce'
    OBVIOUS
  <1>0. \A r \in Requests : Uploading(r) /\ req[r].key # NoKey => req[r].key \in objects
    BY DEF KeysOnce, UploadsOwn
  <1>1. ASSUME NEW ctx \in Callers, NEW r \in Requests, NEW d \in Documents, NEW dept \in Departments,
               NEW c \in Categories, NEW visibility \in VisibilityInputs,
               BeginCreate(r, ctx, d, dept, c, visibility)
        PROVE  KeysOnce'
    <2>1. /\ Uploading(r)' /\ ~Deleting(r)' /\ req'[r].key = NoKey
          /\ \A q \in Requests \ {r} : req'[q] = req[q]
      BY <1>1 DEF BeginCreate, TypeOK, Uploading, Deleting
    <2>2. UNCHANGED <<document, revision, objects, condemned>> /\ Live' = Live
      BY <1>1 DEF BeginCreate, Live
    <2>3. QED
      BY <1>0, <2>1, <2>2, KeysKept DEF Uploading
  <1>2. ASSUME NEW ctx \in Callers, NEW r \in Requests, NEW d \in Documents, BeginAppend(r, ctx, d)
        PROVE  KeysOnce'
    <2>1. /\ Uploading(r)' /\ ~Deleting(r)' /\ req'[r].key = NoKey
          /\ \A q \in Requests \ {r} : req'[q] = req[q]
      BY <1>2 DEF BeginAppend, TypeOK, Uploading, Deleting
    <2>2. UNCHANGED <<document, revision, objects, condemned>> /\ Live' = Live
      BY <1>2 DEF BeginAppend, Live
    <2>3. QED
      BY <1>0, <2>1, <2>2, KeysKept DEF Uploading
  <1>3. ASSUME NEW ctx \in Callers, NEW r \in Requests, NEW d \in Documents, BeginDelete(r, ctx, d)
        PROVE  KeysOnce'
    <2>1. /\ ~Uploading(r)' /\ Deleting(r)' /\ req'[r].left = KeysOf(d) /\ req'[r].doc = d
          /\ \A q \in Requests \ {r} : req'[q] = req[q]
      BY <1>3 DEF BeginDelete, TypeOK, Uploading, Deleting
    <2>2. UNCHANGED <<document, revision, objects>> /\ Live' = Live /\ condemned' = condemned \cup {d}
            /\ \A e \in Documents : KeysOf(e)' = KeysOf(e)
      BY <1>3 DEF BeginDelete, Live, KeysOf, VersionsOf
    <2>3. \A e \in Documents : KeysOf(e) \cap KeysOf(d) # {} => e = d
      BY DEF KeysOnce, RowsOwn, KeysOf, VersionsOf
    <2>4. UploadsOwn'
      BY <2>1, <2>2 DEF KeysOnce, UploadsOwn, Uploading, Deleting
    <2>5. DeletionsOwn'
      BY <2>1, <2>2, <2>3 DEF KeysOnce, DeletionsOwn, Deleting
    <2>6. QED
      BY <2>2, <2>4, <2>5 DEF KeysOnce, RowsOwn
  <1>4. ASSUME NEW ctx \in Callers, NEW d \in Documents, NEW c \in Categories,
               NEW visibility \in VisibilityInputs, NEW archived \in BOOLEAN,
               UpdateDocument(ctx, d, c, visibility, archived)
        PROVE  KeysOnce'
    <2>1. Live' = Live /\ UNCHANGED <<revision, objects, req, condemned>>
      BY <1>4, Updated DEF UpdateDocument
    <2>2. QED
      BY <1>0, <2>1, KeysKept DEF Uploading
  <1>5. ASSUME NEW r \in Requests, NEW k \in Keys, WriteObject(r, k) PROVE KeysOnce'
    <2>1. /\ Uploading(r) /\ Uploading(r)' /\ ~Deleting(r)' /\ req'[r].key = k
          /\ \A q \in Requests \ {r} : req'[q] = req[q]
      <3>1. /\ Uploading(r) /\ req[r] \in UploadRequest
            /\ req'[r] = [req[r] EXCEPT !.key = k] /\ req'[r] \in UploadRequest
            /\ \A q \in Requests \ {r} : req'[q] = req[q]
        BY <1>5, WrittenRequest
      <3>2. req'[r].op = "upload" /\ req'[r].key = k
        BY <3>1 DEF UploadRequest
      <3>3. QED
        BY <3>1, <3>2 DEF Uploading, Deleting
    <2>2. UNCHANGED <<document, revision, condemned>> /\ Live' = Live /\ objects' = objects \cup {k}
            /\ \A e \in Documents : KeysOf(e)' = KeysOf(e)
      BY <1>5 DEF WriteObject, Live, KeysOf, VersionsOf
    <2>3. /\ \A e \in Documents : k \notin KeysOf(e)
          /\ \A q \in Requests : (Uploading(q) => req[q].key # k) /\ (Deleting(q) => k \notin req[q].left)
      BY <1>5 DEF WriteObject, FreshKey
    <2>4. UploadsOwn'
      <3> SUFFICES ASSUME NEW q \in Requests, Uploading(q)', req'[q].key # NoKey
          PROVE  /\ req'[q].key \in objects'
                 /\ \A e \in Documents : req'[q].key \notin KeysOf(e)'
                 /\ \A x \in Requests \ {q} : Uploading(x)' => req'[x].key # req'[q].key
                 /\ \A x \in Requests : Deleting(x)' => req'[q].key \notin req'[x].left
        BY DEF UploadsOwn
      <3>1. CASE q = r
        BY <2>1, <2>2, <2>3, <3>1 DEF Uploading, Deleting
      <3>2. CASE q # r
        BY <2>1, <2>2, <2>3, <3>2 DEF KeysOnce, UploadsOwn, Uploading, Deleting
      <3>3. QED
        BY <3>1, <3>2
    <2>5. DeletionsOwn'
      BY <2>1, <2>2 DEF KeysOnce, DeletionsOwn, Deleting
    <2>6. QED
      BY <2>2, <2>4, <2>5 DEF KeysOnce, RowsOwn
  <1>6. ASSUME NEW r \in Requests, NEW k \in Keys, DeleteObject(r, k) PROVE KeysOnce'
    <2>1. /\ Deleting(r) /\ ~Uploading(r)' /\ Deleting(r)' /\ req'[r].doc = req[r].doc
          /\ k \in req[r].left /\ req'[r].left \subseteq req[r].left
          /\ \A q \in Requests \ {r} : req'[q] = req[q]
      <3>1. /\ Deleting(r) /\ req[r] \in DeleteRequest /\ k \in req[r].left
            /\ req'[r] = [req[r] EXCEPT !.left = req[r].left \ {k}] /\ req'[r] \in DeleteRequest
            /\ \A q \in Requests \ {r} : req'[q] = req[q]
        BY <1>6, DeletedRequest
      <3>2. req'[r].op = "delete" /\ req'[r].doc = req[r].doc /\ req'[r].left \subseteq req[r].left
        BY <3>1 DEF DeleteRequest
      <3>3. QED
        BY <3>1, <3>2 DEF Uploading, Deleting
    <2>2. UNCHANGED <<document, revision, condemned>> /\ Live' = Live /\ objects' = objects \ {k}
            /\ \A e \in Documents : KeysOf(e)' = KeysOf(e)
      BY <1>6 DEF DeleteObject, Live, KeysOf, VersionsOf
    <2>3. UploadsOwn'
      BY <2>1, <2>2 DEF KeysOnce, UploadsOwn, Uploading, Deleting
    <2>4. DeletionsOwn'
      BY <2>1, <2>2 DEF KeysOnce, DeletionsOwn, Deleting
    <2>5. QED
      BY <2>2, <2>3, <2>4 DEF KeysOnce, RowsOwn
  <1>7. ASSUME NEW r \in Requests, InsertVersion(r) PROVE KeysOnce'
    <2> DEFINE d == req[r].doc
               n == req[r].number
               k == req[r].key
    <2>1. /\ Uploading(r) /\ k \in Keys /\ k # NoKey /\ d \in Documents
          /\ \A e \in Documents : KeysOf(e)' = IF e = d THEN KeysOf(e) \cup {k} ELSE KeysOf(e)
      BY <1>7, InsertedKeys
    <2>2. /\ ~Uploading(r)' /\ ~Deleting(r)' /\ \A q \in Requests \ {r} : req'[q] = req[q]
          /\ UNCHANGED <<objects, condemned>>
      BY <1>7 DEF InsertVersion, Uploading, Deleting, Idle, TypeOK
    <2>3. /\ \A e \in Documents : k \notin KeysOf(e)
          /\ \A q \in Requests \ {r} : Uploading(q) => req[q].key # k
          /\ \A q \in Requests : Deleting(q) => k \notin req[q].left
      BY <2>1 DEF KeysOnce, UploadsOwn
    <2>4. n \in Numbers /\ revision' = [revision EXCEPT ![d][n] = k]
      BY <1>7, Inserted
    <2>5. Live' = Live \cup {d}
      BY <1>7, InsertedLive
    <2>6. \A q \in Requests : Deleting(q) /\ req[q].doc = d => d \in Live
      <3>1. req[r].row # NoDocument \/ d \in Live
        BY <1>7 DEF InsertVersion
      <3>2. \A q \in Requests \ {r} : req[r].row # NoDocument /\ req[q] # Idle => req[q].doc # d
        BY <2>1 DEF Pending
      <3>3. \A q \in Requests : Deleting(q) => q # r /\ req[q] # Idle
        BY <2>1, Kinds
      <3>4. QED
        BY <3>1, <3>2, <3>3
    <2> HIDE DEF d, n, k
    <2>7. UploadsOwn'
      BY <2>1, <2>2, <2>3 DEF KeysOnce, UploadsOwn, Uploading, Deleting
    <2>8. DeletionsOwn'
      BY <2>1, <2>2, <2>3, <2>5, <2>6 DEF KeysOnce, DeletionsOwn, Deleting
    <2>9. RowsOwn'
      <3>1. \A e \in Documents, m \in Numbers :
              /\ revision'[e][m] = IF e = d /\ m = n THEN k ELSE revision[e][m]
              /\ revision[e][m] # k
        BY <2>1, <2>3, <2>4 DEF TypeOK, KeysOf, VersionsOf
      <3>2. QED
        BY <3>1 DEF KeysOnce, RowsOwn
    <2>10. QED
      BY <2>7, <2>8, <2>9 DEF KeysOnce
  <1>8. ASSUME NEW r \in Requests, DeleteRows(r) PROVE KeysOnce'
    <2> DEFINE d == req[r].doc
    <2>1. /\ d \in Documents /\ Live' = Live \ {d}
          /\ \A e \in Documents : revision'[e] = IF e = d THEN NoRevision ELSE revision[e]
          /\ \A e \in Documents : KeysOf(e)' = IF e = d THEN {} ELSE KeysOf(e)
          /\ req'[r] = Idle /\ \A q \in Requests \ {r} : req'[q] = req[q]
      BY <1>8, ClearedKeys
    <2>2. objects' = objects /\ condemned' = condemned \ {d}
      BY <1>8 DEF DeleteRows
    <2> HIDE DEF d
    <2>3. UploadsOwn'
      BY <2>1, <2>2 DEF KeysOnce, UploadsOwn, Uploading, Deleting, Idle
    <2>4. DeletionsOwn'
      BY <2>1, <2>2 DEF KeysOnce, DeletionsOwn, Deleting, Idle
    <2>5. RowsOwn'
      <3>1. \A e \in Documents, m \in Numbers : revision'[e][m] # NoKey => revision'[e] = revision[e]
        BY <2>1 DEF NoRevision
      <3>2. QED
        BY <3>1 DEF KeysOnce, RowsOwn
    <2>6. QED
      BY <2>3, <2>4, <2>5 DEF KeysOnce
  <1>9. ASSUME NEW r \in Requests, Fail(r) PROVE KeysOnce'
    <2>1. req' = [req EXCEPT ![r] = Idle] /\ UNCHANGED <<document, revision, objects, condemned>> /\ Live' = Live
      BY <1>9 DEF Fail, Live
    <2>2. ~Uploading(r)' /\ ~Deleting(r)' /\ \A q \in Requests \ {r} : req'[q] = req[q]
      BY <2>1 DEF Uploading, Deleting, Idle, TypeOK
    <2>3. QED
      BY <1>0, <2>1, <2>2, KeysKept DEF Uploading
  <1>10. CASE UNCHANGED <<document, revision, objects, req, condemned>>
    <2>1. Live' = Live
      BY <1>10 DEF Live
    <2>2. QED
      BY <1>0, <1>10, <2>1, KeysKept DEF Uploading
  <1>11. QED
    BY <1>1, <1>2, <1>3, <1>4, <1>5, <1>6, <1>7, <1>8, <1>9, <1>10 DEF Next, vars, EditCategories

-----------------------------------------------------------------------------
LEMMA LossesStep ==
  TypeOK /\ HistoryIsGapless /\ KeysOnce /\ LossesAreDeletions /\ [Next]_vars => LossesAreDeletions'
  <1> SUFFICES ASSUME TypeOK, HistoryIsGapless, KeysOnce, LossesAreDeletions, [Next]_vars,
                      NEW d \in Documents
               PROVE  KeysOf(d)' \subseteq objects' \/ d \in condemned'
    BY DEF LossesAreDeletions
  <1>0. KeysOf(d) \subseteq objects \/ d \in condemned
    BY DEF LossesAreDeletions
  <1>1. CASE revision' = revision /\ objects \subseteq objects' /\ condemned \subseteq condemned'
    <2>1. KeysOf(d)' = KeysOf(d)
      BY <1>1 DEF KeysOf, VersionsOf
    <2>2. QED
      BY <1>0, <1>1, <2>1
  <1>2. ASSUME NEW r \in Requests, NEW k \in Keys, DeleteObject(r, k)
        PROVE  KeysOf(d)' \subseteq objects' \/ d \in condemned'
    <2>1. Deleting(r) /\ k \in req[r].left
      BY <1>2 DEF DeleteObject
    <2>2. KeysOf(d)' = KeysOf(d) /\ objects' = objects \ {k} /\ condemned' = condemned
      BY <1>2 DEF DeleteObject, KeysOf, VersionsOf
    <2>3. CASE k \in KeysOf(d)
      <3>1. d = req[r].doc /\ (d \in condemned \/ d \notin Live)
        BY <2>1, <2>3 DEF KeysOnce, DeletionsOwn
      <3>2. d \in Live
        BY <2>3 DEF HistoryIsGapless, KeysOf
      <3>3. QED
        BY <2>2, <3>1, <3>2
    <2>4. CASE k \notin KeysOf(d)
      BY <1>0, <2>2, <2>4
    <2>5. QED
      BY <2>3, <2>4
  <1>3. ASSUME NEW r \in Requests, InsertVersion(r)
        PROVE  KeysOf(d)' \subseteq objects' \/ d \in condemned'
    <2>1. /\ Uploading(r) /\ req[r].key # NoKey
          /\ KeysOf(d)' = IF d = req[r].doc THEN KeysOf(d) \cup {req[r].key} ELSE KeysOf(d)
      BY <1>3, InsertedKeys
    <2>2. req[r].key \in objects
      BY <2>1 DEF KeysOnce, UploadsOwn
    <2>3. UNCHANGED <<objects, condemned>>
      BY <1>3 DEF InsertVersion
    <2>4. QED
      BY <1>0, <2>1, <2>2, <2>3
  <1>4. ASSUME NEW r \in Requests, DeleteRows(r)
        PROVE  KeysOf(d)' \subseteq objects' \/ d \in condemned'
    <2>1. KeysOf(d)' = IF d = req[r].doc THEN {} ELSE KeysOf(d)
      BY <1>4, ClearedKeys
    <2>2. objects' = objects /\ condemned' = condemned \ {req[r].doc}
      BY <1>4 DEF DeleteRows
    <2>3. QED
      BY <1>0, <2>1, <2>2
  <1>5. ASSUME NEW r \in Requests, NEW k \in Keys, WriteObject(r, k)
        PROVE  KeysOf(d)' \subseteq objects' \/ d \in condemned'
    BY <1>1, <1>5 DEF WriteObject
  <1>6. ASSUME NEW ctx \in Callers, NEW r \in Requests, NEW e \in Documents, BeginDelete(r, ctx, e)
        PROVE  KeysOf(d)' \subseteq objects' \/ d \in condemned'
    BY <1>1, <1>6 DEF BeginDelete
  <1>7. CASE UNCHANGED <<revision, objects, condemned>>
    BY <1>1, <1>7
  <1>8. QED
    BY <1>2, <1>3, <1>4, <1>5, <1>6, <1>7 DEF Next, vars, BeginCreate, BeginAppend, UpdateDocument,
       Fail, EditCategories

LEMMA EmptyStore == Init => KeysOnce /\ LossesAreDeletions
  <1> SUFFICES ASSUME Init PROVE KeysOnce /\ LossesAreDeletions
    OBVIOUS
  <1>1. \A d \in Documents : VersionsOf(d) = {} /\ KeysOf(d) = {}
    BY DEF Init, VersionsOf, KeysOf, NoRevision
  <1>2. \A r \in Requests : ~Uploading(r) /\ ~Deleting(r)
    BY DEF Init, Uploading, Deleting, Idle
  <1>3. QED
    BY <1>1, <1>2 DEF KeysOnce, UploadsOwn, DeletionsOwn, RowsOwn, LossesAreDeletions, VersionsOf

\* A version whose bytes are gone belongs to a document somebody began to delete, for every
\* instance: a key is in one place at a time, so no deletion reaches the bytes of another document.
THEOREM OnlyDeletionsLoseBytes == Spec => []LossesAreDeletions
  BY EmptyVault, EmptyStore, TypeInit, TypeStep, GaplessStep, PendingStep, KeysOnceStep, LossesStep,
     PTL DEF Spec

-----------------------------------------------------------------------------
\* The list of a document, as the refinement writes it.
ListOf(d) == IF d \in Live THEN [n \in 1..document[d].current |-> revision[d][n]] ELSE << >>
Lists == [d \in Documents |-> ListOf(d)]

Histories == TypeOK /\ HistoryIsGapless /\ Pending /\ KeysOnce

LEMMA ListIsSeq ==
  ASSUME Histories, NEW d \in Documents
  PROVE  /\ ListOf(d) \in Seq(Keys)
         /\ d \in Live => Len(ListOf(d)) = document[d].current
         /\ d \notin Live => Len(ListOf(d)) = 0
         /\ \A n \in 1..Len(ListOf(d)) : ListOf(d)[n] = revision[d][n]
         /\ \A n \in 1..Len(ListOf(d)) : ListOf(d)[n] \in KeysOf(d)
  <1>1. CASE d \in Live
    <2>1. document[d].current \in Nat /\ VersionsOf(d) = 1..document[d].current
      BY <1>1, LiveRow DEF Histories, HistoryIsGapless, Numbers
    <2>2. \A n \in 1..document[d].current : revision[d][n] \in Keys /\ revision[d][n] \in KeysOf(d)
      BY <2>1 DEF Histories, TypeOK, VersionsOf, KeysOf
    <2>3. ListOf(d) = [n \in 1..document[d].current |-> revision[d][n]]
      BY <1>1 DEF ListOf
    <2>4. ListOf(d) \in Seq(Keys) /\ Len(ListOf(d)) = document[d].current
      BY <2>1, <2>2, <2>3
    <2>5. QED
      BY <1>1, <2>1, <2>2, <2>3, <2>4
  <1>2. CASE d \notin Live
    <2>1. ListOf(d) = << >>
      BY <1>2 DEF ListOf
    <2>2. QED
      BY <1>2, <2>1
  <1>3. QED
    BY <1>1, <1>2

\* Insertion is an upload of a new key at the end of the list.
LEMMA InsertUploads ==
  ASSUME Histories, Histories', NEW r \in Requests, InsertVersion(r)
  PROVE  /\ req[r].doc \in Documents /\ req[r].key \in Keys
         /\ \A e \in Documents : \A n \in 1..Len(ListOf(e)) : ListOf(e)[n] # req[r].key
         /\ Lists' = [Lists EXCEPT ![req[r].doc] = Append(@, req[r].key)]
  <1> DEFINE d == req[r].doc
             n == req[r].number
             k == req[r].key
             new == [m \in 1..n |-> revision'[d][m]]
  <1>1. /\ d \in Documents /\ n \in Nat /\ n \in Numbers
        /\ VersionsOf(d) = 1..(n - 1)
        /\ {m \in Numbers : revision'[d][m] # NoKey} = 1..n
        /\ document'[d].current = n
        /\ d \in Live => document[d].current = n - 1
        /\ d \notin Live => n = 1
    BY InsertedNumbers DEF Histories
  <1>2. k \in Keys /\ revision' = [revision EXCEPT ![d][n] = k]
          /\ revision' \in [Documents -> [Numbers -> Keys \cup {NoKey}]]
    BY Inserted DEF Histories
  <1>3. Live' = Live \cup {d} /\ \A e \in Documents \ {d} : document'[e] = document[e] /\ revision'[e] = revision[e]
    BY InsertedLive DEF Histories
  <1>4. \A e \in Documents : k \notin KeysOf(e)
    <2>1. Uploading(r) /\ k # NoKey
      BY InsertedKeys DEF Histories
    <2>2. QED
      BY <2>1 DEF Histories, KeysOnce, UploadsOwn
  <1>5. ListOf(d) \in Seq(Keys) /\ Len(ListOf(d)) = n - 1
          /\ \A m \in 1..(n - 1) : ListOf(d)[m] = revision[d][m]
    BY <1>1, ListIsSeq
  <1> HIDE DEF d, n, k
  <1>6. new = Append(ListOf(d), k)
    <2>1. \A m \in 1..n : revision'[d][m] \in Keys
      BY <1>1, <1>2
    <2>2. new \in Seq(Keys) /\ Len(new) = n
      BY <1>1, <2>1
    <2>3. /\ Append(ListOf(d), k) \in Seq(Keys) /\ Len(Append(ListOf(d), k)) = n
          /\ \A m \in 1..(n - 1) : Append(ListOf(d), k)[m] = revision[d][m]
          /\ Append(ListOf(d), k)[n] = k
      BY <1>1, <1>2, <1>5, AppendProperties
    <2>4. \A m \in 1..n : revision'[d][m] = IF m = n THEN k ELSE revision[d][m]
      BY <1>1, <1>2 DEF Histories, TypeOK
    <2>5. ASSUME NEW m \in 1..n PROVE new[m] = Append(ListOf(d), k)[m]
      <3>1. CASE m = n
        BY <1>1, <2>3, <2>4, <3>1
      <3>2. CASE m # n
        BY <1>1, <2>3, <2>4, <3>2
      <3>3. QED
        BY <3>1, <3>2
    <2>6. QED
      BY <2>2, <2>3, <2>5, SeqEqual
  <1>7. Lists' = [Lists EXCEPT ![d] = Append(@, k)]
    <2>1. \A e \in Documents \ {d} : ListOf(e)' = ListOf(e)
      BY <1>3 DEF ListOf
    <2>2. Lists' = [e \in Documents |-> IF e = d THEN new ELSE ListOf(e)]
      BY <1>1, <1>3, <2>1 DEF Lists, ListOf
    <2>3. QED
      BY <1>1, <1>6, <2>2 DEF Lists
  <1>8. \A e \in Documents : \A m \in 1..Len(ListOf(e)) : ListOf(e)[m] # k
    BY <1>4, ListIsSeq
  <1>9. QED
    BY <1>1, <1>2, <1>7, <1>8 DEF d, k

LEMMA RowsAsLists ==
  ASSUME Histories, Histories', [Next]_vars
  PROVE  [Files!Next]_Lists
  <1>1. CASE Lists' = Lists
    BY <1>1
  <1>2. ASSUME NEW r \in Requests, InsertVersion(r) PROVE [Files!Next]_Lists
    <2> DEFINE d == req[r].doc
               k == req[r].key
    <2>1. /\ d \in Documents /\ k \in Keys
          /\ \A e \in Documents : \A n \in 1..Len(ListOf(e)) : ListOf(e)[n] # k
          /\ Lists' = [Lists EXCEPT ![d] = Append(@, k)]
      BY <1>2, InsertUploads
    <2> HIDE DEF d, k
    <2>2. \A e \in Documents : ~Files!Entry(k, e)
      <3> SUFFICES ASSUME NEW e \in Documents, NEW n \in DOMAIN Lists[e], Lists[e][n] = k
                   PROVE  FALSE
        BY DEF Files!Entry, Lists, ListOf
      <3>1. Lists[e] = ListOf(e) /\ ListOf(e) \in Seq(Keys)
        BY ListIsSeq DEF Lists
      <3>2. n \in 1..Len(ListOf(e))
        BY <3>1
      <3>3. QED
        BY <2>1, <3>1, <3>2
    <2>3. Files!Upload(d, k)
      BY <2>1, <2>2 DEF Files!Upload, Lists, ListOf
    <2>4. \E e \in Documents : Files!Delete(e) \/ \E x \in Keys : Files!Upload(e, x)
      <3>1. PICK e \in Documents : e = d
        BY <2>1
      <3>2. PICK x \in Keys : x = k
        BY <2>1
      <3>3. Files!Upload(e, x)
        BY <2>3, <3>1, <3>2 DEF Files!Upload
      <3>4. QED
        BY <3>3
    <2>5. Files!Next
      BY <2>4 DEF Files!Next
    <2>6. QED
      BY <2>5
  <1>3. ASSUME NEW r \in Requests, DeleteRows(r) PROVE [Files!Next]_Lists
    <2> DEFINE d == req[r].doc
    <2>1. d \in Documents /\ Live' = Live \ {d}
      BY <1>3, ClearedKeys DEF Histories
    <2>2. \A e \in Documents \ {d} : document'[e] = document[e] /\ revision'[e] = revision[e]
      BY <1>3 DEF DeleteRows, Histories, TypeOK
    <2> HIDE DEF d
    <2>3. \A e \in Documents : ListOf(e)' = IF e = d THEN << >> ELSE ListOf(e)
      BY <2>1, <2>2 DEF ListOf
    <2>4. Lists' = [Lists EXCEPT ![d] = << >>]
      BY <2>1, <2>3 DEF Lists
    <2>5. Files!Delete(d)
      BY <2>4 DEF Files!Delete, Lists, ListOf
    <2>6. \E e \in Documents : Files!Delete(e) \/ \E x \in Keys : Files!Upload(e, x)
      <3>1. PICK e \in Documents : e = d
        BY <2>1
      <3>2. Files!Delete(e)
        BY <2>5, <3>1 DEF Files!Delete
      <3>3. QED
        BY <3>2
    <2>7. Files!Next
      BY <2>6 DEF Files!Next
    <2>8. QED
      BY <2>7
  <1>4. ASSUME NEW ctx \in Callers, NEW d \in Documents, NEW c \in Categories,
               NEW visibility \in VisibilityInputs, NEW archived \in BOOLEAN,
               UpdateDocument(ctx, d, c, visibility, archived)
        PROVE  [Files!Next]_Lists
    <2>1. Live' = Live /\ revision' = revision /\ \A e \in Documents : document'[e].current = document[e].current
      BY <1>4, Updated DEF Histories, UpdateDocument
    <2>2. \A e \in Documents : ListOf(e)' = ListOf(e)
      BY <2>1 DEF ListOf
    <2>3. QED
      BY <1>1, <2>2 DEF Lists
  <1>5. CASE UNCHANGED <<document, revision>>
    BY <1>1, <1>5 DEF Lists, ListOf, Live
  <1>6. QED
    BY <1>2, <1>3, <1>4, <1>5 DEF Next, vars, BeginCreate, BeginAppend, BeginDelete, WriteObject,
       DeleteObject, Fail, EditCategories

\* The rows implement the append-only lists of FileHistory, for every instance: an insertion is an
\* upload at the end of the list and a deletion takes the whole list.
THEOREM ImplementsFileHistory == Spec => FilesSpec
  <1>1. Init => Files!Init
    BY DEF Init, Files!Init, Live
  <1>2. Histories /\ Histories' /\ [Next]_vars => [Files!Next]_Lists
    BY RowsAsLists
  <1>3. Lists = [d \in Documents |->
          IF d \in Live THEN [n \in 1..document[d].current |-> revision[d][n]] ELSE << >>]
    BY DEF Lists, ListOf
  <1>4. Spec => []Histories
    BY EmptyVault, EmptyStore, TypeInit, TypeStep, GaplessStep, PendingStep, KeysOnceStep, PTL
    DEF Spec, Histories
  <1>5. QED
    BY <1>1, <1>2, <1>3, <1>4, PTL DEF Spec, FilesSpec, Files!Spec, Lists, ListOf

-----------------------------------------------------------------------------
\* No two version rows, of one document or of two, ever name the same object, however many uploads
\* overlap: deleting a document's bytes never takes another's.
THEOREM OneObjectPerVersion ==
  Spec => [](\A d, e \in Documents : \A n \in VersionsOf(d), m \in VersionsOf(e) :
               revision[d][n] = revision[e][m] => d = e /\ n = m)
  <1>1. KeysOnce => \A d, e \in Documents : \A n \in VersionsOf(d), m \in VersionsOf(e) :
                      revision[d][n] = revision[e][m] => d = e /\ n = m
    BY DEF KeysOnce, RowsOwn, VersionsOf
  <1>2. QED
    BY <1>1, EmptyVault, EmptyStore, TypeInit, TypeStep, GaplessStep, PendingStep, KeysOnceStep, PTL
    DEF Spec

LEMMA VersionsStay ==
  ASSUME TypeOK, [Next]_vars, NEW d \in Live, d \in Live', NEW n \in VersionsOf(d)
  PROVE  revision'[d][n] = revision[d][n]
  <1>0. d \in Documents /\ n \in Numbers /\ revision[d][n] # NoKey
    BY DEF Live, VersionsOf
  <1>1. CASE UNCHANGED revision
    BY <1>1
  <1>2. ASSUME NEW r \in Requests, InsertVersion(r) PROVE revision'[d][n] = revision[d][n]
    <2>1. /\ revision[req[r].doc][req[r].number] = NoKey
          /\ revision' = [revision EXCEPT ![req[r].doc][req[r].number] = req[r].key]
      BY <1>2, Inserted
    <2>2. QED
      BY <1>0, <2>1 DEF TypeOK
  <1>3. ASSUME NEW r \in Requests, DeleteRows(r) PROVE revision'[d][n] = revision[d][n]
    <2>1. Live' = Live \ {req[r].doc}
      BY <1>3, ClearedKeys
    <2>2. d # req[r].doc
      BY <2>1
    <2>3. QED
      BY <1>0, <1>3, <2>2 DEF DeleteRows, TypeOK
  <1>4. QED
    BY <1>1, <1>2, <1>3 DEF Next, vars, BeginCreate, BeginAppend, BeginDelete, UpdateDocument,
       WriteObject, DeleteObject, Fail, EditCategories

\* While a document exists none of its versions is replaced or removed, whoever uploads, edits or
\* fails meanwhile: a version number once read names the same object for good.
THEOREM VersionsAreImmutable ==
  Spec => [][\A d \in Live : d \in Live' => \A n \in VersionsOf(d) : revision'[d][n] = revision[d][n]]_vars
  <1>1. TypeOK /\ [Next]_vars =>
          [\A d \in Live : d \in Live' => \A n \in VersionsOf(d) : revision'[d][n] = revision[d][n]]_vars
    BY VersionsStay
  <1>2. QED
    BY <1>1, TypeInit, TypeStep, PTL DEF Spec

-----------------------------------------------------------------------------
\* The vault's rules, for contexts with any permissions and scopes.

\* The read filter lists departments one by one and leaves out a permission held everywhere, yet a
\* further membership never hides a document, whatever is edited in the role rows, provided that
\* whoever then views everywhere also holds view_all.
THEOREM FurtherOfficesHideNothing ==
  ASSUME NEW ctx, NEW wider, NEW dept, NEW visibility,
         ctx.held \subseteq wider.held, ctx.active => wider.active,
         "view" \in OrganizationPermissions(wider) => "view_all" \in OrganizationPermissions(wider),
         Readable(ctx, dept, visibility)
  PROVE  Readable(wider, dept, visibility)
  <1>1. /\ OrganizationPermissions(ctx) \subseteq OrganizationPermissions(wider)
        /\ GrantedPermissions(ctx) \subseteq GrantedPermissions(wider)
    BY DEF OrganizationPermissions, GrantedPermissions
  <1>2. HasAnywhere(wider, "view")
    BY <1>1 DEF Readable, HasAnywhere
  <1>3. CASE visibility = "department" /\ "view_all" \notin OrganizationPermissions(wider)
    <2>1. \E m \in ctx.held : m.dept = dept /\ "view" \in m.permissions
      BY <1>1, <1>3 DEF Readable
    <2>2. QED
      BY <1>2, <1>3, <2>1 DEF Readable
  <1>4. CASE visibility # "department" \/ "view_all" \in OrganizationPermissions(wider)
    BY <1>1, <1>2, <1>4 DEF Readable, HasOrganizationReach
  <1>5. QED
    BY <1>3, <1>4

\* The proviso is needed: a role edited to view everywhere without view_all hides from its holder
\* what their own department files for itself, which the member's role alone would show.
THEOREM ViewingEverywhereHides ==
  ASSUME NEW ctx, NEW dept,
         "view" \in OrganizationPermissions(ctx), "view_all" \notin OrganizationPermissions(ctx)
  PROVE  ~Readable(ctx, dept, "department")
  BY DEF Readable
=============================================================================
