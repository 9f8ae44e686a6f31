------------------------------- MODULE Vault -------------------------------
(***************************************************************************)
(* Document storage and version history: rows in the database, bytes in an *)
(* object store.  A request changes both, and only the rows are inside its *)
(* transaction: bytes are written before the row that names them and       *)
(* deleted before the rows that name them.                                 *)
(*                                                                         *)
(* Requests overlap (READ COMMITTED): a request is a record in req between *)
(* its first read and its commit.  Fail is everything that ends one early: *)
(* the store refusing (503), a violated constraint, a dropped connection,  *)
(* a dead process.  The transaction is rolled back and the bytes stay as   *)
(* they are.                                                               *)
(*                                                                         *)
(* A key or an identifier nobody mentions any more stands for a fresh uuid.*)
(***************************************************************************)
EXTENDS CategoryTree

CONSTANTS
  Callers,       \* authorization contexts of the people who use the vault
  Requests,
  Documents,
  Keys,          \* storage keys: one object each
  VisibilityInputs,   \* the visibilities people choose
  MaxVersions,   \* bound on version numbers
  NoDocument,
  NoKey

VARIABLES
  document,   \* the row of a document
  revision,   \* revision[d][n]: the storage key in the row of version n of d
  objects,    \* keys the store holds bytes under
  req,        \* requests between their first read and their end
  condemned   \* history: documents whose deletion was begun and that still exist

vars == <<category, document, revision, objects, req, condemned>>

Numbers == 1..MaxVersions
NoRevision == [n \in Numbers |-> NoKey]

DocumentRow == [dept : Departments, category : Categories, visibility : Visibilities,
                archived : BOOLEAN, current : Numbers]

ASSUME VaultAssumption ==
  /\ MaxVersions \in Nat \ {0}
  /\ VisibilityInputs \subseteq Visibilities
  /\ NoDocument \notin DocumentRow /\ NoKey \notin Keys /\ NoCategory \notin CategoryRow
  /\ InitialCategory \in [Categories -> CategoryRow \cup {NoCategory}]
  /\ \A c \in Categories : InitialCategory[c] # NoCategory =>
       LET p == InitialCategory[c].parent IN p = NoCategory \/ InitialCategory[p] # NoCategory

Idle == [op |-> "idle"]
\* An upload: row is the document row a new document will get, NoDocument for a new version of an
\* old one; key is NoKey until the bytes are written.
UploadRequest == [op : {"upload"}, doc : Documents, row : DocumentRow \cup {NoDocument},
                  number : Numbers, key : Keys \cup {NoKey}]
\* A deletion: left are the objects it has still to delete.
DeleteRequest == [op : {"delete"}, doc : Documents, left : SUBSET Keys]

TypeOK ==
  /\ category \in [Categories -> CategoryRow \cup {NoCategory}]
  /\ document \in [Documents -> DocumentRow \cup {NoDocument}]
  /\ revision \in [Documents -> [Numbers -> Keys \cup {NoKey}]]
  /\ objects \subseteq Keys
  /\ req \in [Requests -> {Idle} \cup UploadRequest \cup DeleteRequest]
  /\ condemned \subseteq Documents

Live == {d \in Documents : document[d] # NoDocument}
VersionsOf(d) == {n \in Numbers : revision[d][n] # NoKey}
KeysOf(d) == {revision[d][n] : n \in VersionsOf(d)}

Uploading(r) == req[r].op = "upload"
Deleting(r) == req[r].op = "delete"
InUse(d) == \E r \in Requests : req[r] # Idle /\ req[r].doc = d

FreshDocument(d) == document[d] = NoDocument /\ ~InUse(d)
FreshKey(k) ==
  /\ k \notin objects
  /\ \A d \in Documents : k \notin KeysOf(d)
  /\ \A r \in Requests : (Uploading(r) => req[r].key # k) /\ (Deleting(r) => k \notin req[r].left)

\* Categories whose deletion the foreign key refuses or makes wait: an uncommitted insert of a
\* document holds a lock on its category.
Holding ==
  {document[d].category : d \in Live}
    \cup {req[r].row.category : r \in {q \in Requests : Uploading(q) /\ req[q].row # NoDocument}}

CanRead(ctx, d) == d \in Live /\ Readable(ctx, document[d].dept, document[d].visibility)

Init ==
  /\ category = InitialCategory
  /\ document = [d \in Documents |-> NoDocument]
  /\ revision = [d \in Documents |-> NoRevision]
  /\ objects = {}
  /\ req = [r \in Requests |-> Idle]
  /\ condemned = {}

(***************************************************************************)
(* create_document and add_version.                                        *)
(***************************************************************************)
\* The category is looked up, its department is not compared with the document's.
BeginCreate(r, ctx, d, dept, c, visibility) ==
  /\ req[r] = Idle
  /\ MayIn(ctx, "upload", dept)
  /\ c \in Filed
  /\ FreshDocument(d)
  /\ req' = [req EXCEPT ![r] =
       [op |-> "upload", doc |-> d,
        row |-> [dept |-> dept, category |-> c, visibility |-> visibility,
                 archived |-> FALSE, current |-> 1],
        number |-> 1, key |-> NoKey]]
  /\ UNCHANGED <<category, document, revision, objects, condemned>>

\* One above the highest number committed now; a concurrent upload reads the same.
NextNumber(d, n) ==
  /\ \A i \in VersionsOf(d) : i < n
  /\ n = 1 \/ n - 1 \in VersionsOf(d)

BeginAppend(r, ctx, d) ==
  /\ req[r] = Idle
  /\ CanRead(ctx, d)
  /\ MayIn(ctx, "upload", document[d].dept)
  /\ \E n \in Numbers :
       /\ NextNumber(d, n)
       /\ req' = [req EXCEPT ![r] =
            [op |-> "upload", doc |-> d, row |-> NoDocument, number |-> n, key |-> NoKey]]
  /\ UNCHANGED <<category, document, revision, objects, condemned>>

\* Slip: the store refuses and the request goes on.
SwallowRefusal(r, k) ==
  /\ Uploading(r) /\ req[r].key = NoKey
  /\ FreshKey(k)
  /\ req' = [req EXCEPT ![r].key = k]
  /\ UNCHANGED <<category, document, revision, objects, condemned>>

WriteObject(r, k) ==
  /\ Uploading(r) /\ req[r].key = NoKey
  /\ FreshKey(k)
  /\ objects' = objects \cup {k}
  /\ req' = [req EXCEPT ![r].key = k]
  /\ UNCHANGED <<category, document, revision, condemned>>

\* Slip: without the unique index on (document, number).
InsertAnyVersion(r) ==
  LET d == req[r].doc n == req[r].number IN
  /\ Uploading(r) /\ req[r].key # NoKey
  /\ req[r].row # NoDocument \/ d \in Live
  /\ revision' = [revision EXCEPT ![d][n] = req[r].key]
  /\ document' = [document EXCEPT ![d] =
       IF req[r].row # NoDocument THEN req[r].row ELSE [@ EXCEPT !.current = n]]
  /\ req' = [req EXCEPT ![r] = Idle]
  /\ UNCHANGED <<category, objects, condemned>>

\* The row is inserted, the pointer moves, and the transaction commits.  A version somebody else
\* committed under the number, or a document deleted meanwhile, leaves only Fail.
InsertVersion(r) ==
  LET d == req[r].doc n == req[r].number IN
  /\ Uploading(r) /\ req[r].key # NoKey
  /\ req[r].row # NoDocument \/ d \in Live
  /\ revision[d][n] = NoKey
  /\ revision' = [revision EXCEPT ![d][n] = req[r].key]
  /\ document' = [document EXCEPT ![d] =
       IF req[r].row # NoDocument THEN req[r].row ELSE [@ EXCEPT !.current = n]]
  /\ req' = [req EXCEPT ![r] = Idle]
  /\ UNCHANGED <<category, objects, condemned>>

(***************************************************************************)
(* update_document: one read, one write.                                   *)
(***************************************************************************)
\* Slip: an explicit null category is accepted by the column.
ClearCategory(ctx, d, c, visibility, archived) ==
  /\ CanRead(ctx, d)
  /\ MayIn(ctx, "edit", document[d].dept)
  /\ document' = [document EXCEPT ![d].category = NoCategory]
  /\ UNCHANGED <<category, revision, objects, req, condemned>>

UpdateDocument(ctx, d, c, visibility, archived) ==
  /\ CanRead(ctx, d)
  /\ MayIn(ctx, "edit", document[d].dept)
  /\ c \in Filed
  /\ document' = [document EXCEPT ![d].category = c, ![d].visibility = visibility,
                                  ![d].archived = archived]
  /\ UNCHANGED <<category, revision, objects, req, condemned>>

(***************************************************************************)
(* delete_document: the objects one by one, then the rows.                 *)
(***************************************************************************)
BeginDelete(r, ctx, d) ==
  /\ req[r] = Idle
  /\ CanRead(ctx, d)
  /\ MayIn(ctx, "delete", document[d].dept)
  /\ req' = [req EXCEPT ![r] = [op |-> "delete", doc |-> d, left |-> KeysOf(d)]]
  /\ condemned' = condemned \cup {d}
  /\ UNCHANGED <<category, document, revision, objects>>

\* Deleting an object that is not there is no error, in either driver.
DeleteObject(r, k) ==
  /\ Deleting(r) /\ k \in req[r].left
  /\ objects' = objects \ {k}
  /\ req' = [req EXCEPT ![r].left = @ \ {k}]
  /\ UNCHANGED <<category, document, revision, condemned>>

\* The foreign key takes the versions along, those added since the first read included.
DeleteRows(r) ==
  /\ Deleting(r) /\ req[r].left = {}
  /\ document' = [document EXCEPT ![req[r].doc] = NoDocument]
  /\ revision' = [revision EXCEPT ![req[r].doc] = NoRevision]
  /\ condemned' = condemned \ {req[r].doc}
  /\ req' = [req EXCEPT ![r] = Idle]
  /\ UNCHANGED <<category, objects>>

Fail(r) ==
  /\ req[r] # Idle
  /\ req' = [req EXCEPT ![r] = Idle]
  /\ UNCHANGED <<category, document, revision, objects, condemned>>

(***************************************************************************)
(* The categories, as CategoryTree has them.                               *)
(***************************************************************************)
EditCategories(ctx) ==
  /\ \E c \in Categories :
       \/ \E slug \in Slugs, dept \in Departments \cup {Shared}, parent \in Categories \cup {NoCategory} :
            CreateCategory(ctx, c, slug, dept, parent)
       \/ \E parent \in Categories \cup {NoCategory} : MoveCategory(ctx, c, parent)
       \/ DeleteCategory(ctx, c, Holding)
  /\ UNCHANGED <<document, revision, objects, req, condemned>>

Next ==
  \/ \E ctx \in Callers, r \in Requests, d \in Documents :
       \/ \E dept \in Departments, c \in Categories, visibility \in VisibilityInputs :
            BeginCreate(r, ctx, d, dept, c, visibility)
       \/ BeginAppend(r, ctx, d)
       \/ BeginDelete(r, ctx, d)
  \/ \E ctx \in Callers, d \in Documents, c \in Categories, visibility \in VisibilityInputs,
        archived \in BOOLEAN : UpdateDocument(ctx, d, c, visibility, archived)
  \/ \E r \in Requests :
       \/ \E k \in Keys : WriteObject(r, k) \/ DeleteObject(r, k)
       \/ InsertVersion(r)
       \/ DeleteRows(r)
       \/ Fail(r)
  \/ \E ctx \in Callers : EditCategories(ctx)

Spec == Init /\ [][Next]_vars

(***************************************************************************)
(* Properties.                                                             *)
(***************************************************************************)
\* The versions of a document are numbered 1, 2, ... without a gap, at least one, the last is the
\* one its pointer names, and a document that is gone has none: whatever uploads of the same
\* number and deletions overlap.  So the newest version a download picks is the current one, and
\* no document is listed without content.
HistoryIsGapless ==
  \A d \in Documents :
    VersionsOf(d) = IF d \in Live THEN 1..document[d].current ELSE {}

\* Bytes a version row names are in the store, unless somebody began to delete that document:
\* no failed upload, lost race or dead process leaves a version that cannot be downloaded.
LossesAreDeletions ==
  \A d \in Documents : KeysOf(d) \subseteq objects \/ d \in condemned

\* Every document lies in a category that exists, below categories that exist: no deletion of a
\* category, or of a branch above it, overlaps an upload or a move so that anything hangs from a
\* row that is gone.
DocumentsAreFiled == \A d \in Live : document[d].category \in Filed
FilingIsIntact == DocumentsAreFiled /\ ParentsExist

\* Categories that were moved beneath each other are in no listing that should have them, and no
\* deletion, wherever it begins, takes one of them along: only another move brings them back.
CyclesAreStuck ==
  [][\A c \in Filed : InCycle(c) => c \notin Listing(Filed) /\ category'[c] # NoCategory]_vars

\* The rows implement the append-only lists of FileHistory: uploads that read the same number,
\* failures half way and deletions that overlap uploads all look like whole uploads and deletions.
Files == INSTANCE FileHistory WITH
  history <- [d \in Documents |->
                IF d \in Live THEN [n \in 1..document[d].current |-> revision[d][n]] ELSE << >>]
FilesSpec == Files!Spec
=============================================================================
