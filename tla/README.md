# UTMCSSA internal system: formal models

The repository is the internal platform of a student association: one FastAPI
backend (`src/backend/app`), one PostgreSQL database behind it, one React
client (`src/frontend/src`). This directory holds TLA+ models of the parts whose
correctness depends on the order in which people and processes act, TLC
configurations that check them on small instances, and TLAPS proofs of what
holds for every instance.

`tlc -workers 2 -config <cfg> <module>` checks one run, `tlapm <module>.tla`
checks the proofs of a module; `<cfg>` is named after the run, and the run tables
below list the runs by component. A definition whose comment begins with "Slip"
is a plausible mistake in the code of the definition after it: put in its place,
it makes the property it names fail, which is how the properties were tested.

## 1. Inventory

| Component | State it keeps | Operations | Hard part |
|---|---|---|---|
| Authorization (`core/security/authorization`, `core/config/organization`) | none: a snapshot of the caller's memberships per request | `has`, `can_appoint_office`, `can_release_office`, `can_review_department`, seat limits | two layers (permissions, appointment rules) that must agree |
| Accounts and admission (`registration_service`, `administration_service`) | `user_account.status`, `email_verified_at`, `requested_department_slug` | register, confirm, approve, reject, change status | sequences of decisions by several people |
| Placement and offices (`membership_service`, `appointment_service`) | `department_membership` rows: role, `is_primary`, `created_at` | assign, modify, revoke, appoint, release | seat transfers touch two people; the primary flag must stay unique; concurrent requests |
| Departments (`department_service`) | `department.is_active`, modules, theme | create, update | a retired department silently drops everybody's grants in it |
| Roles and provisioning (`role_service`, `provisioning_service`) | roles, grants, departments, categories, the bootstrap administrator | create/update/delete role; synchronisation at every start | start-up overwrites what the console edited |
| Sessions (`authentication_service`, `api/deps/authentication.py`) | `refresh_session` rows, `failed_login_count`, `locked_until` | sign in, refresh (rotation), sign out, change and reset password | replayed and concurrent refreshes; bookkeeping written by a request that then fails is rolled back |
| Verification codes (`verification_service`) | `email_verification_code` rows | issue, redeem | resend cooldown, attempts, two purposes |
| Client session (`frontend/src/shared/api/client`, `SessionProvider`) | access token per tab, refresh token shared by all tabs | request with one retry, refresh, sign in, sign out | late answers, tabs racing over one refresh token |
| Documents (`vault_service`, `category_service`) | documents, versions, categories, objects in a bucket | create, add version, delete, download; category tree edits | database and bucket are not one transaction; parents and cycles |
| Activities and digest (`activity_service`, `digest_service`, `digest_scheduler`, `broadcast_service`, `dispatcher`) | activities, delivery log | publish, daily digest, broadcast | mail leaves before the transaction commits; two instances run one digest |
| Directory, alumni, announcements, timetable, weather, audit | profile and log rows | reads and single-row writes | nothing that several actors can order wrongly |
| User interface (`frontend/src/features`) | view state | rendering | none beyond the client session |

Interaction. Every mutating request runs `require_account` (token, session
row, account status), `require_active_account`, builds an
`AuthorizationContext` from the account's rows, runs one service function, and
commits only if that function returned (`infrastructure/database/session.py`).
Any exception rolls the whole request back. The database runs at its default
isolation level (READ COMMITTED) and no statement takes a lock, so two requests
interleave between any two of their statements. Mail goes to an external
service from inside the request's transaction. The digest runs in every backend
process from a timer.

## 2. Placement

`AppointmentRules` is the authorization layer as pure operators: the permissions
that matter to placement, the role templates as they are shipped (`Grants`,
`Template`), the evaluator (`Has`, `HasAnywhere`, `IsPlatformAdministrator`) over
a caller's context, and the appointment rules. `Placement` is the state machine
over it: admission, placement, offices, and the role rows as the console edits
them. Nothing takes a role to be as shipped: a context is built from the role
rows of the moment (`Context`), as `build_context` does.

| Model | Code |
|---|---|
| `status`, `verified`, `requested` | columns of `user_account`; `Unregistered` is "no row" |
| `office[u][d]` | the membership row of (account, department), `NoOffice` when there is none; the table has a unique constraint on the pair |
| `primary[u]` | the departments whose row has `is_primary`; a set because nothing in the schema makes it single |
| `older[u]` | the order of `created_at` among an account's rows; `revoke` promotes the oldest |
| `open` | departments with `is_active`; only these enter a context |
| `roles[x]` | the role row of an office: the permissions here and its scope |
| `Register`, `ConfirmEmail` | `register`, `confirm_email` |
| `Approve`, `Reject`, `ChangeStatus` | the functions of `administration_service` |
| `Assign`, `ModifyRole`, `ModifyPrimary`, `Revoke` | `membership_service`; `modify` is two actions because a payload with a role takes a different path from one without |
| `Appoint`, `Release` | `appointment_service` |
| `UpdateDepartment` | the `is_active` part of `update_department` |
| `EditRole`, `Restart` | `update_role`, atomic here (section 7 splits it), and the synchronisation at start-up that restores every template |
| `Queue`, `Board` | what the console lists: `list_pending_registrations`, `list_office_board` |

A handler that raises is a disabled action: its transaction is rolled back and
nothing remains. Handlers are atomic here. Roles without an office key cannot be
placed at all (`assert_may_place`), so they do not appear. The audit row and the
mail each handler writes are not state of this module.

`Founder` with `FounderDept` and `FounderOffice` is the only placed account at
the start: the bootstrap administrator that provisioning creates, or, in both
runs, the officer to whom the association was handed over (a state the
administrator reaches by placing an officer and stepping out).

| Run | Instance | What it shows |
|---|---|---|
| `PlacementOfficers` | president, two interchangeable applicants to the presidium, presidium and finance, three offices; the directors' role loses a permission, or gains one with organization scope, in the console | `OnePrimary`, `SeatsRespected`, `OfficesStayInTheirDepartments`; `VacancyIsForever`: once the last president and administrator are gone, nobody gets a seat of consequence again, by edits and restarts neither |
| `PlacementConsole` | president and one account not yet signed up, who applies to presidium or finance, may become its director or deputy, be suspended and reinstated; both roles lose the right to place people, finance is retired and restored | `TypeOK`; `BoardIsHonest`: what the office board offers somebody whose own roles are as shipped is not refused by the evaluator; `QueueIsDecidable`: the department an application names is one its reader may review and fill |

`BoardIsHonest` and `QueueIsDecidable` say what is left of them once roles are
edited. The rules (`appointment_rules.py`) go by office and the evaluator by role
row, so a director whose role lost `admin.assign_departments` is still shown
applications and seats, and `approve` and `appoint` refuse them: permission is
promised only to callers whose own rows are `AsShipped`, whoever edited the
others. Nor does the board promise that a seat is free: it lists a deputy's
office whose two seats are taken, and `appoint` answers with a conflict
(`appointment_service.py:261`).

Bounds. Nothing is counted, so both state spaces are finite without a
constraint. Three accounts and two departments are enough for each property to
fail: a transfer needs an actor, a predecessor and a successor, a primary flag
one account with two rows. `RoleInputs` are the rows an editor may submit: one
that takes the permission the rules do not ask about, and one that tries to hand
over the system settings. Deputies occur in `PlacementConsole` only; their
two-seat limit needs a fourth account,
and an administrator as founder a far larger instance: both are covered by the
proofs, which hold for any founder, and not by a run.

Proofs (`PlacementProofs`), for arbitrary constants satisfying
`PlacementAssumption`, of which only the finiteness of `Accounts` is more than
typing (cardinalities are taken of sets of holders).

* `TypeCorrect`: `TypeOK` is inductive by itself.
* `OnePrimaryHolds`: inductive with `TypeOK`. The key lemma, `SeatedPlaces`, says
  that seating an account changes who is placed where only by adding that
  account to that department: a displaced holder is demoted, not removed.
  `Revoke` needs both sides of the invariant: the flag it hands over goes to a
  department the account still has.
* `SeatsAreRespected`: inductive with `TypeOK`. `SeatedHolders` shows that
  a limited office gains at most the account being seated, alone if the office
  is unique; `FS_AddElement` does the counting for deputies.
* `OfficesStay`: inductive with `SettingsKept` (`OfficersOnly`): while nobody is an
  administrator and no other row has the system settings, no context is an
  administrator's (`NoAdministrator`) and no edit hands the settings out, since
  an editor grants only what they hold (`SettingsStep`); and while no director
  sits in the presidium nobody can appoint a deputy there (`AppointableStays`).
* `TransferKeeps` (`TransferKeepsPredecessor`, not among the runs): a step
  property, from `TypeOK` alone.
* `QueueDecidable`: from `OfficersOnly`; who may review an application holds an
  office that may also place it (`QueueReviewed`).
* `VacancyIsFinal` and `ChainOfCommand`: every change of an office, whichever
  operation made it, had somebody entitled to command it (`Commands`, from
  `Authority`, which reads the operations' guards as one). The seats that only a
  president or an administrator may fill then stay empty once nobody is either,
  and a president can bring that about by placing themselves elsewhere (section
  11). A restart does not help: provisioning leaves an existing bootstrap
  account alone (`provisioning_service.py:243`). The one way back is in the
  statement: an office that was given the system settings before.
* `HiddenDepartmentsStay`, `RetirementIsFinal`: step properties about
  departments nobody may enter or restore. The second needs `OfficersOnly`:
  unless a role held outside the presidium was given `manage_departments`
  (`RestoringKept`), the right to restore a department is held in the presidium,
  and a retired one grants nothing, not even the right to edit a role.
* `BoardHonest`: in every state, because every office that the appointment rules
  let appoint or release anyone also holds, as shipped, the assign permission
  there (`AppointersAssign`).

`MembershipCases` is the lemma the first five share: whatever operation a step
was, the membership table stutters, moves one account's flag, loses one row, or
seats one account with permission to do so.

## 3. Verification codes

`VerificationCodes` lets requests overlap. The database runs READ COMMITTED and
neither operation locks a row or constrains an address, so `issue_code` is three
actions (cooldown read, invalidation, insert with commit) and `redeem_code` two
(read, write with commit); other requests run in between. A refusal is a
disabled read. `Abort` is a rollback at any point, a dead process included.

| Model | Code |
|---|---|
| `code[c]` | an `email_verification_code` row; `c` is its place in `created_at` order |
| `cooling`, `expired` | `created_at` within the resend cooldown, `expires_at` passed; `CodeAges` is the passing of time, an older row first |
| `attempts` | `attempt_count`, which stays 0 (section 11) |
| `by`, `rivals`, `guesses`, `redeemed` | history: who issued the row, which codes were being issued when its request invalidated, wrong submissions, requests let through |
| `request[r]` | what the running request has read: `issue` (past the cooldown), `invalidated` (its UPDATE has chosen the rows), `redeem` (holds a row) |

`created_at` defaults to the database's `now()`, which is when the transaction
started: `NextNumber` numbers a code in `IssueRead`, and a code numbered later
may be committed earlier. Row locks are over-approximated: PostgreSQL would make
a second writer of one row wait and then overwrite, the model lets it overwrite
when its turn comes. The invalidation and the insert of one request reach the
table together, at its commit. Mail, the digest of the code (a submission is
right or wrong) and the account lookup before issuing are left out.

| Run | Instance | What it shows |
|---|---|---|
| `CodesConcurrent` | one mailbox, both purposes, two requests, three codes | `OutstandingBounded` and `RedemptionsBounded`: as many acceptable codes, and as many uses of one, as requests overlap; `NewestOnly`: of two acceptable codes, the older was still being issued when the newer one's request invalidated; `ConsumedForever` |

Bounds. `MaxCodes` = 3 exceeds the number of requests, so a third acceptable
code would be found. The documents promise one acceptable code and one use
("One-time"); neither holds for two overlapping requests, and what holds is
stated for any overlap: `OutstandingBounded` and `RedemptionsBounded` count, and
`NewestOnly` says when a code that is not a mailbox's newest is accepted.

Proofs (`CodesProofs`), for every finite set of requests and any bounds:
`CodesTypeCorrect`, from `Safe` (types, numbers of running issuers unused and
distinct, a row that a running redemption read is still in the table);
`ConsumedForeverHolds`, a step property under `Safe`;
`OutstandingBoundedHolds`, from `OnePerRequest`: two acceptable codes for one
mailbox and purpose come from different requests, because a request that starts
to issue a second code would have invalidated its first, so the outstanding codes map
injectively into `Requests`; `RedemptionsBoundedHolds`, from
`RedemptionsCounted`: uses committed plus uses pending never exceed the
requests, and pending ones only begin while none is committed; `NewestCodeOnly`
(`NewestOnly`), from `RivalsKnown`: of the codes older than its own, an
invalidation chose every acceptable one that is not a rival (`OlderKnown`), and a
code still being issued is a rival of every newer one (`RunningKnown`).

## 4. Sessions

`Sessions` extends `VerificationCodes` (a password reset redeems a code) with
`refresh_session` rows. A request is a read and a commit. One that ends every
session is three steps: its checks, the bulk UPDATE (`RevokeAll`, which chooses
the rows that are committed when it runs), and the commit that makes those
revocations visible. A row that another request commits after the UPDATE is not
among them.

| Model | Code |
|---|---|
| `session[s]` | a `refresh_session` row; the token presented is its row |
| `parent`, `signIn`, `born`, `raced` | history: the row it replaced, the first row of its chain, how many times the account had asked for every session to end when its password was verified, and whether a request that wrote a row of its chain overlapped one of those |
| `barred` | accounts SUSPENDED or REJECTED; the other statuses may sign in |
| `failed`, `locked` | `failed_login_count`, `locked_until` in the future |
| `ends`, `wrong`, `replayed` | history: committed requests to end every session, wrong passwords in a row, a rotated token presented |
| `SignInRead/Commit`, `SignInWrong` | `sign_in` |
| `RefreshRead/Commit`, `RefreshReplayed` | `refresh`; the commit writes `revoked_at` and `rotated_to_id` without looking at the row again |
| `SignOutRead/Commit` | `sign_out` of one session; `SignOutRead` also begins signing out everywhere |
| `ChangeRead`, `ResetRead`, then `RevokeAll`, `EndCommit` | `change_password`, `reset_password` and signing out everywhere |
| `Bar` | `change_account_status` and the decisions that bar or admit, as far as sessions see them |
| `SessionExpires` | the passing of time |

`SignInWrong` and `RefreshReplayed` change only history: the handler's writes
are rolled back by the exception it raises (`session.py:52`). `locked` therefore
never becomes TRUE, and its expiry is not modelled. `needs_rehash` is taken to
be false.

| Run | Instance | What it shows |
|---|---|---|
| `SessionsConcurrent` | two requests, three rows, one end, one code | `SessionsTypeOK`; `NoSessionOutlivesItsEnd`: what is live was signed in to after the last end, unless it raced one; `OneSessionPerSignIn`: a sign-in has a second session only where two exchanges of one token overlapped; `ReplacementsFollow`, `RotationsBounded`, `RevokedForever` |
| `FindReplay` (violation) | one request | presenting a rotated token revokes nothing (section 11) |

Both of the code's promises about ending sessions are broken by an overlap
(section 11), so the properties say where exactly: `raced` is set only when a
request began before an end was committed and wrote its row after that end's
UPDATE or commit, and a second session needs two replacements of one row.

Bounds. Three rows are two replacements of one, or a sign-in and its
replacement beside a second sign-in; with one end, rows from before and after it.
`RotationsBounded` counts the exchanges under way with those made, so a third
one is found where it begins. `RowsLeft` and `EndsLeft` stop a request from
starting when its bound is used up. The run does not continue states with a
failed sign-in, a replayed token, a wrong guess or an expired code (`Unfailed`):
what records the first three is read by no other action, and expired codes are
`CodesConcurrent`'s matter; the proofs cover them.

Proofs (`SessionsProofs`), for any accounts, requests and bounds, and with no
assumption about overlap:
`SessionsTypeCorrect`, with `ReadsIssued` (the codes that a running issue or
reset will write are still in the table); `RevokedForeverHolds`;
`ReplacementsFollowHolds`, whose invariant `Safe` says what a
request in flight still knows to be true (its row is still there, its account
exists); `RotationsBoundedHolds`, by counting exchanges made plus exchanges
pending; `EndsAreFinal` (`NoSessionOutlivesItsEnd`), from `EndsKnown`: a row of the
account that an UPDATE in flight did not choose raced it, and a running rotation
has seen as many ends as its row was born after; `OneSessionUnlessForked`
(`OneSessionPerSignIn`), from `OneTip`: where no row was replaced twice, a chain has
one row without a replacement, and only that one can be live (`LiveIsTip`).

`ImplementsCodes` is the refinement between the two modules. A request
that issues a code is the same request there, one that resets a password is a
redemption, any other is idle (`codeRequest`); under that mapping every step is a step of
`CodeNext` or a stutter. `CodesKeepTheirPromises` then transfers what
`CodesProofs` proves of the codes alone to codes among sessions.

## 5. Client tabs

`ClientTabs` is the browser's side of a session: tabs that share one stored
token pair and keep a copy of the access token in memory, calls that refresh the
pair when they are refused, and the server as those calls see it. Everything a
tab does between two awaits is one action. A token is its `refresh_session` row:
the two tokens of a pair carry the same number.

| Model | Code |
|---|---|
| `stored`, `memory[t]` | the pair in `localStorage`, `accessTokenInMemory` (`tokenStorage.ts`) |
| `signedIn[t]` | `hasStoredSession` of `SessionProvider` |
| `refresh[t]` | `inFlightRefresh` (`refreshOnUnauthorized.ts`); one at a time in a tab, not across tabs |
| `call[c]` | a call of `apiClient.ts`: sent, answered, waiting for a refresh, sent again (`retried`) |
| `SignIn`, `Start`, `Served`, `GiveUp`, `AskForRefresh`, `RefreshSucceeds`, `RefreshFails` | the code between the awaits |
| `Reload`, `Lost` | a tab is reloaded or closed; `fetch` rejects, the request served or not |
| `Answer`, `CheckRefresh`, `AnswerRefresh`, `AccessExpires`, `SessionEnds` | the server and time; an exchange is a check and a commit, so that two tabs may both be admitted with one token |
| `issued`, `live`, `fresh` | the server's rows; `gone`, `signedOut` are history |

| Run | Instance | What it shows |
|---|---|---|
| `ClientTabs` | two tabs, one with two calls at once, three pairs | `TypeOK`; `StoredIsUsable`: no spent pair stays in storage; `SignedOutStaysOut`; `EveryCallEnds` under `FairSpec` |

Bounds. Two tabs and a second call in one of them are the least in which a
refresh is shared, raced by another tab, and answered after a sign-out; a pair
is set aside for each call that may refresh (`TokensLeft`), so the bound on pairs
stops sign-ins and calls from starting and nothing else. `StoredIsUsable` allows
a pair whose session ended by itself or whose answer nobody listened for; that
history is `gone`.

Proofs (`ClientTabsProofs`), for any tabs, any finite set of calls and any
number of pairs. `TypeCorrect` contains that the bound is enough:
`TokensSuffice` counts the calls still entitled to an exchange (`Entitled`), and
an answered exchange uses up what one of the calls waiting for it had set aside,
since somebody waits for every exchange (`SomebodyWaits`) and a waiting call has
not been sent again (`WaitingOnce`). `SignedOutHolds`: from `SignedOutQuiet`, no
exchange is under way after such a sign-out. `StoredStaysUsable`: from
`AnswersUnseen` (the answer to an exchange is known to nobody before it is
stored, so neither another exchange nor a sign-out can have ended it) and
`StoredAccounted`; `UsableShrinks` says which steps end a token at all.

## 6. Vault and categories

`VaultRules` has the vault's permissions, as shipped (`DocumentGrants`) and as
callers hold them (`Held`: any permissions, any scope), and the two conditions of
a read, `CategoryTree` the filing tree, `Vault` documents, versions and stored
objects over both, `FileHistory` what the vault promises: a document is the list
of all that was uploaded to it, appended to or removed as a whole.

| Model | Code |
|---|---|
| `category[c]` | a `document_category` row; `CreateCategory`, `MoveCategory`, `DeleteCategory` with the cascade, the restricting foreign key and the unique constraint |
| `document[d]`, `revision[d][n]` | the rows of a document and of its versions; `current` is `current_version_id` |
| `objects` | keys the store holds bytes under; either storage driver |
| `req[r]` | a request between its first read and its commit |
| `BeginCreate`, `BeginAppend`, `WriteObject`, `InsertVersion` | `create_document`, `add_version`: the bytes are written before the row that names them |
| `BeginDelete`, `DeleteObject`, `DeleteRows` | `delete_document`: the bytes are deleted before the rows |
| `UpdateDocument` | `update_document` |
| `Fail` | the store refuses, a constraint is violated, the process dies: rows are rolled back, objects stay |
| `condemned` | history: documents whose deletion was begun |

| Run | Instance | What it shows |
|---|---|---|
| `VaultConcurrent` | one document, two requests, four keys, three versions, two categories, one slug; a director whose role is as shipped and a vice-president whose role was edited | `TypeOK`, `HistoryIsGapless`, `LossesAreDeletions`, `FilingIsIntact` (documents lie in categories that exist, below categories that exist), `CyclesAreStuck` (categories moved beneath each other are in no listing and go with no deletion), and `FilesSpec`: `Vault` implements `FileHistory` |

Bounds. Two requests on one document make every race (two uploads of one number,
an upload against a deletion, two deletions); four keys are two stored versions
and two uploads; requests and keys are interchangeable (symmetry). The proofs
need none of these.

Proofs (`VaultProofs`): `ParentsAlwaysExist`; `GaplessHistories`, with `Pending`
(an upload under way is at most one number ahead of what is committed, whatever
was deleted meanwhile); `FilingStaysIntact`: a category somebody is filing
into is `Holding`, so the foreign key keeps it; `OnlyDeletionsLoseBytes`, with `KeysOnce` (`UploadsOwn`,
`DeletionsOwn`, `RowsOwn`: a key is in one place at a time, so a deletion cannot
reach the bytes of another document), and from the same invariant
`OneObjectPerVersion`; `VersionsAreImmutable`, a step property;
`ImplementsFileHistory`, the refinement.

`CyclesStayStuck` is about the tree for any number of categories. A subtree is
the least set that has its root and is closed under children, which says
everything without recursion (`SubtreeFacts`, `ParentInSubtree`): a parent pointer never leads out of a cycle
(`CycleClosed`), whatever has a member of the cycle beneath it is in the cycle
(`OutsideCycle`, `CycleAbove`), and neither a listing, which begins at the roots,
nor a deletion, which begins at a category outside it, gets there. The listing
is that of all the categories; one filtered by department shows a row whose
parent is in another department as if it were a root.

Two theorems are about `VaultRules` alone and hold for every caller, whatever the
role rows say. `FurtherOfficesHideNothing`: the read filter is monotone in the
offices held, provided that whoever then views everywhere also holds
`view_all_departments`. `ViewingEverywhereHides`: the proviso is needed, because
the filter's department branch lists the departments in which the permission
is held one by one and a permission held everywhere lists none
(`vault_service.py:58`). Every template satisfies the proviso; an edited role need
not.

## 7. Roles and start-up

`Roles` is the table of grants: console edits as the statements they are (a
DELETE that takes a snapshot and waits for locks, then inserts) against the
synchronisation of every start, both overlapping. `Seeds` is what a start makes
of departments and categories that people edited since the last one.

| Model | Code |
|---|---|
| `grants[x]`, `rescoped`, `made` | `role_permission` rows, `role.scope`, custom roles |
| `edit[r]`, `start[p]` | an edit or a synchronisation under way; `edited` is history |
| `Create`, `BeginEdit` ... `CommitEdit`, `Rescope`, `Delete` | `role_service` |
| `ReadRoles`, `SyncRoles`, `StartFails` | `_sync_roles` of `provisioning_service` |
| `Provision`, `CreateDepartment`, `EditTree` | in `Seeds`: a start as a whole, the console between two starts |

| Run | Instance | What it shows |
|---|---|---|
| `RolesRestarts` | president and director as editors, two offices, one custom role, two tracked permissions, two requests, one process | `TypeOK`, `NothingFromNowhere`, `StartsRestore` |
| `FindSeeds` (violation) | one blueprint department and one created, seven category rows, two slugs | a start that fails (section 11) |

Bounds. A chain of edits that brings up a permission needs two editors who edit
each other's offices; two permissions tell the one that allows editing from one
that does not. One process is enough for a start to overlap an edit; overlapping
starts are covered by the proofs.

Proofs (`RolesProofs`): `TypeCorrect` (a deleted role has no grant);
`NothingComesFromNowhere`, with `WantedWithinReach` (what an edit under way will
insert is within `Reach`); `EveryStartRestores`, with `SnapshotsHold` (for a role
not edited since it was read, what a synchronisation read is still so) and
`Restored`. `SettingsStayWithAdministrators` is what `NothingComesFromNowhere`
means for the permission only the administrator's template has.
That an edit leaves exactly the set it asked for is not among the properties:
the DELETE of an edit that waited for another does not see what that one
inserted (`role_service.py:211`), so two legal edits can leave their union, which
the model has and no document speaks against.

## 8. Digest

`Dispatcher` is the single exit for mail: log row, provider call, outcome.
`Digest` adds processes that stop and start, timers kept in memory, and a run
that is one transaction over all members. `DailyMail` is what it promises.

| Model | Code |
|---|---|
| `log`, `inbox` | committed `email_delivery_log` rows; what the provider took, acknowledged or not |
| `up`, `due[p]` | processes, and the next run time of their timers (`CronTrigger`) |
| `run[p]` | the transaction of a run: members left, rows written |
| `Fire`, `Skip`, `Send`, `Finish` | `run_daily_digest` and the job around it |
| `Start`, `Stop` | a process; stopping rolls its run back, the mail has left |
| `Tick` | the digest hour, then midnight |
| `overlapping` | whether a deploy starts the new process before it stops the old one; chosen once, both are checked |

| Run | Instance | What it shows |
|---|---|---|
| `DigestRestarts` | two processes, two members, two days, any stops and starts | `TypeOK`, `NoSecondCopy`, `MailSpec` (`Digest` implements `DailyMail`), `DigestReachesEveryone` |

Bounds. A second copy needs a run, a stop in the middle and a process that comes
after it: two of each. A second day is what a late start must wait for.

Proofs (`DigestProofs`): `LogTruthful` (a row that says sent is about mail the
provider took; only proved), with `HonestRows` (the uncommitted rows
of a run are about mail that left); `OneCopyOnly`, with `Timing` (a timer set
during the day is for the next one) and `OneCopy`; `ImplementsDailyMail`, with
`FewCopies`: with overlap, a member's copies of a day come from different
processes, each of which has `Spent` its run of the day. `MailStaysInItsHour`
uses the same invariant: before the hour every process still has its turn, so
nothing has been mailed.

## 9. Activities and announcements

`Notices` extends `Dispatcher` with activities and announcements: requests that
read a row, write the columns that differ, mail the audience member by member
and commit. A write holds the row until the commit.

| Model | Code |
|---|---|
| `row[a]` | an activity: status, audience, whether `published_at` and `announced_at` are set |
| `had[a]` | history: the audiences that committed rows of the activity had |
| `board[n]` | an announcement: whom it is for, whether it is listed (`published_at`) and mailed (`emailed_at`) |
| `req[r]` | a request: the row as it read it (`seen`), as it will write it (`goal`), members left to mail |
| `Create`, `BeginUpdate`/`CommitUpdate`, `BeginPublish`/`FlushPublish`/`CommitPublish`, `Delete` | `activity_service` |
| `BeginPost`/`CommitPost` | `create_announcement`, published or kept back (`publish_now`), mailed or not |
| `Announce`, `Broadcast` | the loops of `_announce` and `send_broadcast`, one member at a time |
| `Fail` | a rollback after any of them; `lost` counts those after which mail had left |

A broadcast on its own (`POST /notifications/broadcast`) is the mailing half of
a post, without its row; with `preview_only` it does nothing. The roster does not
change here (`Placement` is about that), nor do the callers' roles, which are any
permissions and scopes (`Callers`).

| Run | Instance | What it shows |
|---|---|---|
| `NoticesConcurrent` | two requests, one activity, one announcement, a member and an alumnus, president and director, one failure after mail had left | `TypeOK`, `AnnouncementsBounded`; `AnnouncedMeansMailed`: every member of an audience the activity itself had was attempted; `MailedCanRead`: a copy that left is about a posting its reader can list, or will be, or was rolled back; `EmailedReachesReaders`: whoever can list a mailed announcement was attempted, alumni excepted; `AnnouncedForever` |
| `FindAlumni` (violation) | one request | without that exception (section 11) |

Bounds. Two requests are what it takes to publish twice, or to write back a row
read too early; `MaxLost` bounds the failures that repeat mail. Deadlock is not
checked: everything may have been posted or deleted, with nothing left to do.

Proofs (`NoticesProofs`): `AnnouncedOnce`, with `GoalsKeep` (what a request will
write never clears what it read as set, and unread columns are not written);
`AnnouncedWasMailed`, with `PublicationsHold` (a publication has attempted all
of its audience but those left), `AudiencesHad` (the audience it mails is one that
a committed row had) and `RowsOwn`; `MailedReaders`, with `PostsHold`,
`LoggedCanRead` and `CopiesExplained` (every copy that left has a committed row,
a row of a request still at work, or was lost with one rolled back);
`EmailedReaches`, with `PostsHold`; `CopiesBounded`, with `CopiesCounted`: until
`announced_at` is committed each copy is from a request still at work or rolled
back, and afterwards nobody new starts to announce. `RecordedStaysDone` is the
converse of `AnnouncedMeansMailed`: the log, whose rows are committed with what
they are about, records no mail of a publication or a post that was lost
(`HonestRows`, `NewRow`, `SettledStays`).

## 10. Fairness, and what stays with the model checker

Two specifications state fairness.

* `Digest`: weak fairness of `Tick` and of each process's `Work`. The timer's
  thread fires, and every call a run makes to the mail
  provider has a timeout (`REQUEST_TIMEOUT_SECONDS`, `resend_client.py:23`). Two assumptions about time are guards of `Tick`:
  a due timer fires within its misfire grace time, and a run is over by the next
  digest hour. Nothing forces a process to start or stop.
* `ClientTabs`: weak fairness of `Answer`, `CheckRefresh`, `AnswerRefresh`, `ComeBack` and
  `RefreshComesBack`: `fetch` settles, and the code behind an await runs. No
  fairness for people, reloads, losses or expiry.

Everything else is done by people, and nothing makes any of them act; those
specifications are `Init /\ [][Next]_vars`.

Only model-checked: the liveness properties `EveryCallEnds` and
`DigestReachesEveryone` (the prover has no rules for fairness), and the
violation runs. Every invariant, action property and refinement of a passing run
is also proved, for all values of the constants. Only proved:
`TransferKeepsPredecessor`, `LogIsTruthful`, the administrator's placements and
the theorems without a run's property. The proofs assume what the
modules' ASSUMEs name, which includes nothing about how requests overlap or what
roles were edited to; the model checker evaluates those on every run. No proved
module declares a recursive operator.

## 11. Where code and documentation disagree

Three of these are runs that find the state; the others were met while modelling,
and the models have the behaviour.

* `FindReplay`: `refresh` revokes every session of a rotated token's account and
  then raises (`authentication_service.py:158`); `provide_session` rolls back
  (`session.py:52`), so nothing is revoked, against the module's opening
  sentence (`:3`). For the same reason wrong guesses never retire a code
  (`verification_service.py:86`; `email_verification_code.py:3`; the definition
  `GuessesRetire`) and wrong passwords never lock an account
  (`authentication_service.py:104`; `:35`; `FailuresLock`).
* `FindSeeds`: a second top-level category with a seeded slug, which the unique
  constraint allows because a null parent equals no other null, makes
  `_ensure_category` raise (`provisioning_service.py:208`) and every later start
  fail, against `:3`.
* `FindAlumni`: an announcement to the association is listed for alumni
  (`announcement_service.py:46`) and not mailed to them
  (`broadcast_service.py:55`), against `announcement_service.py:85`, "the same
  audience that can read it". A second difference is left alone: members with
  organization reach may list the announcements of every department and are
  mailed those of their own.
* An account approved without a confirmed mailbox, against ARCHITECTURE.md:34:
  `reject_registration` accepts any status (`administration_service.py:212`), and
  `approve_registration` accepts REJECTED.
* A president can leave the seat empty, against `appointment_rules.py:156`:
  `assign` and `modify` overwrite the caller's own row and ask only the
  appointment rules (`membership_service.py:105`). If no administrator is left
  either, the vacancy is final (`VacancyIsForever`).
* A sign-in or refresh that overlaps a password change can outlive it, against
  `authentication_service.py:211`: the bulk revocation (`:222`) does not see a
  row committed later; `NoSessionOutlivesItsEnd` says that only such an overlap
  does it.
* "Refresh tokens rotate on every use" (`authentication_service.py:3`): two overlapping exchanges of one
  token both succeed, and the sign-in has two sessions, of which `rotated_to_id`
  reaches one; `OneSessionPerSignIn` says that only such an overlap does it.
* "A second 401 means the session is gone" (`apiClient.ts:80`): a call refused
  with a token that another call has meanwhile refreshed asks for a second
  refresh, which revokes the token of the first call's retry; a live session is
  cleared. One refresh at a time (`refreshOnUnauthorized.ts:8`) does not help a
  401 that comes late.
* A refresh answered after a sign-out stores its pair and brings the session
  back, against `tokenStorage.ts:14`; `SignedOutStaysOut` covers sign-outs with
  no refresh under way.
* "Once only" (`activity_service.py:172`): overlapping publications, and one
  rolled back after its mail had left, announce again; `AnnouncementsBounded` is
  what holds.
* Overlapping processes send the digest twice, against `digest_scheduler.py:3`;
  `email_delivery_log.py:66` speaks of a uniqueness that is an ordinary index.
  A process that starts after the digest hour does not catch up, whatever
  `digest_scheduler.py:49` says: its timer starts from the clock.
* Seeded categories "cannot be deleted" (`category.py:54`), but moved beneath a
  custom parent they go with it, by the cascade.
* System roles "so the organization cannot lock itself out" (`role.py:49`): their
  grants can be edited away; the next start restores them (`StartsRestore`).

Behaviours nothing in the repository speaks against, but a reader may not expect:
an activity for alumni is mailed to alumni who cannot see it; mail
goes to members of a retired department; `update_activity` can set PUBLISHED
without the publish permission and without `published_at`; two moves can make a
cycle of categories that no listing shows and no deletion removes (`InCycle`, `CyclesAreStuck`); a
deletion racing a new version leaves an object that no row names; retiring the
presidium (`department_service.py:160`) takes away the grants of everyone who
could restore it, a platform administrator excepted; `revoke` of the last
membership leaves an ACTIVE account with nowhere to land
(`administration_service.py:4` says placement at approval prevents that);
`reject_registration` applies to members admitted long ago; the requested
department, "advisory" according to `user_account.py:64`, decides who may decide;
a displaced president becomes a `department_member` of the presidium, an office
`office_keys_for_department` does not list there; the Internal Vice President's
description promises placements and the Secretary-General's promises
registrations, but neither template grants the permission
(`role_templates.py:173`, `:183`); roles created in the console have no office
key and can never be assigned.

## 12. Not modelled, and what is left

Rendering and forms of the client (they decide nothing that a service does not
decide again); password hashing, token encoding and address rules (library calls
and pure predicates, whose outcome the models choose freely); the weather
request; the audit log (rows are only added, with what they describe); the
timetable and profiles (rows only their owner or one officer writes);
migrations; wiring. `PROJECT.json` lists each with its reason.

What could still be added:

1. `PlacementConcurrent`: the transactions of `Placement` split at their
   statements, with `Placement` as its abstract specification. With two
   overlapping placements the seat limit and the primary flag are the questions
   (`appointment_service.py:246`, `membership_service.py:277`): nothing in the
   schema enforces either.
2. The visibility of profiles in the directory, as pure operators beside
   `VaultRules`.
3. Membership changes during a mailing: `Placement` composed with `Notices`.
