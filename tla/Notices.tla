------------------------------ MODULE Notices ------------------------------
(***************************************************************************)
(* Activities and announcements, and the mail that publishing one sends.   *)
(*                                                                         *)
(* Requests overlap (READ COMMITTED).  Each is one transaction: it reads   *)
(* the activity's row, writes the columns that differ from what it read,   *)
(* mails the audience member by member, and commits.  A write takes the    *)
(* lock of the row until the commit; a request that has written nothing    *)
(* yet holds none.  Fail is whatever rolls a request back, at any point:   *)
(* the mail has left.                                                      *)
(*                                                                         *)
(* Members are the active accounts that accept notices; who is in which    *)
(* department does not change here (Placement is about that).  Callers     *)
(* carry the permissions of their role rows, as shipped or as edited.      *)
(***************************************************************************)
EXTENDS Dispatcher, AppointmentRules, FiniteSets

CONSTANTS
  Callers,         \* authorization contexts
  Requests,
  Activities, Announcements,
  Departments,
  Home,            \* Home[a]: the department that runs activity a
  Roster,          \* Roster[d]: members with a current membership of d
  Alumni,          \* members whose affiliation is alumnus
  StatusInputs, AudienceInputs,   \* what people choose in the forms
  Answers,         \* the outcomes of the provider's calls
  MaxLost,         \* bound: failures after mail of one letter has left
  NotYet, Gone     \* no row: not created yet, deleted

VARIABLES
  row,     \* row[a]: the activity
  had,     \* history: had[a]: the audiences that committed rows of a had
  board,   \* board[n]: announcement n as posted
  req,     \* requests between their first read and their end
  lost     \* history: lost[l]: requests rolled back after mail of l had left

vars == <<log, inbox, row, had, board, req, lost>>

Association == "association"   \* department_id is null
Targets == Departments \cup {Association}

Statuses == {"draft", "published", "cancelled", "completed"}
Audiences == {"department", "all_members", "alumni", "public"}
Columns == {"status", "audience", "published", "announced"}
\* published, announced: whether published_at and announced_at are set.
Row == [status : Statuses, audience : Audiences, published : BOOLEAN, announced : BOOLEAN]
\* listed, emailed: whether published_at and emailed_at are set.
Posting == [target : Targets, listed : BOOLEAN, emailed : BOOLEAN]

Idle == [op |-> "idle"]
ActivityRequest == [op : {"publish", "update"}, of : Activities, seen : Row, goal : Row,
                    notify : BOOLEAN, flushed : BOOLEAN, left : SUBSET Members, rows : SUBSET LogRow]
PostRequest == [op : {"post"}, of : Announcements, goal : Posting,
                left : SUBSET Members, rows : SUBSET LogRow]

ASSUME NoticesAssumption ==
  /\ Letters = Activities \cup Announcements /\ Activities \cap Announcements = {}
  /\ IsFiniteSet(Requests)
  /\ MaxLost \in Nat /\ Answers \subseteq Outcomes
  /\ Home \in [Activities -> Departments]
  /\ Roster \in [Departments -> SUBSET Members] /\ Alumni \subseteq Members
  /\ StatusInputs \subseteq Statuses /\ AudienceInputs \subseteq Audiences
  /\ NotYet \notin Row \cup Posting /\ Gone \notin Row \cup {NotYet}

TypeOK ==
  /\ DispatchTypeOK
  /\ row \in [Activities -> Row \cup {NotYet, Gone}]
  /\ had \in [Activities -> SUBSET Audiences]
  /\ board \in [Announcements -> Posting \cup {NotYet}]
  /\ req \in [Requests -> {Idle} \cup ActivityRequest \cup PostRequest]
  /\ lost \in [Letters -> Nat]

Init ==
  /\ DispatchInit
  /\ row = [a \in Activities |-> NotYet]
  /\ had = [a \in Activities |-> {}]
  /\ board = [n \in Announcements |-> NotYet]
  /\ req = [r \in Requests |-> Idle]
  /\ lost = [l \in Letters |-> 0]

(***************************************************************************)
(* Who may do what.                                                        *)
(***************************************************************************)
NoticePermissions == {"view", "create", "edit", "delete", "publish",
                      "send_department", "send_organization"}

\* As shipped.
NoticeGrants(office) ==
  CASE office \in {Administrator, President, InternalVP, ExternalVP} -> NoticePermissions
    [] office = SecretaryGeneral -> {"view", "create", "edit", "send_organization"}
    [] office = Director -> {"view", "create", "edit", "delete", "send_department"}
    [] office = Deputy -> {"view", "create", "edit", "send_department"}
    [] OTHER -> {"view"}

\* Without a department the question is whether the permission is held anywhere.
MayNotify(ctx, p, d) == IF d = Association THEN HasAnywhere(ctx, p) ELSE Has(ctx, p, d)

Exists(a) == row[a] \notin {NotYet, Gone}

Visible(ctx, a) ==
  /\ Exists(a)
  /\ MayNotify(ctx, "view", Association)
  /\ \/ HasOrganizationReach(ctx)
     \/ /\ row[a].status \in {"published", "completed"}
        /\ row[a].audience \in {"all_members", "public"}
     \/ \E m \in ctx.held : m.dept = Home[a]

\* _resolve_audience.
Audience(a, audience) ==
  CASE audience = "department" -> Roster[Home[a]]
    [] audience = "alumni" -> Alumni
    [] OTHER -> Members

\* Slip: a department's broadcast forgets which department it is for.
RecipientsAnywhere(target, alumniToo) ==
  IF alumniToo THEN Members ELSE Members \ Alumni

\* Slip: an announcement for alumni is mailed to them alone.
RecipientsAlumni(target, alumniToo) ==
  CASE target # Association -> Roster[target]
    [] target = Association /\ alumniToo -> Alumni
    [] OTHER -> Members \ Alumni

\* resolve_recipients: only the association as a whole asks whether alumni are meant too.
Recipients(target, alumniToo) ==
  CASE target # Association -> Roster[target]
    [] target = Association /\ alumniToo -> Members
    [] OTHER -> Members \ Alumni

\* Asked when an announcement is posted and again before it is mailed.
MayBroadcast(ctx, target) ==
  MayNotify(ctx, IF target = Association THEN "send_organization" ELSE "send_department", target)

\* list_announcements, for a member without organization reach.
Reads(u, posting) ==
  posting.listed /\ (posting.target = Association \/ u \in Roster[posting.target])

(***************************************************************************)
(* Writing a row.                                                          *)
(***************************************************************************)
\* Slip: every column is written back.
EveryColumn(seen, goal) == Columns

\* The unit of work writes the columns whose value differs from the one loaded.
Dirty(seen, goal) == {c \in Columns : seen[c] # goal[c]}

Merged(now, seen, goal) == [c \in Columns |-> IF c \in Dirty(seen, goal) THEN goal[c] ELSE now[c]]

HoldsLock(r) == /\ req[r].op = "publish" /\ req[r].flushed
                /\ Dirty(req[r].seen, req[r].goal) # {}

LockFree(a, r) == \A q \in Requests \ {r} : HoldsLock(q) => req[q].of # a

\* An UPDATE waits for the lock and finds the row gone if it was deleted.
CanWrite(r, goal) ==
  Dirty(req[r].seen, goal) # {} => LockFree(req[r].of, r) /\ Exists(req[r].of)

Write(r, goal) ==
  IF Dirty(req[r].seen, goal) = {} THEN row
  ELSE [row EXCEPT ![req[r].of] = Merged(@, req[r].seen, goal)]

\* The audiences once the table is committed as it is now.
Recorded(table) ==
  [a \in Activities |-> IF table[a] \in {NotYet, Gone} THEN had[a] ELSE had[a] \cup {table[a].audience}]

(***************************************************************************)
(* Activities.                                                             *)
(***************************************************************************)
\* Slip: the audience may be left null.
CreateForNobody(ctx, a, audience) ==
  /\ MayNotify(ctx, "create", Home[a])
  /\ row[a] = NotYet
  /\ row' = [row EXCEPT ![a] =
       [status |-> "draft", audience |-> NotYet, published |-> FALSE, announced |-> FALSE]]
  /\ had' = Recorded(row')
  /\ UNCHANGED <<log, inbox, board, req, lost>>

Create(ctx, a, audience) ==
  /\ MayNotify(ctx, "create", Home[a])
  /\ row[a] = NotYet
  /\ row' = [row EXCEPT ![a] =
       [status |-> "draft", audience |-> audience, published |-> FALSE, announced |-> FALSE]]
  /\ had' = Recorded(row')
  /\ UNCHANGED <<log, inbox, board, req, lost>>

BeginUpdate(r, ctx, a, status, audience) ==
  /\ req[r] = Idle
  /\ Visible(ctx, a) /\ MayNotify(ctx, "edit", Home[a])
  /\ req' = [req EXCEPT ![r] =
       [op |-> "update", of |-> a, seen |-> row[a],
        goal |-> [row[a] EXCEPT !.status = status, !.audience = audience],
        notify |-> FALSE, flushed |-> FALSE, left |-> {}, rows |-> {}]]
  /\ UNCHANGED <<log, inbox, row, had, board, lost>>

CommitUpdate(r) ==
  /\ req[r].op = "update"
  /\ CanWrite(r, req[r].goal)
  /\ row' = Write(r, req[r].goal)
  /\ had' = Recorded(row')
  /\ req' = [req EXCEPT ![r] = Idle]
  /\ UNCHANGED <<log, inbox, board, lost>>

BeginPublish(r, ctx, a, notify) ==
  /\ req[r] = Idle
  /\ Visible(ctx, a) /\ MayNotify(ctx, "publish", Home[a])
  /\ req' = [req EXCEPT ![r] =
       [op |-> "publish", of |-> a, seen |-> row[a],
        goal |-> [row[a] EXCEPT !.status = "published", !.published = TRUE],
        notify |-> notify, flushed |-> FALSE, left |-> {}, rows |-> {}]]
  /\ UNCHANGED <<log, inbox, row, had, board, lost>>

\* Slip: an edited activity is announced again.
AnnouncingEachTime(r) == req[r].notify

\* notify_by_email and activity.announced_at is None, as the request read it.
Announcing(r) == req[r].notify /\ ~req[r].seen.announced

FlushPublish(r) ==
  /\ req[r].op = "publish" /\ ~req[r].flushed
  /\ CanWrite(r, req[r].goal)
  /\ req' = [req EXCEPT
       ![r].flushed = TRUE,
       ![r].left = IF Announcing(r) THEN Audience(req[r].of, req[r].seen.audience) ELSE {}]
  /\ UNCHANGED <<log, inbox, row, had, board, lost>>

\* Slip: the activity counts as announced whether or not it was mailed.
GoalAnnounced(r) == [req[r].goal EXCEPT !.announced = TRUE]

FinalGoal(r) == IF Announcing(r) THEN [req[r].goal EXCEPT !.announced = TRUE] ELSE req[r].goal

CommitPublish(r) ==
  /\ req[r].op = "publish" /\ req[r].flushed /\ req[r].left = {}
  /\ CanWrite(r, FinalGoal(r))
  /\ row' = Write(r, FinalGoal(r))
  /\ had' = Recorded(row')
  /\ log' = log \cup req[r].rows
  /\ req' = [req EXCEPT ![r] = Idle]
  /\ UNCHANGED <<inbox, board, lost>>

Delete(ctx, a) ==
  /\ Visible(ctx, a) /\ MayNotify(ctx, "delete", Home[a])
  /\ \A r \in Requests : HoldsLock(r) => req[r].of # a
  /\ row' = [row EXCEPT ![a] = Gone]
  /\ UNCHANGED <<log, inbox, had, board, req, lost>>

(***************************************************************************)
(* Announcements: one request posts the row and broadcasts it, if it is to *)
(* be published now and mailed.  An announcement that nobody posted        *)
(* because the request failed is the same letter when it is posted again.  *)
(***************************************************************************)
BeginPost(r, ctx, n, target, alumniToo, sendEmail, publishNow) ==
  /\ req[r] = Idle
  /\ MayBroadcast(ctx, target)
  /\ board[n] = NotYet
  /\ \A q \in Requests : req[q] # Idle => req[q].of # n
  /\ req' = [req EXCEPT ![r] =
       [op |-> "post", of |-> n,
        goal |-> [target |-> target, listed |-> publishNow, emailed |-> sendEmail /\ publishNow],
        left |-> IF sendEmail /\ publishNow THEN Recipients(target, alumniToo) ELSE {}, rows |-> {}]]
  /\ UNCHANGED <<log, inbox, row, had, board, lost>>

CommitPost(r) ==
  /\ req[r].op = "post" /\ req[r].left = {}
  /\ board' = [board EXCEPT ![req[r].of] = req[r].goal]
  /\ log' = log \cup req[r].rows
  /\ req' = [req EXCEPT ![r] = Idle]
  /\ UNCHANGED <<inbox, row, had, lost>>

(***************************************************************************)
(* Mailing, member by member; failing, for all.                            *)
(***************************************************************************)
Dispatch(r, u, outcome) ==
  /\ u \in req[r].left
  /\ inbox' = Taken(u, req[r].of, outcome)
  /\ req' = [req EXCEPT ![r].left = @ \ {u}, ![r].rows = @ \cup {Entry(u, req[r].of, outcome)}]
  /\ UNCHANGED <<log, row, had, board, lost>>

\* The loop of _announce, over the audience of a published activity.
Announce(r, u, outcome) == req[r].op = "publish" /\ Dispatch(r, u, outcome)

\* The loop of send_broadcast, over the recipients of an announcement.
Broadcast(r, u, outcome) == req[r].op = "post" /\ Dispatch(r, u, outcome)

Fail(r) ==
  /\ req[r] # Idle
  /\ IF req[r].rows = {} THEN UNCHANGED lost
     ELSE /\ lost[req[r].of] < MaxLost
          /\ lost' = [lost EXCEPT ![req[r].of] = @ + 1]
  /\ req' = [req EXCEPT ![r] = Idle]
  /\ UNCHANGED <<log, inbox, row, had, board>>

Next ==
  \/ \E ctx \in Callers, a \in Activities :
       \/ \E audience \in AudienceInputs : Create(ctx, a, audience)
       \/ Delete(ctx, a)
       \/ \E r \in Requests :
            \/ \E status \in StatusInputs, audience \in AudienceInputs :
                 BeginUpdate(r, ctx, a, status, audience)
            \/ \E notify \in BOOLEAN : BeginPublish(r, ctx, a, notify)
  \/ \E ctx \in Callers, n \in Announcements, r \in Requests, target \in Targets :
       \E alumniToo, sendEmail, publishNow \in BOOLEAN :
         BeginPost(r, ctx, n, target, alumniToo, sendEmail, publishNow)
  \/ \E r \in Requests :
       \/ CommitUpdate(r)
       \/ FlushPublish(r)
       \/ CommitPublish(r)
       \/ CommitPost(r)
       \/ \E u \in Members, outcome \in Answers : Announce(r, u, outcome) \/ Broadcast(r, u, outcome)
       \/ Fail(r)

Spec == Init /\ [][Next]_vars

(***************************************************************************)
(* Properties.                                                             *)
(***************************************************************************)
\* However often an activity is edited, withdrawn and published again, a member is mailed about it
\* at most once for each request that may overlap the first announcement, and once for each that
\* was rolled back after its mail had left.
AnnouncementsBounded ==
  \A u \in Members, a \in Activities : inbox[u][a] <= Cardinality(Requests) + lost[a]

\* announced_at is never taken back, neither by publishing again nor by an update that had read
\* the row before it was set.
AnnouncedForever ==
  [][\A a \in Activities :
       Exists(a) /\ row[a].announced /\ row'[a] # Gone => row'[a].announced]_vars

\* announced_at is the record that the announcement went out: for one of the audiences that the
\* activity itself had, as created or by an update that was committed, every member of it has a
\* committed delivery row, whoever edited and published meanwhile.
AnnouncedMeansMailed ==
  \A a \in Activities : Exists(a) /\ row[a].announced =>
    \E audience \in had[a] : \A u \in Audience(a, audience) :
      \E e \in log : e.to = u /\ e.letter = a

Posted(u, n) == board[n] # NotYet /\ Reads(u, board[n])

\* A request that is about to post n where u will read it.
UnderWay(u, n) == \E r \in Requests : req[r].op = "post" /\ req[r].of = n /\ Reads(u, req[r].goal)

\* Whoever is mailed an announcement can read it on their portal (announcement_service.py:85: "the
\* same audience that can read it"): of the copies that left, all but those of requests that were
\* rolled back afterwards, and at most one, are about a posting that lists it for them, or is about to.
MailedCanRead ==
  \A u \in Members, n \in Announcements :
    inbox[u][n] <= lost[n] + (IF Posted(u, n) \/ UnderWay(u, n) THEN 1 ELSE 0)

\* The other half of the same sentence: if emailed_at is set, whoever the portal lists the
\* announcement for has a committed delivery row of it, attempts that failed included, except
\* alumni when it is the whole association's.
EmailedReachesReaders ==
  \A u \in Members, n \in Announcements :
    /\ Posted(u, n) /\ board[n].emailed
    /\ board[n].target = Association => u \notin Alumni
    => \E e \in log : e.to = u /\ e.letter = n

\* As the documentation has it, alumni included.
EmailedReachesEveryReader ==
  \A u \in Members, n \in Announcements :
    Posted(u, n) /\ board[n].emailed => \E e \in log : e.to = u /\ e.letter = n
=============================================================================
