---------------------------- MODULE NoticesProofs ----------------------------
(***************************************************************************)
(* Proofs about Notices, for any members, officers, activities,            *)
(* announcements and any finite set of overlapping requests.               *)
(***************************************************************************)
EXTENDS Notices, FiniteSetTheorems, TLAPS

\* Merging what a request changed into what the row holds now gives a row.
LEMMA MergedIsRow ==
  ASSUME NEW now \in Row, NEW seen \in Row, NEW goal \in Row
  PROVE  /\ Merged(now, seen, goal) \in Row
         /\ Merged(now, seen, goal).announced =
              IF seen.announced # goal.announced THEN goal.announced ELSE now.announced
  BY DEF Merged, Dirty, Columns, Row

\* A write leaves a table of rows, and the rows of other activities alone.
LEMMA WriteType ==
  ASSUME TypeOK, NEW r \in Requests, req[r] \in ActivityRequest, NEW goal \in Row,
         CanWrite(r, goal)
  PROVE  Write(r, goal) \in [Activities -> Row \cup {NotYet, Gone}]
  <1>1. CASE Dirty(req[r].seen, goal) = {}
    BY <1>1 DEF TypeOK, Write
  <1>2. CASE Dirty(req[r].seen, goal) # {}
    <2>1. req[r].of \in Activities /\ req[r].seen \in Row
      BY DEF ActivityRequest
    <2>2. row[req[r].of] \in Row
      BY <1>2, <2>1 DEF CanWrite, Exists, TypeOK
    <2>3. Merged(row[req[r].of], req[r].seen, goal) \in Row
      BY <2>1, <2>2, MergedIsRow
    <2>4. QED
      BY <1>2, <2>1, <2>3 DEF Write, TypeOK
  <1>3. QED
    BY <1>1, <1>2

\* What a request holds tells which operation it is.
LEMMA RequestKinds ==
  ASSUME TypeOK, NEW r \in Requests
  PROVE  /\ req[r].op \in {"publish", "update"} => req[r] \in ActivityRequest
         /\ req[r].op = "post" => req[r] \in PostRequest
         /\ req[r] # Idle => req[r] \in ActivityRequest \cup PostRequest
  BY DEF TypeOK, Idle, ActivityRequest, PostRequest

\* The log and the board change only when a publication or a post is committed.
LEMMA OnlyCommitsShow ==
  [Next]_vars => UNCHANGED <<log, board>> \/ \E r \in Requests : CommitPublish(r) \/ CommitPost(r)
  <1>1. ASSUME NEW ctx \in Callers, NEW a \in Activities,
               Delete(ctx, a) \/ \E audience \in AudienceInputs : Create(ctx, a, audience)
        PROVE  UNCHANGED <<log, board>>
    BY <1>1 DEF Delete, Create
  <1>2. ASSUME NEW ctx \in Callers, NEW a \in Activities, NEW r \in Requests, NEW notify \in BOOLEAN,
               BeginPublish(r, ctx, a, notify)
        PROVE  UNCHANGED <<log, board>>
    BY <1>2 DEF BeginPublish
  <1>3. ASSUME NEW ctx \in Callers, NEW a \in Activities, NEW r \in Requests,
               NEW status \in StatusInputs, NEW audience \in AudienceInputs, BeginUpdate(r, ctx, a, status, audience)
        PROVE  UNCHANGED <<log, board>>
    BY <1>3 DEF BeginUpdate
  <1>4. ASSUME NEW ctx \in Callers, NEW n \in Announcements, NEW r \in Requests, NEW target \in Targets,
               NEW alumniToo \in BOOLEAN, NEW sendEmail \in BOOLEAN, NEW publishNow \in BOOLEAN, BeginPost(r, ctx, n, target, alumniToo, sendEmail, publishNow)
        PROVE  UNCHANGED <<log, board>>
    BY <1>4 DEF BeginPost
  <1>5. ASSUME NEW r \in Requests, CommitUpdate(r) \/ FlushPublish(r) \/ Fail(r)
        PROVE  UNCHANGED <<log, board>>
    BY <1>5 DEF CommitUpdate, FlushPublish, Fail
  <1>6. ASSUME NEW r \in Requests, NEW u \in Members, NEW outcome \in Answers,
               Announce(r, u, outcome) \/ Broadcast(r, u, outcome)
        PROVE  UNCHANGED <<log, board>>
    BY <1>6 DEF Announce, Broadcast, Dispatch
  <1>7. CASE UNCHANGED vars
    BY <1>7 DEF vars
  <1>8. QED
    BY <1>1, <1>2, <1>3, <1>4, <1>5, <1>6, <1>7 DEF Next

\* The table of activities changes only by these operations; all but a deletion record it.
LEMMA RowCases ==
  [Next]_vars =>
    \/ UNCHANGED <<row, had>>
    \/ \E ctx \in Callers, a \in Activities : Delete(ctx, a)
    \/ \E ctx \in Callers, a \in Activities, audience \in AudienceInputs : Create(ctx, a, audience)
    \/ \E r \in Requests : CommitUpdate(r) \/ CommitPublish(r)
  <1>1. ASSUME NEW ctx \in Callers, NEW a \in Activities, NEW r \in Requests, NEW notify \in BOOLEAN,
               BeginPublish(r, ctx, a, notify)
        PROVE  UNCHANGED <<row, had>>
    BY <1>1 DEF BeginPublish
  <1>2. ASSUME NEW ctx \in Callers, NEW a \in Activities, NEW r \in Requests,
               NEW status \in StatusInputs, NEW audience \in AudienceInputs,
               BeginUpdate(r, ctx, a, status, audience)
        PROVE  UNCHANGED <<row, had>>
    BY <1>2 DEF BeginUpdate
  <1>3. ASSUME NEW ctx \in Callers, NEW n \in Announcements, NEW r \in Requests, NEW target \in Targets,
               NEW alumniToo \in BOOLEAN, NEW sendEmail \in BOOLEAN, NEW publishNow \in BOOLEAN,
               BeginPost(r, ctx, n, target, alumniToo, sendEmail, publishNow)
        PROVE  UNCHANGED <<row, had>>
    BY <1>3 DEF BeginPost
  <1>4. ASSUME NEW r \in Requests, CommitPost(r) \/ FlushPublish(r) \/ Fail(r)
        PROVE  UNCHANGED <<row, had>>
    BY <1>4 DEF CommitPost, FlushPublish, Fail
  <1>5. ASSUME NEW r \in Requests, NEW u \in Members, NEW outcome \in Answers,
               Announce(r, u, outcome) \/ Broadcast(r, u, outcome)
        PROVE  UNCHANGED <<row, had>>
    BY <1>5 DEF Announce, Broadcast, Dispatch
  <1>6. CASE UNCHANGED vars
    BY <1>6 DEF vars
  <1>7. QED
    BY <1>1, <1>2, <1>3, <1>4, <1>5, <1>6 DEF Next

\* The audiences of rows are audiences, and those recorded stay recorded.
LEMMA RecordedType ==
  ASSUME TypeOK, NEW table \in [Activities -> Row \cup {NotYet, Gone}]
  PROVE  /\ Recorded(table) \in [Activities -> SUBSET Audiences]
         /\ \A a \in Activities : had[a] \subseteq Recorded(table)[a]
         /\ \A a \in Activities :
              table[a] \notin {NotYet, Gone} => table[a].audience \in Recorded(table)[a]
  BY DEF Recorded, Row, TypeOK

\* The audience of a mail consists of members.
LEMMA AudienceType ==
  /\ \A a \in Activities : \A audience : Audience(a, audience) \subseteq Members
  /\ \A target \in Targets : \A alumniToo : Recipients(target, alumniToo) \subseteq Members
  BY NoticesAssumption DEF Audience, Recipients, Targets, Association

LEMMA FinalGoalType ==
  ASSUME NEW r \in Requests, req[r] \in ActivityRequest
  PROVE  FinalGoal(r) \in Row
  BY DEF FinalGoal, ActivityRequest, Row

LEMMA MailType ==
  ASSUME TypeOK, NEW r \in Requests, NEW u \in Members, NEW outcome \in Answers,
         req[r].op \in {"publish", "post"}, Dispatch(r, u, outcome)
  PROVE  TypeOK'
  <1>1. req[r].of \in Letters
    BY RequestKinds, NoticesAssumption DEF ActivityRequest, PostRequest
  <1>2. Entry(u, req[r].of, outcome) \in LogRow
    BY <1>1 DEF Entry, LogRow
  <1>3. inbox' \in [Members -> [Letters -> Nat]]
    BY <1>1 DEF Dispatch, Taken, TypeOK, DispatchTypeOK
  <1>4. req' \in [Requests -> {Idle} \cup ActivityRequest \cup PostRequest]
    <2>1. CASE req[r].op = "publish"
      <3>1. [req[r] EXCEPT !.left = @ \ {u}, !.rows = @ \cup {Entry(u, req[r].of, outcome)}]
              \in ActivityRequest
        BY <1>2, <2>1, RequestKinds DEF ActivityRequest
      <3>2. QED
        BY <3>1 DEF Dispatch, TypeOK
    <2>2. CASE req[r].op = "post"
      <3>1. [req[r] EXCEPT !.left = @ \ {u}, !.rows = @ \cup {Entry(u, req[r].of, outcome)}]
              \in PostRequest
        BY <1>2, <2>2, RequestKinds DEF PostRequest
      <3>2. QED
        BY <3>1 DEF Dispatch, TypeOK
    <2>3. QED
      BY <2>1, <2>2
  <1>5. QED
    BY <1>3, <1>4 DEF Dispatch, TypeOK, DispatchTypeOK

LEMMA TypeStep == TypeOK /\ [Next]_vars => TypeOK'
  <1> SUFFICES ASSUME TypeOK, [Next]_vars
               PROVE  TypeOK'
    OBVIOUS
  <1>1. CASE UNCHANGED vars
    BY <1>1 DEF vars, TypeOK, DispatchTypeOK
  <1>2. ASSUME NEW ctx \in Callers, NEW a \in Activities, NEW audience \in AudienceInputs,
               Create(ctx, a, audience)
        PROVE  TypeOK'
    <2>1. audience \in Audiences
      BY NoticesAssumption
    <2>2. [status |-> "draft", audience |-> audience, published |-> FALSE, announced |-> FALSE] \in Row
      BY <2>1 DEF Row, Statuses
    <2>3. row' \in [Activities -> Row \cup {NotYet, Gone}]
      BY <1>2, <2>2 DEF Create, TypeOK
    <2>4. had' \in [Activities -> SUBSET Audiences]
      BY <1>2, <2>3, RecordedType DEF Create
    <2>5. QED
      BY <1>2, <2>3, <2>4 DEF Create, TypeOK, DispatchTypeOK
  <1>3. ASSUME NEW ctx \in Callers, NEW a \in Activities, Delete(ctx, a)
        PROVE  TypeOK'
    BY <1>3 DEF Delete, TypeOK, DispatchTypeOK
  <1>4. ASSUME NEW r \in Requests, NEW ctx \in Callers, NEW a \in Activities,
               NEW status \in StatusInputs, NEW audience \in AudienceInputs,
               BeginUpdate(r, ctx, a, status, audience)
        PROVE  TypeOK'
    <2>1. row[a] \in Row /\ status \in Statuses /\ audience \in Audiences
      BY <1>4, NoticesAssumption DEF BeginUpdate, Visible, Exists, TypeOK
    <2>2. [row[a] EXCEPT !.status = status, !.audience = audience] \in Row
      BY <2>1 DEF Row
    <2>3. req'[r] \in ActivityRequest
      BY <1>4, <2>1, <2>2 DEF BeginUpdate, ActivityRequest, TypeOK
    <2>4. QED
      BY <1>4, <2>3 DEF BeginUpdate, TypeOK, DispatchTypeOK
  <1>5. ASSUME NEW r \in Requests, NEW ctx \in Callers, NEW a \in Activities,
               NEW notify \in BOOLEAN, BeginPublish(r, ctx, a, notify)
        PROVE  TypeOK'
    <2>1. row[a] \in Row
      BY <1>5 DEF BeginPublish, Visible, Exists, TypeOK
    <2>2. [row[a] EXCEPT !.status = "published", !.published = TRUE] \in Row
      BY <2>1 DEF Row, Statuses
    <2>3. req'[r] \in ActivityRequest
      BY <1>5, <2>1, <2>2 DEF BeginPublish, ActivityRequest, TypeOK
    <2>4. QED
      BY <1>5, <2>3 DEF BeginPublish, TypeOK, DispatchTypeOK
  <1>6. ASSUME NEW r \in Requests, NEW ctx \in Callers, NEW n \in Announcements,
               NEW target \in Targets, NEW alumniToo \in BOOLEAN, NEW sendEmail \in BOOLEAN, NEW publishNow \in BOOLEAN,
               BeginPost(r, ctx, n, target, alumniToo, sendEmail, publishNow)
        PROVE  TypeOK'
    <2>1. req'[r] \in PostRequest
      BY <1>6, AudienceType DEF BeginPost, PostRequest, Posting, TypeOK
    <2>2. QED
      BY <1>6, <2>1 DEF BeginPost, TypeOK, DispatchTypeOK
  <1>7. ASSUME NEW r \in Requests, CommitUpdate(r)
        PROVE  TypeOK'
    <2>1. req[r] \in ActivityRequest /\ req[r].goal \in Row
      BY <1>7, RequestKinds DEF CommitUpdate, ActivityRequest
    <2>2. row' \in [Activities -> Row \cup {NotYet, Gone}]
      BY <1>7, <2>1, WriteType DEF CommitUpdate
    <2>3. had' \in [Activities -> SUBSET Audiences]
      BY <1>7, <2>2, RecordedType DEF CommitUpdate
    <2>4. QED
      BY <1>7, <2>2, <2>3 DEF CommitUpdate, TypeOK, DispatchTypeOK
  <1>8. ASSUME NEW r \in Requests, FlushPublish(r)
        PROVE  TypeOK'
    <2>1. req[r] \in ActivityRequest
      BY <1>8, RequestKinds DEF FlushPublish
    <2>2. req'[r] \in ActivityRequest
      BY <1>8, <2>1, AudienceType DEF FlushPublish, ActivityRequest, TypeOK
    <2>3. QED
      BY <1>8, <2>2 DEF FlushPublish, TypeOK, DispatchTypeOK
  <1>9. ASSUME NEW r \in Requests, CommitPublish(r)
        PROVE  TypeOK'
    <2>1. req[r] \in ActivityRequest /\ FinalGoal(r) \in Row
      BY <1>9, RequestKinds, FinalGoalType DEF CommitPublish
    <2>2. row' \in [Activities -> Row \cup {NotYet, Gone}]
      BY <1>9, <2>1, WriteType DEF CommitPublish
    <2>3. log' \subseteq LogRow
      BY <1>9, <2>1 DEF CommitPublish, ActivityRequest, TypeOK, DispatchTypeOK
    <2>4. had' \in [Activities -> SUBSET Audiences]
      BY <1>9, <2>2, RecordedType DEF CommitPublish
    <2>5. QED
      BY <1>9, <2>2, <2>3, <2>4 DEF CommitPublish, TypeOK, DispatchTypeOK
  <1>10. ASSUME NEW r \in Requests, CommitPost(r)
         PROVE  TypeOK'
    <2>1. req[r] \in PostRequest
      BY <1>10, RequestKinds DEF CommitPost
    <2>2. log' \subseteq LogRow /\ board' \in [Announcements -> Posting \cup {NotYet}]
      BY <1>10, <2>1 DEF CommitPost, PostRequest, TypeOK, DispatchTypeOK
    <2>3. QED
      BY <1>10, <2>2 DEF CommitPost, TypeOK, DispatchTypeOK
  <1>11. ASSUME NEW r \in Requests, NEW u \in Members, NEW outcome \in Answers,
                Announce(r, u, outcome) \/ Broadcast(r, u, outcome)
         PROVE  TypeOK'
    BY <1>11, MailType DEF Announce, Broadcast
  <1>12. ASSUME NEW r \in Requests, Fail(r)
         PROVE  TypeOK'
    <2>1. req[r].of \in Letters
      BY <1>12, RequestKinds, NoticesAssumption DEF Fail, ActivityRequest, PostRequest
    <2>2. QED
      BY <1>12, <2>1 DEF Fail, TypeOK, DispatchTypeOK
  <1>13. QED
    BY <1>1, <1>2, <1>3, <1>4, <1>5, <1>6, <1>7, <1>8, <1>9, <1>10, <1>11, <1>12 DEF Next

\* Rows, requests, deliveries and postings keep their shape.
THEOREM TypeCorrect == Spec => []TypeOK
  <1>1. Init => TypeOK
    BY DEF Init, TypeOK, DispatchInit, DispatchTypeOK
  <1>2. QED
    BY <1>1, TypeStep, PTL DEF Spec
-----------------------------------------------------------------------------
(***************************************************************************)
(* The invariants behind the properties.                                   *)
(***************************************************************************)
\* Only a publication that announces touches announced_at.
GoalsKeep ==
  \A r \in Requests :
    req[r].op \in {"publish", "update"} => req[r].goal.announced = req[r].seen.announced

\* What is left to mail belongs to the audience, and is there only to announce.
LeftInAudience(r) ==
  /\ req[r].left \subseteq Audience(req[r].of, req[r].seen.audience)
  /\ req[r].left # {} \/ req[r].rows # {} => req[r].flushed /\ Announcing(r)

\* Whoever is no longer left has a row for this activity.
Attempted(r) ==
  req[r].flushed /\ Announcing(r) =>
    \A u \in Audience(req[r].of, req[r].seen.audience) \ req[r].left :
      \E e \in req[r].rows : e.to = u

PublicationsHold ==
  \A r \in Requests : req[r].op = "publish" => LeftInAudience(r) /\ Attempted(r)

RowsOwn ==
  \A r \in Requests : req[r].op \in {"publish", "post"} => \A e \in req[r].rows : e.letter = req[r].of

\* The audience that was committed, and the one a request read, are among those the activity had.
AudiencesHad ==
  /\ \A a \in Activities : Exists(a) => row[a].audience \in had[a]
  /\ \A r \in Requests :
       req[r].op \in {"publish", "update"} => req[r].seen.audience \in had[req[r].of]

\* Whoever a mailed posting must reach.
Meant(u, posting) == Reads(u, posting) /\ (posting.target = Association => u \notin Alumni)

\* A request's mail goes to readers, to each once, and to everybody it must reach.
MailsReaders(r) ==
  /\ \A u \in req[r].left : Reads(u, req[r].goal)
  /\ \A e \in req[r].rows : Reads(e.to, req[r].goal) /\ e.to \notin req[r].left
  /\ req[r].goal.emailed =>
       \A u \in Members : Meant(u, req[r].goal) => u \in req[r].left \/ \E e \in req[r].rows : e.to = u

\* A request's posting is not on the board yet, and nobody else is at it.
PostsHold ==
  \A r \in Requests : req[r].op = "post" =>
    /\ board[req[r].of] = NotYet
    /\ \A q \in Requests \ {r} : req[q].op = "post" => req[q].of # req[r].of
    /\ MailsReaders(r)

\* A delivery of an announcement is committed with the announcement.
DeliveredPosted == \A e \in log : e.letter \in Announcements => board[e.letter] # NotYet
LoggedCanRead == \A e \in log : e.letter \in Announcements => Posted(e.to, e.letter)

\* A request ends by its own commit or failure.
Ended(r) == req'[r] = Idle /\ (CommitUpdate(r) \/ CommitPublish(r) \/ CommitPost(r) \/ Fail(r))

\* A request begins to post an announcement.
BeginsPost(r) ==
  \E ctx \in Callers, n \in Announcements, target \in Targets :
    \E alumniToo, sendEmail, publishNow \in BOOLEAN :
      BeginPost(r, ctx, n, target, alumniToo, sendEmail, publishNow)

\* A step leaves a request alone, ends it, or is one of its own.
LEMMA RequestCases ==
  ASSUME TypeOK, [Next]_vars, NEW r \in Requests
  PROVE  \/ req'[r] = req[r]
         \/ Ended(r)
         \/ \E ctx \in Callers, a \in Activities, status \in StatusInputs, audience \in AudienceInputs :
              BeginUpdate(r, ctx, a, status, audience)
         \/ \E ctx \in Callers, a \in Activities, notify \in BOOLEAN : BeginPublish(r, ctx, a, notify)
         \/ BeginsPost(r)
         \/ FlushPublish(r)
         \/ \E u \in Members, outcome \in Answers : Announce(r, u, outcome) \/ Broadcast(r, u, outcome)
  <1>1. CASE UNCHANGED req
    BY <1>1
  <1>2. ASSUME NEW q \in Requests, CommitUpdate(q) \/ CommitPublish(q) \/ CommitPost(q) \/ Fail(q)
        PROVE  req'[r] = req[r] \/ Ended(r)
    BY <1>2 DEF Ended, CommitUpdate, CommitPublish, CommitPost, Fail, TypeOK
  <1>3. ASSUME NEW q \in Requests \ {r}, FlushPublish(q)
        PROVE  req'[r] = req[r]
    BY <1>3 DEF FlushPublish, TypeOK
  <1>4. ASSUME NEW q \in Requests \ {r}, NEW u \in Members, NEW outcome \in Answers,
               Announce(q, u, outcome) \/ Broadcast(q, u, outcome)
        PROVE  req'[r] = req[r]
    BY <1>4 DEF Announce, Broadcast, Dispatch, TypeOK
  <1>5. ASSUME NEW q \in Requests \ {r}, NEW ctx \in Callers, NEW a \in Activities,
               \/ \E status \in StatusInputs, audience \in AudienceInputs :
                    BeginUpdate(q, ctx, a, status, audience)
               \/ \E notify \in BOOLEAN : BeginPublish(q, ctx, a, notify)
        PROVE  req'[r] = req[r]
    BY <1>5 DEF BeginUpdate, BeginPublish, TypeOK
  <1>6. ASSUME NEW q \in Requests \ {r}, NEW ctx \in Callers, NEW n \in Announcements,
               NEW target \in Targets, NEW alumniToo \in BOOLEAN, NEW sendEmail \in BOOLEAN, NEW publishNow \in BOOLEAN,
               BeginPost(q, ctx, n, target, alumniToo, sendEmail, publishNow)
        PROVE  req'[r] = req[r]
    BY <1>6 DEF BeginPost, TypeOK
  <1>7. ASSUME NEW ctx \in Callers, NEW a \in Activities,
               (\E audience \in AudienceInputs : Create(ctx, a, audience)) \/ Delete(ctx, a)
        PROVE  UNCHANGED req
    BY <1>7 DEF Create, Delete
  <1>8. QED
    BY <1>1, <1>2, <1>3, <1>4, <1>5, <1>6, <1>7 DEF Next, vars, BeginsPost

LEMMA GoalsKeepStep == TypeOK /\ GoalsKeep /\ [Next]_vars => GoalsKeep'
  <1> SUFFICES ASSUME TypeOK, GoalsKeep, [Next]_vars, NEW r \in Requests,
                      req'[r].op \in {"publish", "update"}
               PROVE  req'[r].goal.announced = req'[r].seen.announced
    BY DEF GoalsKeep
  <1>1. CASE req'[r] = req[r]
    BY <1>1 DEF GoalsKeep
  <1>2. CASE req'[r] = Idle
    BY <1>2 DEF Idle
  <1>3. ASSUME NEW ctx \in Callers, NEW a \in Activities, NEW status \in StatusInputs,
               NEW audience \in AudienceInputs, BeginUpdate(r, ctx, a, status, audience)
        PROVE  req'[r].goal.announced = req'[r].seen.announced
    <2>1. row[a] \in Row
      BY <1>3 DEF BeginUpdate, Visible, Exists, TypeOK
    <2>2. QED
      BY <1>3, <2>1 DEF BeginUpdate, TypeOK, Row
  <1>4. ASSUME NEW ctx \in Callers, NEW a \in Activities, NEW notify \in BOOLEAN,
               BeginPublish(r, ctx, a, notify)
        PROVE  req'[r].goal.announced = req'[r].seen.announced
    <2>1. row[a] \in Row
      BY <1>4 DEF BeginPublish, Visible, Exists, TypeOK
    <2>2. QED
      BY <1>4, <2>1 DEF BeginPublish, TypeOK, Row
  <1>5. ASSUME BeginsPost(r)
        PROVE  FALSE
    BY <1>5 DEF BeginsPost, BeginPost, TypeOK
  <1>6. CASE FlushPublish(r)
    <2>1. req[r] \in ActivityRequest
      BY <1>6, RequestKinds DEF FlushPublish
    <2>2. QED
      BY <1>6, <2>1 DEF FlushPublish, GoalsKeep, ActivityRequest, TypeOK
  <1>7. ASSUME NEW u \in Members, NEW outcome \in Answers, Announce(r, u, outcome)
        PROVE  req'[r].goal.announced = req'[r].seen.announced
    <2>1. req[r] \in ActivityRequest
      BY <1>7, RequestKinds DEF Announce
    <2>2. QED
      BY <1>7, <2>1 DEF Announce, Dispatch, GoalsKeep, ActivityRequest, TypeOK
  <1>8. ASSUME NEW u \in Members, NEW outcome \in Answers, Broadcast(r, u, outcome)
        PROVE  FALSE
    <2>1. req[r] \in PostRequest
      BY <1>8, RequestKinds DEF Broadcast
    <2>2. QED
      BY <1>8, <2>1 DEF Broadcast, Dispatch, PostRequest, TypeOK
  <1>9. QED
    BY <1>1, <1>2, <1>3, <1>4, <1>5, <1>6, <1>7, <1>8, RequestCases DEF Ended

\* A write that does not clear announced_at of what it read does not clear the row's.
LEMMA WriteAnnounced ==
  ASSUME TypeOK, NEW r \in Requests, req[r] \in ActivityRequest, NEW goal \in Row,
         CanWrite(r, goal), req[r].seen.announced => goal.announced,
         NEW a \in Activities, Exists(a), row[a].announced
  PROVE  Write(r, goal)[a].announced
  <1>1. CASE Dirty(req[r].seen, goal) = {} \/ a # req[r].of
    BY <1>1 DEF Write, TypeOK
  <1>2. CASE Dirty(req[r].seen, goal) # {} /\ a = req[r].of
    <2>1. req[r].seen \in Row /\ row[a] \in Row
      BY <1>2 DEF ActivityRequest, Exists, TypeOK
    <2>2. Merged(row[a], req[r].seen, goal).announced
      BY <2>1, MergedIsRow DEF Row
    <2>3. QED
      BY <1>2, <2>2 DEF Write, TypeOK
  <1>3. QED
    BY <1>1, <1>2

\* What is announced stays announced, for as long as the activity exists.
LEMMA AnnouncedStep ==
  ASSUME TypeOK, GoalsKeep, [Next]_vars,
         NEW a \in Activities, Exists(a), row[a].announced, row'[a] # Gone
  PROVE  row'[a].announced
  <1>1. CASE UNCHANGED row
    BY <1>1
  <1>2. ASSUME NEW ctx \in Callers, NEW b \in Activities, NEW audience \in AudienceInputs,
               Create(ctx, b, audience)
        PROVE  row'[a].announced
    BY <1>2 DEF Create, Exists, TypeOK
  <1>3. ASSUME NEW ctx \in Callers, NEW b \in Activities, Delete(ctx, b)
        PROVE  row'[a].announced
    BY <1>3 DEF Delete, TypeOK
  <1>4. ASSUME NEW r \in Requests, CommitUpdate(r)
        PROVE  row'[a].announced
    <2>1. req[r] \in ActivityRequest /\ req[r].goal \in Row
      BY <1>4, RequestKinds DEF CommitUpdate, ActivityRequest
    <2>2. req[r].goal.announced = req[r].seen.announced
      BY <1>4 DEF CommitUpdate, GoalsKeep
    <2>3. QED
      BY <1>4, <2>1, <2>2, WriteAnnounced DEF CommitUpdate
  <1>5. ASSUME NEW r \in Requests, CommitPublish(r)
        PROVE  row'[a].announced
    <2>1. req[r] \in ActivityRequest /\ FinalGoal(r) \in Row
      BY <1>5, RequestKinds, FinalGoalType DEF CommitPublish
    <2>2. req[r].seen.announced => FinalGoal(r).announced
      BY <1>5, <2>1 DEF CommitPublish, GoalsKeep, FinalGoal, Announcing
    <2>3. QED
      BY <1>5, <2>1, <2>2, WriteAnnounced DEF CommitPublish
  <1>6. QED
    BY <1>1, <1>2, <1>3, <1>4, <1>5, RowCases

LEMMA GoalsAlwaysKeep == Spec => []GoalsKeep
  <1>1. Init => GoalsKeep
    BY DEF Init, GoalsKeep, Idle
  <1>2. QED
    BY <1>1, GoalsKeepStep, TypeCorrect, PTL DEF Spec

\* announced_at is set once and for all.
THEOREM AnnouncedOnce == Spec => AnnouncedForever
  <1>1. TypeOK /\ GoalsKeep /\ [Next]_vars =>
          (\A a \in Activities : Exists(a) /\ row[a].announced /\ row'[a] # Gone => row'[a].announced)
    BY AnnouncedStep
  <1>2. QED
    BY <1>1, GoalsAlwaysKeep, TypeCorrect, PTL DEF Spec, AnnouncedForever
-----------------------------------------------------------------------------
(***************************************************************************)
(* Announced means mailed.                                                 *)
(***************************************************************************)
LEMMA RowsOwnStep == TypeOK /\ RowsOwn /\ [Next]_vars => RowsOwn'
  <1> SUFFICES ASSUME TypeOK, RowsOwn, [Next]_vars, NEW r \in Requests,
                      req'[r].op \in {"publish", "post"}, NEW e \in req'[r].rows
               PROVE  e.letter = req'[r].of
    BY DEF RowsOwn
  <1>1. CASE req'[r] = req[r]
    BY <1>1 DEF RowsOwn
  <1>2. CASE req'[r] = Idle
    BY <1>2 DEF Idle
  <1>3. ASSUME NEW ctx \in Callers, NEW a \in Activities,
               \/ \E status \in StatusInputs, audience \in AudienceInputs :
                    BeginUpdate(r, ctx, a, status, audience)
               \/ \E notify \in BOOLEAN : BeginPublish(r, ctx, a, notify)
        PROVE  FALSE
    <2>1. ASSUME NEW status \in StatusInputs, NEW audience \in AudienceInputs,
                 BeginUpdate(r, ctx, a, status, audience)
          PROVE  FALSE
      BY <2>1 DEF BeginUpdate, TypeOK
    <2>2. ASSUME NEW notify \in BOOLEAN, BeginPublish(r, ctx, a, notify)
          PROVE  FALSE
      BY <2>2 DEF BeginPublish, TypeOK
    <2>3. QED
      BY <1>3, <2>1, <2>2
  <1>4. ASSUME BeginsPost(r)
        PROVE  FALSE
    BY <1>4 DEF BeginsPost, BeginPost, TypeOK
  <1>5. CASE FlushPublish(r)
    <2>1. req[r] \in ActivityRequest
      BY <1>5, RequestKinds DEF FlushPublish
    <2>2. QED
      BY <1>5, <2>1 DEF FlushPublish, RowsOwn, ActivityRequest, TypeOK
  <1>6. ASSUME NEW u \in Members, NEW outcome \in Answers,
               Announce(r, u, outcome) \/ Broadcast(r, u, outcome)
        PROVE  e.letter = req'[r].of
    <2>1. req[r] \in ActivityRequest \cup PostRequest /\ req[r].op \in {"publish", "post"}
      BY <1>6, RequestKinds DEF Announce, Broadcast
    <2>2. req'[r] = [req[r] EXCEPT !.left = @ \ {u}, !.rows = @ \cup {Entry(u, req[r].of, outcome)}]
      BY <1>6 DEF Announce, Broadcast, Dispatch, TypeOK
    <2>3. req'[r].of = req[r].of /\ req'[r].rows = req[r].rows \cup {Entry(u, req[r].of, outcome)}
      BY <2>1, <2>2 DEF ActivityRequest, PostRequest
    <2>4. QED
      BY <2>1, <2>3 DEF RowsOwn, Entry
  <1>7. QED
    BY <1>1, <1>2, <1>3, <1>4, <1>5, <1>6, RequestCases DEF Ended

LEMMA PublicationsStep == TypeOK /\ PublicationsHold /\ [Next]_vars => PublicationsHold'
  <1> SUFFICES ASSUME TypeOK, PublicationsHold, [Next]_vars, NEW r \in Requests,
                      req'[r].op = "publish"
               PROVE  LeftInAudience(r)' /\ Attempted(r)'
    BY DEF PublicationsHold
  <1> USE DEF LeftInAudience, Attempted, Announcing
  <1>1. CASE req'[r] = req[r]
    BY <1>1 DEF PublicationsHold
  <1>2. CASE req'[r] = Idle
    BY <1>2 DEF Idle
  <1>3. ASSUME NEW ctx \in Callers, NEW a \in Activities, NEW status \in StatusInputs,
               NEW audience \in AudienceInputs, BeginUpdate(r, ctx, a, status, audience)
        PROVE  FALSE
    BY <1>3 DEF BeginUpdate, TypeOK
  <1>4. ASSUME NEW ctx \in Callers, NEW a \in Activities, NEW notify \in BOOLEAN,
               BeginPublish(r, ctx, a, notify)
        PROVE  LeftInAudience(r)' /\ Attempted(r)'
    BY <1>4 DEF BeginPublish, TypeOK
  <1>5. ASSUME BeginsPost(r)
        PROVE  FALSE
    BY <1>5 DEF BeginsPost, BeginPost, TypeOK
  <1>6. CASE FlushPublish(r)
    <2>1. req[r] \in ActivityRequest /\ req[r].rows = {}
      BY <1>6, RequestKinds DEF FlushPublish, PublicationsHold
    <2>2. /\ req'[r].of = req[r].of /\ req'[r].seen = req[r].seen /\ req'[r].rows = {}
          /\ req'[r].flushed /\ req'[r].notify = req[r].notify
          /\ req'[r].left = IF Announcing(r) THEN Audience(req[r].of, req[r].seen.audience) ELSE {}
      BY <1>6, <2>1 DEF FlushPublish, ActivityRequest, TypeOK
    <2>3. QED
      BY <2>2
  <1>7. ASSUME NEW u \in Members, NEW outcome \in Answers, Announce(r, u, outcome)
        PROVE  LeftInAudience(r)' /\ Attempted(r)'
    <2>1. req[r] \in ActivityRequest /\ req[r].op = "publish" /\ u \in req[r].left
      BY <1>7, RequestKinds DEF Announce, Dispatch
    <2>2. req'[r] = [req[r] EXCEPT !.left = @ \ {u}, !.rows = @ \cup {Entry(u, req[r].of, outcome)}]
      BY <1>7 DEF Announce, Dispatch, TypeOK
    <2>3. /\ req'[r].of = req[r].of /\ req'[r].seen = req[r].seen
          /\ req'[r].flushed = req[r].flushed /\ req'[r].notify = req[r].notify
          /\ req'[r].left = req[r].left \ {u}
          /\ req'[r].rows = req[r].rows \cup {Entry(u, req[r].of, outcome)}
      BY <2>1, <2>2 DEF ActivityRequest
    <2>4. Entry(u, req[r].of, outcome).to = u
      BY DEF Entry
    <2>5. LeftInAudience(r) /\ Attempted(r)
      BY <2>1 DEF PublicationsHold
    <2>6. LeftInAudience(r)'
      BY <2>1, <2>3, <2>5
    <2>7. Attempted(r)'
      BY <2>3, <2>4, <2>5
    <2>8. QED
      BY <2>6, <2>7
  <1>8. ASSUME NEW u \in Members, NEW outcome \in Answers, Broadcast(r, u, outcome)
        PROVE  FALSE
    <2>1. req[r] \in PostRequest
      BY <1>8, RequestKinds DEF Broadcast
    <2>2. QED
      BY <1>8, <2>1 DEF Broadcast, Dispatch, PostRequest, TypeOK
  <1>9. QED
    BY <1>1, <1>2, <1>3, <1>4, <1>5, <1>6, <1>7, <1>8, RequestCases DEF Ended

\* Where a write sets announced_at, the request had announced.
LEMMA WriteAnnounces ==
  ASSUME TypeOK, NEW r \in Requests, req[r] \in ActivityRequest, NEW goal \in Row,
         CanWrite(r, goal), NEW a \in Activities,
         Write(r, goal)[a] \notin {NotYet, Gone}, Write(r, goal)[a].announced
  PROVE  \/ Exists(a) /\ row[a].announced
         \/ a = req[r].of /\ req[r].seen.announced # goal.announced
  <1>1. CASE Dirty(req[r].seen, goal) = {} \/ a # req[r].of
    BY <1>1 DEF Write, TypeOK, Exists
  <1>2. CASE Dirty(req[r].seen, goal) # {} /\ a = req[r].of
    <2>1. req[r].seen \in Row /\ row[a] \in Row /\ Exists(a)
      BY <1>2 DEF ActivityRequest, Exists, CanWrite, TypeOK
    <2>2. Write(r, goal)[a] = Merged(row[a], req[r].seen, goal)
      BY <1>2 DEF Write, TypeOK
    <2>3. QED
      BY <1>2, <2>1, <2>2, MergedIsRow
  <1>3. QED
    BY <1>1, <1>2

\* What an activity had, it has had.
LEMMA HadGrows ==
  ASSUME TypeOK, [Next]_vars, NEW a \in Activities
  PROVE  /\ had[a] \subseteq had'[a]
         /\ row'[a] \notin {NotYet, Gone} => row'[a] = row[a] \/ row'[a].audience \in had'[a]
  <1>1. row' \in [Activities -> Row \cup {NotYet, Gone}]
    BY TypeStep DEF TypeOK
  <1>2. CASE had' = Recorded(row')
    BY <1>1, <1>2, RecordedType
  <1>3. CASE UNCHANGED <<row, had>>
    BY <1>3
  <1>4. ASSUME NEW ctx \in Callers, NEW b \in Activities, Delete(ctx, b)
        PROVE  UNCHANGED had /\ row'[a] \in {row[a], Gone}
    BY <1>4 DEF Delete, TypeOK
  <1>5. ASSUME NEW ctx \in Callers, NEW b \in Activities, NEW audience \in AudienceInputs,
               Create(ctx, b, audience)
        PROVE  had' = Recorded(row')
    BY <1>5 DEF Create
  <1>6. ASSUME NEW r \in Requests, CommitUpdate(r) \/ CommitPublish(r)
        PROVE  had' = Recorded(row')
    BY <1>6 DEF CommitUpdate, CommitPublish
  <1>7. QED
    BY <1>2, <1>3, <1>4, <1>5, <1>6, RowCases

\* What a request about an activity read, it read when it began.
LEMMA HadStep == TypeOK /\ AudiencesHad /\ [Next]_vars => AudiencesHad'
  <1> SUFFICES ASSUME TypeOK, AudiencesHad, [Next]_vars
               PROVE  AudiencesHad'
    OBVIOUS
  <1>1. ASSUME NEW a \in Activities, row'[a] \notin {NotYet, Gone}
        PROVE  row'[a].audience \in had'[a]
    BY <1>1, HadGrows DEF AudiencesHad, Exists
  <1>2. ASSUME NEW r \in Requests, req'[r].op \in {"publish", "update"}
        PROVE  req'[r].seen.audience \in had'[req'[r].of]
    <2>1. ASSUME req[r].op \in {"publish", "update"}, req'[r].of = req[r].of, req'[r].seen = req[r].seen
          PROVE  req'[r].seen.audience \in had'[req'[r].of]
      <3>1. req[r].of \in Activities
        BY <2>1, RequestKinds DEF ActivityRequest
      <3>2. QED
        BY <2>1, <3>1, HadGrows DEF AudiencesHad
    <2>2. CASE req'[r] = req[r]
      BY <1>2, <2>1, <2>2
    <2>3. CASE req'[r] = Idle
      BY <1>2, <2>3 DEF Idle
    <2>4. ASSUME NEW ctx \in Callers, NEW a \in Activities,
                 \/ \E status \in StatusInputs, audience \in AudienceInputs :
                      BeginUpdate(r, ctx, a, status, audience)
                 \/ \E notify \in BOOLEAN : BeginPublish(r, ctx, a, notify)
          PROVE  req'[r].seen.audience \in had'[req'[r].of]
      <3>1. ASSUME NEW status \in StatusInputs, NEW audience \in AudienceInputs,
                   BeginUpdate(r, ctx, a, status, audience)
            PROVE  Exists(a) /\ req'[r].of = a /\ req'[r].seen = row[a] /\ had' = had
        BY <3>1 DEF BeginUpdate, Visible, TypeOK
      <3>2. ASSUME NEW notify \in BOOLEAN, BeginPublish(r, ctx, a, notify)
            PROVE  Exists(a) /\ req'[r].of = a /\ req'[r].seen = row[a] /\ had' = had
        BY <3>2 DEF BeginPublish, Visible, TypeOK
      <3>3. Exists(a) /\ req'[r].of = a /\ req'[r].seen = row[a] /\ had' = had
        BY <2>4, <3>1, <3>2
      <3>4. QED
        BY <3>3 DEF AudiencesHad
    <2>5. ASSUME BeginsPost(r)
          PROVE  FALSE
      BY <1>2, <2>5 DEF BeginsPost, BeginPost, TypeOK
    <2>6. CASE FlushPublish(r)
      <3>1. req[r] \in ActivityRequest
        BY <2>6, RequestKinds DEF FlushPublish
      <3>2. req'[r].of = req[r].of /\ req'[r].seen = req[r].seen
        BY <2>6, <3>1 DEF FlushPublish, ActivityRequest, TypeOK
      <3>3. QED
        BY <2>1, <2>6, <3>2 DEF FlushPublish
    <2>7. ASSUME NEW u \in Members, NEW outcome \in Answers, Announce(r, u, outcome)
          PROVE  req'[r].seen.audience \in had'[req'[r].of]
      <3>1. req[r] \in ActivityRequest
        BY <2>7, RequestKinds DEF Announce
      <3>2. req'[r].of = req[r].of /\ req'[r].seen = req[r].seen
        BY <2>7, <3>1 DEF Announce, Dispatch, ActivityRequest, TypeOK
      <3>3. QED
        BY <2>1, <2>7, <3>2 DEF Announce
    <2>8. ASSUME NEW u \in Members, NEW outcome \in Answers, Broadcast(r, u, outcome)
          PROVE  FALSE
      <3>1. req[r] \in PostRequest
        BY <2>8, RequestKinds DEF Broadcast
      <3>2. QED
        BY <1>2, <2>8, <3>1 DEF Broadcast, Dispatch, PostRequest, TypeOK
    <2>9. QED
      BY <2>2, <2>3, <2>4, <2>5, <2>6, <2>7, <2>8, RequestCases DEF Ended
  <1>3. AudiencesHad' <=>
          /\ \A a \in Activities : row'[a] \notin {NotYet, Gone} => row'[a].audience \in had'[a]
          /\ \A r \in Requests :
               req'[r].op \in {"publish", "update"} => req'[r].seen.audience \in had'[req'[r].of]
    BY DEF AudiencesHad, Exists
  <1>4. QED
    BY <1>1, <1>2, <1>3

LEMMA MailedStep ==
  TypeOK /\ GoalsKeep /\ RowsOwn /\ PublicationsHold /\ AudiencesHad /\ AnnouncedMeansMailed /\ [Next]_vars
    => AnnouncedMeansMailed'
  <1> SUFFICES ASSUME TypeOK, GoalsKeep, RowsOwn, PublicationsHold, AudiencesHad, AnnouncedMeansMailed,
                      [Next]_vars, NEW a \in Activities, row'[a] \notin {NotYet, Gone}, row'[a].announced
               PROVE  \E audience \in had'[a] : \A u \in Audience(a, audience) :
                        \E e \in log' : e.to = u /\ e.letter = a
    BY DEF AnnouncedMeansMailed, Exists, Audience
  <1>1. log \subseteq log' /\ had[a] \subseteq had'[a]
    BY OnlyCommitsShow, HadGrows DEF CommitPublish, CommitPost
  <1>2. CASE Exists(a) /\ row[a].announced
    BY <1>1, <1>2 DEF AnnouncedMeansMailed
  <1>3. CASE row'[a] = row[a]
    BY <1>2, <1>3 DEF Exists
  <1>4. ASSUME NEW ctx \in Callers, NEW b \in Activities,
               (\E audience \in AudienceInputs : Create(ctx, b, audience)) \/ Delete(ctx, b)
        PROVE  row'[a] = row[a]
    BY <1>4 DEF Create, Delete, TypeOK
  <1>5. ASSUME NEW r \in Requests, CommitUpdate(r)
        PROVE  Exists(a) /\ row[a].announced
    <2>1. req[r] \in ActivityRequest /\ req[r].goal \in Row
      BY <1>5, RequestKinds DEF CommitUpdate, ActivityRequest
    <2>2. req[r].goal.announced = req[r].seen.announced
      BY <1>5 DEF CommitUpdate, GoalsKeep
    <2>3. QED
      BY <1>5, <2>1, <2>2, WriteAnnounces DEF CommitUpdate
  <1>6. ASSUME NEW r \in Requests, CommitPublish(r), ~(Exists(a) /\ row[a].announced)
        PROVE  \E audience \in had'[a] : \A u \in Audience(a, audience) :
                 \E e \in log' : e.to = u /\ e.letter = a
    <2>1. req[r] \in ActivityRequest /\ req[r].op = "publish" /\ FinalGoal(r) \in Row
      BY <1>6, RequestKinds, FinalGoalType DEF CommitPublish
    <2>2. a = req[r].of /\ req[r].seen.announced # FinalGoal(r).announced
      BY <1>6, <2>1, WriteAnnounces DEF CommitPublish
    <2>3. Announcing(r) /\ req[r].flushed /\ req[r].left = {}
      BY <1>6, <2>1, <2>2 DEF CommitPublish, FinalGoal, GoalsKeep
    <2>4. \A u \in Audience(a, req[r].seen.audience) : \E e \in req[r].rows : e.to = u /\ e.letter = a
      BY <2>1, <2>2, <2>3 DEF PublicationsHold, Attempted, RowsOwn
    <2>5. req[r].rows \subseteq log'
      BY <1>6 DEF CommitPublish
    <2>6. req[r].seen.audience \in had'[a]
      BY <1>1, <2>1, <2>2 DEF AudiencesHad
    <2>7. QED
      BY <2>4, <2>5, <2>6
  <1>7. QED
    BY <1>2, <1>3, <1>4, <1>5, <1>6, RowCases

\* announced_at records an announcement that was attempted for every member of an audience that
\* the activity had, whoever changes its audience meanwhile.
THEOREM AnnouncedWasMailed == Spec => []AnnouncedMeansMailed
  <1>1. Init => GoalsKeep /\ RowsOwn /\ PublicationsHold /\ AudiencesHad /\ AnnouncedMeansMailed
    BY DEF Init, GoalsKeep, RowsOwn, PublicationsHold, AudiencesHad, AnnouncedMeansMailed, Exists, Idle
  <1>2. Spec => [](GoalsKeep /\ RowsOwn /\ PublicationsHold /\ AudiencesHad)
    BY <1>1, GoalsKeepStep, RowsOwnStep, PublicationsStep, HadStep, TypeCorrect, PTL DEF Spec
  <1>3. QED
    BY <1>1, <1>2, MailedStep, TypeCorrect, PTL DEF Spec
-----------------------------------------------------------------------------
(***************************************************************************)
(* Mailed means readable.                                                  *)
(***************************************************************************)
\* What becomes of a post in a step: nothing, its end, or one more mail.
LEMMA PostCases ==
  ASSUME TypeOK, [Next]_vars, NEW r \in Requests, req[r].op = "post"
  PROVE  \/ req'[r] = req[r]
         \/ req'[r] = Idle /\ (CommitPost(r) \/ Fail(r))
         \/ \E u \in Members, outcome \in Answers : Broadcast(r, u, outcome)
  <1>1. req[r] # Idle
    BY DEF Idle
  <1>2. ~FlushPublish(r) /\ ~BeginsPost(r)
    BY <1>1 DEF FlushPublish, BeginsPost, BeginPost
  <1>3. \A ctx \in Callers, a \in Activities :
          /\ \A status \in StatusInputs, audience \in AudienceInputs :
               ~BeginUpdate(r, ctx, a, status, audience)
          /\ \A notify \in BOOLEAN : ~BeginPublish(r, ctx, a, notify)
    BY <1>1 DEF BeginUpdate, BeginPublish
  <1>4. \A u \in Members, outcome \in Answers : ~Announce(r, u, outcome)
    BY DEF Announce
  <1>5. ~CommitUpdate(r) /\ ~CommitPublish(r)
    BY DEF CommitUpdate, CommitPublish
  <1>6. QED
    BY <1>2, <1>3, <1>4, <1>5, RequestCases DEF Ended

\* Where a post comes from: it was one before the step, or has just begun.
LEMMA PostOrigin ==
  ASSUME TypeOK, [Next]_vars, NEW r \in Requests, req'[r].op = "post"
  PROVE  \/ BeginsPost(r)
         \/ req[r].op = "post" /\ req'[r].of = req[r].of /\ req'[r].goal = req[r].goal
  <1>1. CASE req'[r] = req[r]
    BY <1>1
  <1>2. CASE req'[r] = Idle
    BY <1>2 DEF Idle
  <1>3. ASSUME NEW ctx \in Callers, NEW a \in Activities, NEW status \in StatusInputs,
               NEW audience \in AudienceInputs, BeginUpdate(r, ctx, a, status, audience)
        PROVE  FALSE
    BY <1>3 DEF BeginUpdate, TypeOK
  <1>4. ASSUME NEW ctx \in Callers, NEW a \in Activities, NEW notify \in BOOLEAN,
               BeginPublish(r, ctx, a, notify)
        PROVE  FALSE
    BY <1>4 DEF BeginPublish, TypeOK
  <1>5. CASE FlushPublish(r)
    <2>1. req[r] \in ActivityRequest
      BY <1>5, RequestKinds DEF FlushPublish
    <2>2. QED
      BY <1>5, <2>1 DEF FlushPublish, ActivityRequest, TypeOK
  <1>6. ASSUME NEW u \in Members, NEW outcome \in Answers, Announce(r, u, outcome)
        PROVE  FALSE
    <2>1. req[r] \in ActivityRequest
      BY <1>6, RequestKinds DEF Announce
    <2>2. QED
      BY <1>6, <2>1 DEF Announce, Dispatch, ActivityRequest, TypeOK
  <1>7. ASSUME NEW u \in Members, NEW outcome \in Answers, Broadcast(r, u, outcome)
        PROVE  req[r].op = "post" /\ req'[r].of = req[r].of /\ req'[r].goal = req[r].goal
    <2>1. req[r] \in PostRequest
      BY <1>7, RequestKinds DEF Broadcast
    <2>2. QED
      BY <1>7, <2>1 DEF Broadcast, Dispatch, PostRequest, TypeOK
  <1>8. QED
    BY <1>1, <1>2, <1>3, <1>4, <1>5, <1>6, <1>7, RequestCases DEF Ended

\* A broadcast moves one member from those left to those mailed.
LEMMA BroadcastEffect ==
  ASSUME TypeOK, NEW r \in Requests, NEW u \in Members, NEW outcome \in Answers, Broadcast(r, u, outcome)
  PROVE  /\ req[r].op = "post" /\ req[r].of \in Announcements /\ u \in req[r].left
         /\ req'[r].op = "post" /\ req'[r].of = req[r].of /\ req'[r].goal = req[r].goal
         /\ req'[r].left = req[r].left \ {u}
         /\ req'[r].rows = req[r].rows \cup {Entry(u, req[r].of, outcome)}
         /\ \A q \in Requests \ {r} : req'[q] = req[q]
         /\ Entry(u, req[r].of, outcome).to = u /\ Entry(u, req[r].of, outcome).letter = req[r].of
  <1>1. req[r] \in PostRequest
    BY RequestKinds DEF Broadcast
  <1>2. QED
    BY <1>1 DEF Broadcast, Dispatch, PostRequest, TypeOK, Entry

\* A post that begins is meant for its readers.
LEMMA PostBegun ==
  ASSUME TypeOK, NEW r \in Requests, BeginsPost(r)
  PROVE  /\ req'[r].op = "post" /\ req'[r].of \in Announcements /\ board'[req'[r].of] = NotYet
         /\ \A q \in Requests \ {r} : req'[q] = req[q] /\ (req[q].op = "post" => req[q].of # req'[r].of)
         /\ MailsReaders(r)'
  <1>1. PICK ctx \in Callers, n \in Announcements, target \in Targets :
          \E alumniToo, sendEmail, publishNow \in BOOLEAN :
            BeginPost(r, ctx, n, target, alumniToo, sendEmail, publishNow)
    BY DEF BeginsPost
  <1>2. PICK alumniToo \in BOOLEAN, sendEmail \in BOOLEAN, publishNow \in BOOLEAN :
          BeginPost(r, ctx, n, target, alumniToo, sendEmail, publishNow)
    BY <1>1
  <1>3. /\ req'[r].op = "post" /\ req'[r].of = n /\ req'[r].rows = {}
        /\ req'[r].goal.target = target /\ req'[r].goal.listed = publishNow
        /\ req'[r].goal.emailed = (sendEmail /\ publishNow)
        /\ req'[r].left = IF sendEmail /\ publishNow THEN Recipients(target, alumniToo) ELSE {}
        /\ \A q \in Requests \ {r} : req'[q] = req[q]
    BY <1>2 DEF BeginPost, TypeOK
  <1>4. board'[n] = NotYet /\ \A q \in Requests : req[q].op = "post" => req[q].of # n
    BY <1>2 DEF BeginPost, Idle
  <1>5. \A u \in req'[r].left : Reads(u, req'[r].goal)
    BY <1>3 DEF Recipients, Reads
  <1>6. \A e \in req'[r].rows : Reads(e.to, req'[r].goal) /\ e.to \notin req'[r].left
    BY <1>3
  <1>7. ASSUME req'[r].goal.emailed, NEW u \in Members, Meant(u, req'[r].goal)
        PROVE  u \in req'[r].left
    BY <1>3, <1>7 DEF Recipients, Meant, Reads
  <1>8. MailsReaders(r)'
    BY <1>5, <1>6, <1>7 DEF MailsReaders, Meant, Reads
  <1>9. QED
    BY <1>3, <1>4, <1>8

\* A request mails its own announcement, to readers, and posts it where nothing was posted.
LEMMA PostsStep == TypeOK /\ PostsHold /\ [Next]_vars => PostsHold'
  <1> SUFFICES ASSUME TypeOK, PostsHold, [Next]_vars, NEW r \in Requests, req'[r].op = "post"
               PROVE  /\ board'[req'[r].of] = NotYet
                      /\ \A q \in Requests \ {r} : req'[q].op = "post" => req'[q].of # req'[r].of
                      /\ MailsReaders(r)'
    BY DEF PostsHold
  <1>1. CASE BeginsPost(r)
    BY <1>1, PostBegun
  <1>2. CASE ~BeginsPost(r)
    <2>1. req[r].op = "post" /\ req'[r].of = req[r].of /\ req'[r].goal = req[r].goal
      BY <1>2, PostOrigin
    <2>2. /\ board[req[r].of] = NotYet /\ MailsReaders(r)
          /\ \A q \in Requests \ {r} : req[q].op = "post" => req[q].of # req[r].of
      BY <2>1 DEF PostsHold
    <2>3. board'[req'[r].of] = NotYet
      <3>1. ASSUME NEW q \in Requests, CommitPost(q)
            PROVE  board'[req'[r].of] = NotYet
        <4>1. q # r
          BY <3>1 DEF CommitPost, TypeOK, Idle
        <4>2. req[q].of # req[r].of
          BY <2>2, <3>1, <4>1 DEF CommitPost
        <4>3. QED
          BY <2>1, <2>2, <3>1, <4>2 DEF CommitPost, TypeOK
      <3>2. CASE UNCHANGED board
        BY <2>1, <2>2, <3>2
      <3>3. QED
        BY <3>1, <3>2, OnlyCommitsShow DEF CommitPublish
    <2>4. ASSUME NEW q \in Requests \ {r}, req'[q].op = "post"
          PROVE  req'[q].of # req'[r].of
      <3>1. CASE BeginsPost(q)
        BY <2>1, <3>1, PostBegun
      <3>2. CASE ~BeginsPost(q)
        BY <2>1, <2>2, <2>4, <3>2, PostOrigin
      <3>3. QED
        BY <3>1, <3>2
    <2>5. MailsReaders(r)'
      <3>1. CASE req'[r] = req[r]
        BY <2>2, <3>1 DEF MailsReaders, Meant, Reads
      <3>2. CASE req'[r] = Idle
        BY <3>2 DEF Idle
      <3>3. ASSUME NEW u \in Members, NEW outcome \in Answers, Broadcast(r, u, outcome)
            PROVE  MailsReaders(r)'
        <4>1. /\ u \in req[r].left /\ req'[r].left = req[r].left \ {u}
              /\ req'[r].rows = req[r].rows \cup {Entry(u, req[r].of, outcome)}
              /\ Entry(u, req[r].of, outcome).to = u
          BY <3>3, BroadcastEffect
        <4>2. /\ \A v \in req'[r].left : Reads(v, req[r].goal)
              /\ \A e \in req'[r].rows : Reads(e.to, req[r].goal) /\ e.to \notin req'[r].left
          BY <2>2, <4>1 DEF MailsReaders
        <4>3. ASSUME req[r].goal.emailed, NEW v \in Members, Meant(v, req[r].goal)
              PROVE  v \in req'[r].left \/ \E e \in req'[r].rows : e.to = v
          BY <2>2, <4>1, <4>3 DEF MailsReaders
        <4>4. QED
          BY <2>1, <4>2, <4>3 DEF MailsReaders, Meant, Reads
      <3>4. QED
        BY <2>1, <3>1, <3>2, <3>3, PostCases
    <2>6. QED
      BY <2>3, <2>4, <2>5
  <1>3. QED
    BY <1>1, <1>2

\* What a commit does to the board and the log.
LEMMA CommitPostEffect ==
  ASSUME TypeOK, RowsOwn, PostsHold, NEW r \in Requests, CommitPost(r)
  PROVE  /\ req[r].of \in Announcements /\ board[req[r].of] = NotYet
         /\ board'[req[r].of] = req[r].goal /\ req[r].goal # NotYet
         /\ \A n \in Announcements \ {req[r].of} : board'[n] = board[n]
         /\ log' = log \cup req[r].rows /\ req[r].left = {}
         /\ \A e \in req[r].rows : e.letter = req[r].of
         /\ MailsReaders(r)
  <1>1. req[r] \in PostRequest /\ req[r].op = "post"
    BY RequestKinds DEF CommitPost
  <1>2. req[r].of \in Announcements /\ req[r].goal \in Posting
    BY <1>1 DEF PostRequest
  <1>3. QED
    BY <1>1, <1>2, NoticesAssumption DEF CommitPost, PostsHold, RowsOwn, TypeOK

LEMMA LoggedStep ==
  TypeOK /\ RowsOwn /\ PostsHold /\ LoggedCanRead /\ [Next]_vars => LoggedCanRead'
  <1> SUFFICES ASSUME TypeOK, RowsOwn, PostsHold, LoggedCanRead, [Next]_vars,
                      NEW e \in log', e.letter \in Announcements
               PROVE  board'[e.letter] # NotYet /\ Reads(e.to, board'[e.letter])
    BY DEF LoggedCanRead, Posted, Reads
  <1>1. e \in log => board[e.letter] # NotYet /\ Reads(e.to, board[e.letter])
    BY DEF LoggedCanRead, Posted
  <1>2. ASSUME NEW r \in Requests, CommitPost(r)
        PROVE  board'[e.letter] # NotYet /\ Reads(e.to, board'[e.letter])
    <2>1. CASE e \in log
      BY <1>1, <1>2, <2>1, CommitPostEffect
    <2>2. CASE e \in req[r].rows
      BY <1>2, <2>2, CommitPostEffect DEF MailsReaders
    <2>3. QED
      BY <1>2, <2>1, <2>2, CommitPostEffect
  <1>3. ASSUME NEW r \in Requests, CommitPublish(r)
        PROVE  board'[e.letter] # NotYet /\ Reads(e.to, board'[e.letter])
    <2>1. req[r] \in ActivityRequest /\ req[r].op = "publish"
      BY <1>3, RequestKinds DEF CommitPublish
    <2>2. e \notin req[r].rows
      BY <2>1, NoticesAssumption DEF RowsOwn, ActivityRequest
    <2>3. QED
      BY <1>1, <1>3, <2>2 DEF CommitPublish
  <1>4. CASE UNCHANGED <<log, board>>
    BY <1>1, <1>4
  <1>5. QED
    BY <1>2, <1>3, <1>4, OnlyCommitsShow

\* What was posted and mailed has reached whoever it must reach when it is committed.
LEMMA EmailedStep ==
  TypeOK /\ RowsOwn /\ PostsHold /\ EmailedReachesReaders /\ [Next]_vars => EmailedReachesReaders'
  <1> SUFFICES ASSUME TypeOK, RowsOwn, PostsHold, EmailedReachesReaders, [Next]_vars,
                      NEW u \in Members, NEW n \in Announcements, board'[n] # NotYet,
                      board'[n].emailed, Meant(u, board'[n])
               PROVE  \E e \in log' : e.to = u /\ e.letter = n
    BY DEF EmailedReachesReaders, Posted, Meant, Reads
  <1>1. CASE board'[n] = board[n] /\ log \subseteq log'
    BY <1>1 DEF EmailedReachesReaders, Posted, Meant
  <1>2. ASSUME NEW r \in Requests, CommitPost(r)
        PROVE  \E e \in log' : e.to = u /\ e.letter = n
    <2>1. CASE n # req[r].of
      BY <1>1, <1>2, <2>1, CommitPostEffect
    <2>2. CASE n = req[r].of
      <3>1. board'[n] = req[r].goal /\ req[r].left = {} /\ MailsReaders(r) /\ req[r].rows \subseteq log'
        BY <1>2, <2>2, CommitPostEffect
      <3>2. \E e \in req[r].rows : e.to = u
        BY <3>1 DEF MailsReaders
      <3>3. QED
        BY <1>2, <2>2, <3>1, <3>2, CommitPostEffect
    <2>3. QED
      BY <2>1, <2>2
  <1>3. QED
    BY <1>1, <1>2, OnlyCommitsShow DEF CommitPublish

\* A committed delivery row, or one of a request at work, accounts for a copy.
Logged(u, n) == \E e \in log : e.to = u /\ e.letter = n

Carries(r, u, n) == req[r].op = "post" /\ req[r].of = n /\ \E e \in req[r].rows : e.to = u

Got(u, n) == Logged(u, n) \/ \E r \in Requests : Carries(r, u, n)

CopiesExplained ==
  \A u \in Members, n \in Announcements : inbox[u][n] <= lost[n] + (IF Got(u, n) THEN 1 ELSE 0)

\* Mail and losses come from these steps alone.
LEMMA MailCases ==
  [Next]_vars =>
    \/ UNCHANGED <<inbox, lost>>
    \/ \E r \in Requests : Fail(r) /\ UNCHANGED inbox
    \/ \E r \in Requests, u \in Members, outcome \in Answers :
         (Announce(r, u, outcome) \/ Broadcast(r, u, outcome)) /\ UNCHANGED lost
  <1>1. ASSUME NEW ctx \in Callers, NEW a \in Activities,
               Delete(ctx, a) \/ \E audience \in AudienceInputs : Create(ctx, a, audience)
        PROVE  UNCHANGED <<inbox, lost>>
    BY <1>1 DEF Delete, Create
  <1>2. ASSUME NEW ctx \in Callers, NEW a \in Activities, NEW r \in Requests, NEW notify \in BOOLEAN,
               BeginPublish(r, ctx, a, notify)
        PROVE  UNCHANGED <<inbox, lost>>
    BY <1>2 DEF BeginPublish
  <1>3. ASSUME NEW ctx \in Callers, NEW a \in Activities, NEW r \in Requests,
               NEW status \in StatusInputs, NEW audience \in AudienceInputs,
               BeginUpdate(r, ctx, a, status, audience)
        PROVE  UNCHANGED <<inbox, lost>>
    BY <1>3 DEF BeginUpdate
  <1>4. ASSUME NEW ctx \in Callers, NEW n \in Announcements, NEW r \in Requests, NEW target \in Targets,
               NEW alumniToo \in BOOLEAN, NEW sendEmail \in BOOLEAN, NEW publishNow \in BOOLEAN,
               BeginPost(r, ctx, n, target, alumniToo, sendEmail, publishNow)
        PROVE  UNCHANGED <<inbox, lost>>
    BY <1>4 DEF BeginPost
  <1>5. ASSUME NEW r \in Requests, CommitUpdate(r) \/ FlushPublish(r) \/ CommitPublish(r) \/ CommitPost(r)
        PROVE  UNCHANGED <<inbox, lost>>
    BY <1>5 DEF CommitUpdate, FlushPublish, CommitPublish, CommitPost
  <1>6. ASSUME NEW r \in Requests, Fail(r)
        PROVE  UNCHANGED inbox
    BY <1>6 DEF Fail
  <1>7. ASSUME NEW r \in Requests, NEW u \in Members, NEW outcome \in Answers,
               Announce(r, u, outcome) \/ Broadcast(r, u, outcome)
        PROVE  UNCHANGED lost
    BY <1>7 DEF Announce, Broadcast, Dispatch
  <1>8. CASE UNCHANGED vars
    BY <1>8 DEF vars
  <1>9. QED
    BY <1>1, <1>2, <1>3, <1>4, <1>5, <1>6, <1>7, <1>8 DEF Next

\* What accounts for a copy goes on doing so until the request that carries it fails.
LEMMA GotKept ==
  ASSUME TypeOK, RowsOwn, PostsHold, [Next]_vars, NEW u \in Members, NEW n \in Announcements, Got(u, n)
  PROVE  Got(u, n)' \/ \E r \in Requests : Fail(r) /\ Carries(r, u, n)
  <1>1. log \subseteq log'
    BY OnlyCommitsShow DEF CommitPublish, CommitPost
  <1>2. CASE Logged(u, n)
    BY <1>1, <1>2 DEF Logged, Got
  <1>3. ASSUME NEW r \in Requests, Carries(r, u, n), ~Fail(r)
        PROVE  Got(u, n)'
    <2>1. req[r].op = "post" /\ req[r].of = n
      BY <1>3 DEF Carries
    <2>2. CASE req'[r] = req[r]
      BY <1>3, <2>2 DEF Carries, Got
    <2>3. CASE CommitPost(r)
      <3>1. \E e \in req[r].rows : e.to = u /\ e.letter = n
        BY <1>3, <2>1, <2>3, CommitPostEffect DEF Carries
      <3>2. QED
        BY <2>3, <3>1, CommitPostEffect DEF Logged, Got
    <2>4. ASSUME NEW v \in Members, NEW outcome \in Answers, Broadcast(r, v, outcome)
          PROVE  Got(u, n)'
      <3>1. req'[r].op = "post" /\ req'[r].of = n /\ req[r].rows \subseteq req'[r].rows
        BY <2>1, <2>4, BroadcastEffect
      <3>2. Carries(r, u, n)'
        BY <1>3, <3>1 DEF Carries
      <3>3. QED
        BY <3>2 DEF Got
    <2>5. QED
      BY <1>3, <2>1, <2>2, <2>3, <2>4, PostCases
  <1>4. QED
    BY <1>2, <1>3 DEF Got

\* Nobody has a copy of what is still to be mailed to them.
LEMMA NotGotYet ==
  ASSUME PostsHold, LoggedCanRead, NEW r \in Requests, req[r].op = "post", NEW u \in req[r].left,
         req[r].of \in Announcements
  PROVE  ~Got(u, req[r].of)
  <1>1. ~Logged(u, req[r].of)
    BY DEF Logged, LoggedCanRead, Posted, PostsHold
  <1>2. ASSUME NEW q \in Requests, Carries(q, u, req[r].of)
        PROVE  FALSE
    <2>1. q = r
      BY <1>2 DEF Carries, PostsHold
    <2>2. QED
      BY <1>2, <2>1 DEF Carries, PostsHold, MailsReaders
  <1>3. QED
    BY <1>1, <1>2 DEF Got

\* The numbers of a copy, before and after a step.
LEMMA LetterCounts ==
  ASSUME TypeOK, [Next]_vars, NEW u \in Members, NEW l \in Letters
  PROVE  /\ inbox[u][l] \in Nat /\ lost[l] \in Nat
         /\ inbox'[u][l] \in Nat /\ lost'[l] \in Nat
  <1>1. TypeOK'
    BY TypeStep
  <1>2. inbox[u][l] \in Nat /\ lost[l] \in Nat
    BY DEF TypeOK, DispatchTypeOK
  <1>3. inbox'[u][l] \in Nat /\ lost'[l] \in Nat
    BY <1>1 DEF TypeOK, DispatchTypeOK
  <1>4. QED
    BY <1>2, <1>3

\* A request that mails does not fail in the same step, and no other does.
LEMMA MailingFailsNobody ==
  ASSUME TypeOK, NEW r \in Requests, NEW u \in Members, NEW outcome \in Answers,
         Announce(r, u, outcome) \/ Broadcast(r, u, outcome), NEW q \in Requests
  PROVE  ~Fail(q)
  <1>1. req[r] \in ActivityRequest \cup PostRequest /\ req[r].op \in {"publish", "post"}
    BY RequestKinds DEF Announce, Broadcast
  <1>2. req' = [req EXCEPT ![r].left = @ \ {u}, ![r].rows = @ \cup {Entry(u, req[r].of, outcome)}]
    BY DEF Announce, Broadcast, Dispatch
  <1>3. req'[r].op = req[r].op
    BY <1>1, <1>2 DEF ActivityRequest, PostRequest, TypeOK
  <1>4. CASE q = r
    BY <1>1, <1>3, <1>4 DEF Fail, TypeOK, Idle
  <1>5. CASE q # r
    BY <1>2, <1>5 DEF Fail, TypeOK
  <1>6. QED
    BY <1>4, <1>5

LEMMA ExplainedStep ==
  TypeOK /\ RowsOwn /\ PostsHold /\ LoggedCanRead /\ CopiesExplained /\ [Next]_vars => CopiesExplained'
  <1> SUFFICES ASSUME TypeOK, RowsOwn, PostsHold, LoggedCanRead, CopiesExplained, [Next]_vars,
                      NEW u \in Members, NEW n \in Announcements
               PROVE  inbox'[u][n] <= lost'[n] + (IF Got(u, n)' THEN 1 ELSE 0)
    BY DEF CopiesExplained
  <1>1. n \in Letters
    BY NoticesAssumption
  <1>2. /\ inbox[u][n] \in Nat /\ lost[n] \in Nat /\ inbox'[u][n] \in Nat /\ lost'[n] \in Nat
        /\ inbox[u][n] <= lost[n] + (IF Got(u, n) THEN 1 ELSE 0)
    BY <1>1, LetterCounts DEF CopiesExplained
  \* The letter's numbers stand still, and so does what accounts for them.
  <1>3. ASSUME inbox'[u][n] = inbox[u][n], lost'[n] = lost[n], Got(u, n) => Got(u, n)'
        PROVE  inbox'[u][n] <= lost'[n] + (IF Got(u, n)' THEN 1 ELSE 0)
    BY <1>2, <1>3
  <1>4. ASSUME NEW r \in Requests, Fail(r), UNCHANGED inbox
        PROVE  inbox'[u][n] <= lost'[n] + (IF Got(u, n)' THEN 1 ELSE 0)
    <2>1. \A q \in Requests : Fail(q) => q = r
      BY <1>4 DEF Fail, TypeOK
    <2>2. CASE Carries(r, u, n)
      <3>1. lost'[n] = lost[n] + 1
        BY <1>1, <1>4, <2>2 DEF Fail, Carries, TypeOK
      <3>2. QED
        BY <1>2, <1>4, <3>1
    <2>3. CASE ~Carries(r, u, n)
      <3>1. Got(u, n) => Got(u, n)'
        BY <2>1, <2>3, GotKept
      <3>2. lost'[n] >= lost[n]
        BY <1>1, <1>2, <1>4 DEF Fail, TypeOK
      <3>3. QED
        BY <1>2, <1>4, <3>1, <3>2
    <2>4. QED
      BY <2>2, <2>3
  <1>5. ASSUME NEW r \in Requests, NEW v \in Members, NEW outcome \in Answers,
               Announce(r, v, outcome), UNCHANGED lost
        PROVE  inbox'[u][n] <= lost'[n] + (IF Got(u, n)' THEN 1 ELSE 0)
    <2>1. req[r] \in ActivityRequest
      BY <1>5, RequestKinds DEF Announce
    <2>2. req[r].of # n /\ req[r].of \in Letters
      BY <2>1, NoticesAssumption DEF ActivityRequest
    <2>3. inbox'[u][n] = inbox[u][n]
      BY <1>1, <1>5, <2>2 DEF Announce, Dispatch, Taken, TypeOK, DispatchTypeOK
    <2>4. \A q \in Requests : ~Fail(q)
      BY <1>5, MailingFailsNobody
    <2>5. QED
      BY <1>3, <1>5, <2>3, <2>4, GotKept
  <1>6. ASSUME NEW r \in Requests, NEW v \in Members, NEW outcome \in Answers,
               Broadcast(r, v, outcome), UNCHANGED lost
        PROVE  inbox'[u][n] <= lost'[n] + (IF Got(u, n)' THEN 1 ELSE 0)
    <2>1. \A q \in Requests : ~Fail(q)
      BY <1>6, MailingFailsNobody
    <2>2. Got(u, n) => Got(u, n)'
      BY <2>1, GotKept
    <2>3. CASE u = v /\ n = req[r].of
      <3>1. ~Got(u, n)
        BY <1>6, <2>3, BroadcastEffect, NotGotYet
      <3>2. Carries(r, u, n)'
        BY <1>6, <2>3, BroadcastEffect DEF Carries
      <3>3. inbox'[u][n] <= inbox[u][n] + 1
        BY <1>1, <1>2, <1>6, <2>3 DEF Broadcast, Dispatch, Taken, TypeOK, DispatchTypeOK
      <3>4. Got(u, n)'
        BY <3>2 DEF Got
      <3>5. QED
        BY <1>2, <1>6, <3>1, <3>3, <3>4
    <2>4. CASE ~(u = v /\ n = req[r].of)
      <3>1. inbox'[u][n] = inbox[u][n]
        <4>1. req[r].of \in Letters
          BY <1>6, BroadcastEffect, NoticesAssumption
        <4>2. QED
          BY <1>1, <1>6, <2>4, <4>1 DEF Broadcast, Dispatch, Taken, TypeOK, DispatchTypeOK
      <3>2. QED
        BY <1>3, <1>6, <2>2, <3>1
    <2>5. QED
      BY <2>3, <2>4
  <1>7. CASE UNCHANGED <<inbox, lost>>
    <2>1. CASE \E r \in Requests : Fail(r)
      BY <1>4, <1>7, <2>1
    <2>2. CASE ~\E r \in Requests : Fail(r)
      BY <1>3, <1>7, <2>2, GotKept
    <2>3. QED
      BY <2>1, <2>2
  <1>8. QED
    BY <1>4, <1>5, <1>6, <1>7, MailCases

\* Nobody is mailed an announcement that their portal does not list, but by requests that were
\* rolled back afterwards, and once by one that is at work on it.
THEOREM MailedReaders == Spec => []MailedCanRead
  <1>1. Init => RowsOwn /\ PostsHold /\ LoggedCanRead /\ CopiesExplained
    <2> SUFFICES ASSUME Init
                 PROVE  RowsOwn /\ PostsHold /\ LoggedCanRead /\ CopiesExplained
      OBVIOUS
    <2>1. RowsOwn /\ PostsHold /\ LoggedCanRead
      BY DEF Init, DispatchInit, RowsOwn, PostsHold, LoggedCanRead, Idle
    <2>2. ASSUME NEW u \in Members, NEW n \in Announcements
          PROVE  inbox[u][n] = 0 /\ lost[n] = 0
      BY NoticesAssumption DEF Init, DispatchInit
    <2>3. QED
      BY <2>1, <2>2 DEF CopiesExplained
  <1>2. TypeOK /\ PostsHold /\ LoggedCanRead /\ CopiesExplained => MailedCanRead
    <2> SUFFICES ASSUME TypeOK, PostsHold, LoggedCanRead, CopiesExplained,
                        NEW u \in Members, NEW n \in Announcements
                 PROVE  inbox[u][n] <= lost[n] + (IF Posted(u, n) \/ UnderWay(u, n) THEN 1 ELSE 0)
      BY DEF MailedCanRead
    <2>1. inbox[u][n] \in Nat /\ lost[n] \in Nat
      BY NoticesAssumption DEF TypeOK, DispatchTypeOK
    <2>2. Logged(u, n) => Posted(u, n)
      BY DEF Logged, LoggedCanRead
    <2>3. ASSUME NEW r \in Requests, Carries(r, u, n)
          PROVE  UnderWay(u, n)
      BY <2>3 DEF Carries, PostsHold, MailsReaders, UnderWay
    <2>4. Got(u, n) => Posted(u, n) \/ UnderWay(u, n)
      BY <2>2, <2>3 DEF Got
    <2>5. inbox[u][n] <= lost[n] + (IF Got(u, n) THEN 1 ELSE 0)
      BY DEF CopiesExplained
    <2>6. QED
      BY <2>1, <2>4, <2>5
  <1>3. Spec => [](RowsOwn /\ PostsHold)
    BY <1>1, RowsOwnStep, PostsStep, TypeCorrect, PTL DEF Spec
  <1>4. Spec => []LoggedCanRead
    BY <1>1, <1>3, LoggedStep, TypeCorrect, PTL DEF Spec
  <1>5. Spec => []CopiesExplained
    BY <1>1, <1>3, <1>4, ExplainedStep, TypeCorrect, PTL DEF Spec
  <1>6. QED
    BY <1>2, <1>3, <1>4, <1>5, TypeCorrect, PTL

\* Whoever the portal lists a mailed announcement for has a delivery row of it, but for alumni
\* when it is the whole association's.
THEOREM EmailedReaches == Spec => []EmailedReachesReaders
  <1>1. Init => RowsOwn /\ PostsHold /\ EmailedReachesReaders
    BY DEF Init, RowsOwn, PostsHold, EmailedReachesReaders, Posted, Idle
  <1>2. Spec => [](RowsOwn /\ PostsHold)
    BY <1>1, RowsOwnStep, PostsStep, TypeCorrect, PTL DEF Spec
  <1>3. QED
    BY <1>1, <1>2, EmailedStep, TypeCorrect, PTL DEF Spec
-----------------------------------------------------------------------------
(***************************************************************************)
(* Copies are bounded.  Until announced_at is committed each copy was made *)
(* by a request still at work or by one that was rolled back; from then on *)
(* nobody starts to announce, and those who have started are fewer than    *)
(* the requests.                                                           *)
(***************************************************************************)
Announcers(a) == {r \in Requests : req[r].op = "publish" /\ req[r].of = a /\ Announcing(r)}

\* Those that have attempted u.
Attempts(u, a) ==
  {r \in Announcers(a) :
     req[r].flushed /\ u \in Audience(a, req[r].seen.audience) \ req[r].left}

Settled(a) == row[a] # NotYet /\ (Exists(a) => row[a].announced)

Counted(u, a) ==
  \/ inbox[u][a] <= Cardinality(Attempts(u, a)) + lost[a]
  \/ /\ Settled(a)
     /\ inbox[u][a] + Cardinality(Announcers(a) \ Attempts(u, a)) <= Cardinality(Requests) + lost[a]

CopiesCounted == \A u \in Members, a \in Activities : Counted(u, a)

LEMMA AnnouncersFinite ==
  ASSUME NEW u, NEW a
  PROVE  /\ Attempts(u, a) \subseteq Announcers(a) /\ Announcers(a) \subseteq Requests
         /\ IsFiniteSet(Announcers(a)) /\ IsFiniteSet(Attempts(u, a))
         /\ IsFiniteSet(Announcers(a) \ Attempts(u, a))
         /\ Cardinality(Announcers(a)) \in Nat /\ Cardinality(Attempts(u, a)) \in Nat
         /\ Cardinality(Announcers(a) \ Attempts(u, a)) \in Nat /\ Cardinality(Requests) \in Nat
         /\ Cardinality(Announcers(a)) <= Cardinality(Requests)
         /\ Cardinality(Announcers(a) \ Attempts(u, a))
              = Cardinality(Announcers(a)) - Cardinality(Attempts(u, a))
  <1>1. Attempts(u, a) \subseteq Announcers(a) /\ Announcers(a) \subseteq Requests
    BY DEF Attempts, Announcers
  <1>2. /\ IsFiniteSet(Announcers(a)) /\ Cardinality(Announcers(a)) <= Cardinality(Requests)
        /\ Cardinality(Requests) \in Nat
    BY <1>1, NoticesAssumption, FS_Subset, FS_CardinalityType
  <1>3. IsFiniteSet(Attempts(u, a)) /\ IsFiniteSet(Announcers(a) \ Attempts(u, a))
    BY <1>1, <1>2, FS_Subset
  <1>4. Announcers(a) \cap Attempts(u, a) = Attempts(u, a)
    BY <1>1
  <1>5. Cardinality(Announcers(a) \ Attempts(u, a)) = Cardinality(Announcers(a)) - Cardinality(Attempts(u, a))
    BY <1>2, <1>4, FS_Difference
  <1>6. QED
    BY <1>1, <1>2, <1>3, <1>5, FS_CardinalityType

\* Announced or deleted is for good.
LEMMA SettledStays ==
  ASSUME TypeOK, GoalsKeep, [Next]_vars, NEW a \in Activities, Settled(a)
  PROVE  Settled(a)'
  <1>1. ASSUME NEW r \in Requests, NEW goal \in Row, req[r] \in ActivityRequest,
               CanWrite(r, goal), row' = Write(r, goal)
        PROVE  row'[a] # NotYet /\ (row'[a] # Gone => row[a] # Gone)
    <2>1. CASE Dirty(req[r].seen, goal) = {} \/ a # req[r].of
      BY <1>1, <2>1 DEF Write, Settled, TypeOK
    <2>2. CASE Dirty(req[r].seen, goal) # {} /\ a = req[r].of
      <3>1. row'[a] = Merged(row[a], req[r].seen, goal) /\ row[a] # Gone
        BY <1>1, <2>2 DEF Write, TypeOK, CanWrite, Exists
      <3>2. row'[a] \in Row
        <4>1. req[r].seen \in Row /\ row[a] \in Row
          BY <1>1, <2>2 DEF ActivityRequest, CanWrite, Exists, TypeOK
        <4>2. QED
          BY <3>1, <4>1, MergedIsRow
      <3>3. QED
        BY <3>1, <3>2, NoticesAssumption
    <2>3. QED
      BY <2>1, <2>2
  <1>2. row'[a] # NotYet /\ (row'[a] # Gone => row[a] # Gone)
    <2>1. CASE UNCHANGED row
      BY <2>1 DEF Settled
    <2>2. ASSUME NEW ctx \in Callers, NEW b \in Activities,
                 (\E audience \in AudienceInputs : Create(ctx, b, audience)) \/ Delete(ctx, b)
          PROVE  row'[a] # NotYet /\ (row'[a] # Gone => row[a] # Gone)
      BY <2>2, NoticesAssumption DEF Create, Delete, Settled, TypeOK
    <2>3. ASSUME NEW r \in Requests, CommitUpdate(r) \/ CommitPublish(r)
          PROVE  row'[a] # NotYet /\ (row'[a] # Gone => row[a] # Gone)
      BY <1>1, <2>3, RequestKinds, FinalGoalType DEF CommitUpdate, CommitPublish, ActivityRequest
    <2>4. QED
      BY <2>1, <2>2, <2>3, RowCases
  <1>3. QED
    BY <1>2, AnnouncedStep DEF Settled, Exists

LEMMA CountTypes ==
  ASSUME TypeOK, [Next]_vars, NEW u \in Members, NEW a \in Activities
  PROVE  /\ inbox[u][a] \in Nat /\ lost[a] \in Nat
         /\ inbox'[u][a] \in Nat /\ lost'[a] \in Nat
  <1>1. TypeOK' /\ a \in Letters
    BY TypeStep, NoticesAssumption
  <1>2. inbox[u][a] \in Nat /\ lost[a] \in Nat
    BY <1>1 DEF TypeOK, DispatchTypeOK
  <1>3. inbox'[u][a] \in Nat /\ lost'[a] \in Nat
    BY <1>1 DEF TypeOK, DispatchTypeOK
  <1>4. QED
    BY <1>2, <1>3

\* What is to be shown after a step.
LEMMA CountedThen ==
  ASSUME NEW u, NEW a
  PROVE  Counted(u, a)' <=>
           \/ inbox'[u][a] <= Cardinality(Attempts(u, a)') + lost'[a]
           \/ /\ Settled(a)'
              /\ inbox'[u][a] + Cardinality(Announcers(a)' \ Attempts(u, a)') <= Cardinality(Requests) + lost'[a]
  BY DEF Counted

LEMMA CountsKept ==
  ASSUME TypeOK, GoalsKeep, [Next]_vars, NEW u \in Members, NEW a \in Activities, Counted(u, a),
         Announcers(a)' = Announcers(a), Attempts(u, a)' = Attempts(u, a),
         inbox'[u][a] = inbox[u][a], lost'[a] >= lost[a]
  PROVE  Counted(u, a)'
  <1> DEFINE M == Cardinality(Attempts(u, a))
             L == Cardinality(Announcers(a) \ Attempts(u, a))
  <1>1. inbox[u][a] \in Nat /\ lost[a] \in Nat /\ lost'[a] \in Nat
    BY CountTypes
  <1>2. M \in Nat /\ L \in Nat /\ Cardinality(Requests) \in Nat
    BY AnnouncersFinite
  <1>3. \/ inbox[u][a] <= M + lost[a]
        \/ Settled(a)' /\ inbox[u][a] + L <= Cardinality(Requests) + lost[a]
    BY SettledStays DEF Counted
  <1> HIDE DEF M, L
  <1>4. \/ inbox[u][a] <= M + lost'[a]
        \/ Settled(a)' /\ inbox[u][a] + L <= Cardinality(Requests) + lost'[a]
    BY <1>1, <1>2, <1>3
  <1>5. QED
    BY <1>4, CountedThen DEF M, L

\* A request that ends takes its own attempt with it; whoever had made one has it recorded.
LEMMA CountsLeft ==
  ASSUME TypeOK, GoalsKeep, [Next]_vars, NEW u \in Members, NEW a \in Activities, Counted(u, a),
         NEW r \in Requests,
         Announcers(a)' = Announcers(a) \ {r}, Attempts(u, a)' = Attempts(u, a) \ {r},
         inbox'[u][a] = inbox[u][a], lost'[a] >= lost[a],
         r \in Attempts(u, a) => Settled(a)' \/ lost'[a] >= lost[a] + 1
  PROVE  Counted(u, a)'
  <1> DEFINE M == Cardinality(Attempts(u, a))
             L == Cardinality(Announcers(a) \ Attempts(u, a))
             N == Cardinality(Attempts(u, a) \ {r})
             K == Cardinality((Announcers(a) \ {r}) \ (Attempts(u, a) \ {r}))
             R == Cardinality(Requests)
  <1>1. inbox[u][a] \in Nat /\ lost[a] \in Nat /\ lost'[a] \in Nat
    BY CountTypes
  <1>2. K <= L /\ K \in Nat
    <2>1. (Announcers(a) \ {r}) \ (Attempts(u, a) \ {r}) \subseteq Announcers(a) \ Attempts(u, a)
      BY AnnouncersFinite
    <2>2. QED
      BY <2>1, AnnouncersFinite, FS_Subset, FS_CardinalityType
  <1>3. N = (IF r \in Attempts(u, a) THEN M - 1 ELSE M) /\ N \in Nat
    BY AnnouncersFinite, FS_RemoveElement, FS_CardinalityType
  <1>4. M \in Nat /\ L \in Nat /\ R \in Nat /\ M + L <= R
    <2> DEFINE P == Cardinality(Announcers(a))
    <2>1. M \in Nat /\ L \in Nat /\ R \in Nat /\ P \in Nat /\ P <= R /\ L = P - M
      BY AnnouncersFinite
    <2> HIDE DEF M, L, R, P
    <2>2. QED
      BY <2>1
  <1>5. \/ inbox[u][a] <= M + lost[a]
        \/ Settled(a)' /\ inbox[u][a] + L <= R + lost[a]
    BY SettledStays DEF Counted
  <1>6. Counted(u, a)' <=>
          \/ inbox[u][a] <= N + lost'[a]
          \/ Settled(a)' /\ inbox[u][a] + K <= R + lost'[a]
    BY CountedThen
  <1> HIDE DEF M, L, N, K, R
  <1>7. CASE Settled(a)'
    BY <1>1, <1>2, <1>4, <1>5, <1>6, <1>7
  <1>8. CASE ~Settled(a)'
    BY <1>1, <1>3, <1>4, <1>5, <1>6, <1>8
  <1>9. QED
    BY <1>7, <1>8

\* Announcers and attempts change only at the request that moves.
LEMMA OthersCount ==
  ASSUME NEW r \in Requests, \A q \in Requests \ {r} : req'[q] = req[q],
         NEW u \in Members, NEW a \in Activities
  PROVE  /\ \A q \in Requests \ {r} : q \in Announcers(a)' <=> q \in Announcers(a)
         /\ \A q \in Requests \ {r} : q \in Attempts(u, a)' <=> q \in Attempts(u, a)
  BY DEF Announcers, Attempts, Announcing, Audience

LEMMA CountsOutside ==
  ASSUME NEW r \in Requests, \A q \in Requests \ {r} : req'[q] = req[q],
         NEW u \in Members, NEW a \in Activities, r \notin Announcers(a), r \notin Announcers(a)'
  PROVE  Announcers(a)' = Announcers(a) /\ Attempts(u, a)' = Attempts(u, a)
  <1>1. \A q : q \in Announcers(a)' <=> q \in Announcers(a)
    BY OthersCount, AnnouncersFinite DEF Announcers
  <1>2. \A q : q \in Attempts(u, a)' <=> q \in Attempts(u, a)
    BY OthersCount DEF Attempts, Announcers
  <1>3. QED
    BY <1>1, <1>2

LEMMA EndingCounts ==
  ASSUME TypeOK, NEW r \in Requests, req' = [req EXCEPT ![r] = Idle],
         NEW u \in Members, NEW a \in Activities
  PROVE  Announcers(a)' = Announcers(a) \ {r} /\ Attempts(u, a)' = Attempts(u, a) \ {r}
  <1>1. req'[r] = Idle /\ \A q \in Requests \ {r} : req'[q] = req[q]
    BY DEF TypeOK
  <1>2. r \notin Announcers(a)' /\ r \notin Attempts(u, a)'
    BY <1>1 DEF Announcers, Attempts, Idle
  <1>3. \A q : q \in Announcers(a)' <=> q \in Announcers(a) \ {r}
    BY <1>1, <1>2, OthersCount DEF Announcers
  <1>4. \A q : q \in Attempts(u, a)' <=> q \in Attempts(u, a) \ {r}
    BY <1>1, <1>2, OthersCount DEF Attempts, Announcers
  <1>5. QED
    BY <1>3, <1>4

\* The commit of an announcement settles the activity.
LEMMA CommitSettles ==
  ASSUME TypeOK, GoalsKeep, NEW r \in Requests, CommitPublish(r), Announcing(r),
         NEW a, a = req[r].of
  PROVE  Settled(a)'
  <1>1. req[r] \in ActivityRequest /\ req[r].of \in Activities /\ req[r].seen \in Row
    BY RequestKinds DEF CommitPublish, ActivityRequest
  <1>2. ~req[r].seen.announced /\ FinalGoal(r).announced /\ FinalGoal(r) \in Row
    BY <1>1, FinalGoalType DEF Announcing, FinalGoal, ActivityRequest, Row
  <1>3. "announced" \in Dirty(req[r].seen, FinalGoal(r))
    BY <1>2 DEF Dirty, Columns
  <1>4. row[req[r].of] \in Row
    BY <1>1, <1>3 DEF CommitPublish, CanWrite, Exists, TypeOK
  <1>5. row'[req[r].of] = Merged(row[req[r].of], req[r].seen, FinalGoal(r))
    BY <1>1, <1>3 DEF CommitPublish, Write, TypeOK
  <1>6. row'[req[r].of] \in Row /\ row'[req[r].of].announced
    BY <1>1, <1>2, <1>4, <1>5, MergedIsRow
  <1>7. QED
    BY <1>6, NoticesAssumption DEF Settled

\* A new announcer has seen that the activity is not announced, and has attempted nobody.
LEMMA BeginningCounts ==
  ASSUME TypeOK, GoalsKeep, [Next]_vars, NEW r \in Requests, NEW ctx \in Callers, NEW b \in Activities,
         NEW notify \in BOOLEAN, BeginPublish(r, ctx, b, notify),
         NEW u \in Members, NEW a \in Activities, Counted(u, a)
  PROVE  Counted(u, a)'
  <1>1. /\ req[r] = Idle /\ Exists(b) /\ UNCHANGED <<inbox, lost>>
        /\ \A q \in Requests \ {r} : req'[q] = req[q]
        /\ req'[r].of = b /\ req'[r].seen = row[b] /\ req'[r].flushed = FALSE
    BY DEF BeginPublish, Visible, TypeOK
  <1>2. r \notin Announcers(a) /\ r \notin Attempts(u, a)
    BY <1>1 DEF Announcers, Attempts, Idle
  <1>3. r \notin Attempts(u, a)'
    BY <1>1 DEF Attempts
  <1>4. Attempts(u, a)' = Attempts(u, a)
    <2>1. \A q : q \in Attempts(u, a)' <=> q \in Attempts(u, a)
      BY <1>1, <1>2, <1>3, OthersCount DEF Attempts, Announcers
    <2>2. QED
      BY <2>1
  <1>5. inbox[u][a] \in Nat /\ lost[a] \in Nat /\ inbox'[u][a] = inbox[u][a] /\ lost'[a] = lost[a]
    BY <1>1, CountTypes
  <1>6. CASE r \in Announcers(a)'
    <2>1. ~Settled(a)
      BY <1>1, <1>6 DEF Announcers, Announcing, Settled
    <2>2. inbox[u][a] <= Cardinality(Attempts(u, a)) + lost[a]
      BY <2>1 DEF Counted
    <2>3. QED
      BY <1>4, <1>5, <2>2, CountedThen
  <1>7. CASE r \notin Announcers(a)'
    <2>1. Announcers(a)' = Announcers(a)
      BY <1>1, <1>2, <1>7, CountsOutside
    <2>2. QED
      BY <1>4, <1>5, <2>1, CountsKept
  <1>8. QED
    BY <1>6, <1>7

\* An attempt is counted when it is made.
LEMMA AttemptCounts ==
  ASSUME TypeOK, GoalsKeep, PublicationsHold, [Next]_vars, NEW r \in Requests, NEW v \in Members,
         NEW outcome \in Answers, Announce(r, v, outcome),
         NEW u \in Members, NEW a \in Activities, Counted(u, a)
  PROVE  Counted(u, a)'
  <1>1. req[r] \in ActivityRequest /\ req[r].op = "publish" /\ v \in req[r].left
    BY RequestKinds DEF Announce, Dispatch
  <1>2. /\ req'[r].op = "publish" /\ req'[r].of = req[r].of /\ req'[r].seen = req[r].seen
        /\ req'[r].notify = req[r].notify /\ req'[r].flushed = req[r].flushed
        /\ req'[r].left = req[r].left \ {v}
        /\ \A q \in Requests \ {r} : req'[q] = req[q]
    BY <1>1 DEF Announce, Dispatch, ActivityRequest, TypeOK
  <1>3. v \in Audience(req[r].of, req[r].seen.audience) /\ req[r].flushed /\ Announcing(r)
    BY <1>1 DEF PublicationsHold, LeftInAudience
  <1>4. Announcers(a)' = Announcers(a)
    <2>1. r \in Announcers(a)' <=> r \in Announcers(a)
      BY <1>1, <1>2 DEF Announcers, Announcing
    <2>2. \A q : q \in Announcers(a)' <=> q \in Announcers(a)
      BY <1>2, <2>1, OthersCount DEF Announcers
    <2>3. QED
      BY <2>2
  <1>5. lost'[a] = lost[a] /\ lost[a] \in Nat /\ inbox[u][a] \in Nat /\ inbox'[u][a] \in Nat
    BY CountTypes DEF Announce, Dispatch
  <1>6. CASE v = u /\ req[r].of = a
    <2> DEFINE M == Cardinality(Attempts(u, a))
               N == Cardinality(Attempts(u, a) \cup {r})
               L == Cardinality(Announcers(a) \ Attempts(u, a))
               K == Cardinality((Announcers(a) \ Attempts(u, a)) \ {r})
               R == Cardinality(Requests)
    <2>1. r \in Announcers(a) /\ r \notin Attempts(u, a)
      BY <1>1, <1>3, <1>6 DEF Announcers, Attempts
    <2>2. Attempts(u, a)' = Attempts(u, a) \cup {r}
      <3>1. r \in Attempts(u, a)'
        BY <1>2, <1>3, <1>4, <1>6, <2>1 DEF Attempts, Audience
      <3>2. \A q : q \in Attempts(u, a)' <=> q \in Attempts(u, a) \cup {r}
        BY <1>2, <3>1, OthersCount DEF Attempts, Announcers
      <3>3. QED
        BY <3>2
    <2>3. Announcers(a)' \ Attempts(u, a)' = (Announcers(a) \ Attempts(u, a)) \ {r}
      BY <1>4, <2>2
    <2>4. N = M + 1 /\ K = L - 1
      BY <2>1, AnnouncersFinite, FS_AddElement, FS_RemoveElement
    <2>5. M \in Nat /\ L \in Nat /\ R \in Nat
      BY AnnouncersFinite
    <2>6. inbox'[u][a] <= inbox[u][a] + 1
      BY <1>1, <1>5, <1>6, NoticesAssumption DEF Announce, Dispatch, Taken, TypeOK, DispatchTypeOK
    <2>7. \/ inbox[u][a] <= M + lost[a]
          \/ Settled(a)' /\ inbox[u][a] + L <= R + lost[a]
      BY SettledStays DEF Counted
    <2>8. Counted(u, a)' <=>
            \/ inbox'[u][a] <= N + lost'[a]
            \/ Settled(a)' /\ inbox'[u][a] + K <= R + lost'[a]
      BY <2>2, <2>3, CountedThen
    <2> HIDE DEF M, N, L, K, R
    <2>9. QED
      BY <1>5, <2>4, <2>5, <2>6, <2>7, <2>8
  <1>7. CASE ~(v = u /\ req[r].of = a)
    <2>1. inbox'[u][a] = inbox[u][a]
      BY <1>1, <1>7, NoticesAssumption DEF Announce, Dispatch, Taken, TypeOK, DispatchTypeOK
    <2>2. r \in Attempts(u, a)' <=> r \in Attempts(u, a)
      BY <1>2, <1>4, <1>7 DEF Attempts, Announcers, Audience
    <2>3. \A q : q \in Attempts(u, a)' <=> q \in Attempts(u, a)
      BY <1>2, <2>2, OthersCount DEF Attempts, Announcers
    <2>4. Attempts(u, a)' = Attempts(u, a)
      BY <2>3
    <2>5. QED
      BY <1>4, <1>5, <2>1, <2>4, CountsKept
  <1>8. QED
    BY <1>6, <1>7

LEMMA CopiesStep ==
  TypeOK /\ GoalsKeep /\ PublicationsHold /\ CopiesCounted /\ [Next]_vars => CopiesCounted'
  <1> SUFFICES ASSUME TypeOK, GoalsKeep, PublicationsHold, CopiesCounted, [Next]_vars,
                      NEW u \in Members, NEW a \in Activities
               PROVE  Counted(u, a)'
    BY DEF CopiesCounted
  <1>1. Counted(u, a) /\ lost[a] \in Nat
    BY CountTypes DEF CopiesCounted
  <1>2. CASE UNCHANGED <<req, inbox, lost>>
    <2>1. Announcers(a)' = Announcers(a)
      BY <1>2 DEF Announcers, Announcing
    <2>2. Attempts(u, a)' = Attempts(u, a)
      BY <1>2, <2>1 DEF Attempts, Audience
    <2>3. QED
      BY <1>1, <1>2, <2>1, <2>2, CountsKept
  <1>3. ASSUME NEW r \in Requests, CommitUpdate(r) \/ CommitPost(r)
        PROVE  Counted(u, a)'
    <2>1. req' = [req EXCEPT ![r] = Idle] /\ UNCHANGED <<inbox, lost>> /\ r \notin Attempts(u, a)
      BY <1>3 DEF CommitUpdate, CommitPost, Attempts, Announcers
    <2>2. inbox'[u][a] = inbox[u][a] /\ lost'[a] >= lost[a]
      BY <1>1, <2>1
    <2>3. Announcers(a)' = Announcers(a) \ {r} /\ Attempts(u, a)' = Attempts(u, a) \ {r}
      BY <2>1, EndingCounts
    <2>4. QED
      BY <1>1, <2>1, <2>2, <2>3, CountsLeft
  <1>4. ASSUME NEW r \in Requests, CommitPublish(r)
        PROVE  Counted(u, a)'
    <2>1. req' = [req EXCEPT ![r] = Idle] /\ UNCHANGED <<inbox, lost>>
      BY <1>4 DEF CommitPublish
    <2>2. r \in Attempts(u, a) => Settled(a)'
      BY <1>4, CommitSettles DEF Attempts, Announcers
    <2>3. inbox'[u][a] = inbox[u][a] /\ lost'[a] >= lost[a]
      BY <1>1, <2>1
    <2>4. Announcers(a)' = Announcers(a) \ {r} /\ Attempts(u, a)' = Attempts(u, a) \ {r}
      BY <2>1, EndingCounts
    <2>5. QED
      BY <1>1, <2>1, <2>2, <2>3, <2>4, CountsLeft
  <1>5. ASSUME NEW r \in Requests, Fail(r)
        PROVE  Counted(u, a)'
    <2>1. req' = [req EXCEPT ![r] = Idle] /\ UNCHANGED inbox
      BY <1>5 DEF Fail
    <2>2. lost'[a] >= lost[a]
      BY <1>1, <1>5, NoticesAssumption DEF Fail, TypeOK
    <2>3. ASSUME r \in Attempts(u, a)
          PROVE  lost'[a] >= lost[a] + 1
      <3>1. req[r].op = "publish" /\ req[r].of = a /\ req[r].flushed /\ Announcing(r)
        BY <2>3 DEF Attempts, Announcers
      <3>2. req[r].rows # {}
        BY <2>3, <3>1 DEF Attempts, PublicationsHold, Attempted
      <3>3. a \in Letters
        BY NoticesAssumption
      <3>4. QED
        BY <1>1, <1>5, <3>1, <3>2, <3>3 DEF Fail, TypeOK
    <2>4. Announcers(a)' = Announcers(a) \ {r} /\ Attempts(u, a)' = Attempts(u, a) \ {r}
      BY <2>1, EndingCounts
    <2>5. QED
      BY <1>1, <2>1, <2>2, <2>3, <2>4, CountsLeft
  <1>6. ASSUME NEW r \in Requests, r \notin Announcers(a), r \notin Announcers(a)',
               \A q \in Requests \ {r} : req'[q] = req[q],
               inbox'[u][a] = inbox[u][a], UNCHANGED lost
        PROVE  Counted(u, a)'
    BY <1>1, <1>6, CountsOutside, CountsKept
  <1>7. ASSUME NEW r \in Requests, NEW ctx \in Callers, NEW b \in Activities, NEW status \in StatusInputs,
               NEW audience \in AudienceInputs, BeginUpdate(r, ctx, b, status, audience)
        PROVE  Counted(u, a)'
    <2>1. r \notin Announcers(a) /\ r \notin Announcers(a)'
      BY <1>7 DEF BeginUpdate, Announcers, Idle, TypeOK
    <2>2. QED
      BY <1>6, <1>7, <2>1 DEF BeginUpdate, TypeOK
  <1>8. ASSUME NEW r \in Requests, NEW ctx \in Callers, NEW n \in Announcements, NEW target \in Targets,
               NEW alumniToo \in BOOLEAN, NEW sendEmail \in BOOLEAN, NEW publishNow \in BOOLEAN,
               BeginPost(r, ctx, n, target, alumniToo, sendEmail, publishNow)
        PROVE  Counted(u, a)'
    <2>1. r \notin Announcers(a) /\ r \notin Announcers(a)'
      BY <1>8 DEF BeginPost, Announcers, Idle, TypeOK
    <2>2. QED
      BY <1>6, <1>8, <2>1 DEF BeginPost, TypeOK
  <1>9. ASSUME NEW r \in Requests, FlushPublish(r)
        PROVE  Counted(u, a)'
    <2>1. req[r] \in ActivityRequest /\ req[r].flushed = FALSE
      BY <1>9, RequestKinds DEF FlushPublish, ActivityRequest
    <2>2. /\ req'[r].op = req[r].op /\ req'[r].of = req[r].of /\ req'[r].seen = req[r].seen
          /\ req'[r].notify = req[r].notify
          /\ req'[r].left = IF Announcing(r) THEN Audience(req[r].of, req[r].seen.audience) ELSE {}
          /\ \A q \in Requests \ {r} : req'[q] = req[q]
      BY <1>9, <2>1 DEF FlushPublish, ActivityRequest, TypeOK
    <2>3. r \in Announcers(a)' <=> r \in Announcers(a)
      BY <2>2 DEF Announcers, Announcing
    <2>4. r \notin Attempts(u, a) /\ r \notin Attempts(u, a)'
      BY <2>1, <2>2 DEF Attempts, Announcers, Announcing, Audience
    <2>5. \A q : (q \in Announcers(a)' <=> q \in Announcers(a)) /\ (q \in Attempts(u, a)' <=> q \in Attempts(u, a))
      BY <2>2, <2>3, <2>4, OthersCount DEF Announcers, Attempts
    <2>6. Announcers(a)' = Announcers(a) /\ Attempts(u, a)' = Attempts(u, a)
      BY <2>5
    <2>7. QED
      BY <1>1, <1>9, <2>6, CountsKept DEF FlushPublish
  <1>10. ASSUME NEW r \in Requests, NEW ctx \in Callers, NEW b \in Activities, NEW notify \in BOOLEAN,
                BeginPublish(r, ctx, b, notify)
         PROVE  Counted(u, a)'
    BY <1>1, <1>10, BeginningCounts
  <1>11. ASSUME NEW r \in Requests, NEW v \in Members, NEW outcome \in Answers, Announce(r, v, outcome)
         PROVE  Counted(u, a)'
    BY <1>1, <1>11, AttemptCounts
  <1>12. ASSUME NEW r \in Requests, NEW v \in Members, NEW outcome \in Answers, Broadcast(r, v, outcome)
         PROVE  Counted(u, a)'
    <2>1. req[r] \in PostRequest /\ req[r].op = "post"
      BY <1>12, RequestKinds DEF Broadcast
    <2>2. req[r].of # a
      BY <2>1, NoticesAssumption DEF PostRequest
    <2>3. inbox'[u][a] = inbox[u][a] /\ UNCHANGED lost
      BY <1>12, <2>1, <2>2, NoticesAssumption
         DEF Broadcast, Dispatch, Taken, PostRequest, TypeOK, DispatchTypeOK
    <2>4. req'[r].op = "post" /\ \A q \in Requests \ {r} : req'[q] = req[q]
      BY <1>12, <2>1 DEF Broadcast, Dispatch, PostRequest, TypeOK
    <2>5. QED
      BY <1>6, <2>1, <2>3, <2>4 DEF Announcers
  <1>13. ASSUME NEW ctx \in Callers, NEW b \in Activities,
                (\E audience \in AudienceInputs : Create(ctx, b, audience)) \/ Delete(ctx, b)
         PROVE  UNCHANGED <<req, inbox, lost>>
    BY <1>13 DEF Create, Delete
  <1>14. QED
    BY <1>2, <1>3, <1>4, <1>5, <1>7, <1>8, <1>9, <1>10, <1>11, <1>12, <1>13 DEF Next, vars

\* However publications overlap and fail, nobody is mailed about an activity more often than
\* requests overlap, plus once for each that failed after mailing.
THEOREM CopiesBounded == Spec => []AnnouncementsBounded
  <1>1. Init => PublicationsHold /\ CopiesCounted
    <2> SUFFICES ASSUME Init
                 PROVE  PublicationsHold /\ CopiesCounted
      OBVIOUS
    <2>1. PublicationsHold
      BY DEF Init, PublicationsHold, Idle
    <2>2. ASSUME NEW u \in Members, NEW a \in Activities
          PROVE  inbox[u][a] = 0 /\ lost[a] = 0
      BY NoticesAssumption DEF Init, DispatchInit
    <2>3. QED
      BY <2>1, <2>2, AnnouncersFinite DEF CopiesCounted, Counted
  <1>2. TypeOK /\ CopiesCounted => AnnouncementsBounded
    <2> SUFFICES ASSUME TypeOK, CopiesCounted, NEW u \in Members, NEW a \in Activities
                 PROVE  inbox[u][a] <= Cardinality(Requests) + lost[a]
      BY DEF AnnouncementsBounded
    <2>1. inbox[u][a] \in Nat /\ lost[a] \in Nat
      BY NoticesAssumption DEF TypeOK, DispatchTypeOK
    <2>2. /\ Cardinality(Attempts(u, a)) \in Nat /\ Cardinality(Requests) \in Nat
          /\ Cardinality(Announcers(a) \ Attempts(u, a)) \in Nat
          /\ Cardinality(Attempts(u, a)) <= Cardinality(Requests)
      BY AnnouncersFinite, FS_Subset, NoticesAssumption
    <2>3. QED
      BY <2>1, <2>2 DEF CopiesCounted, Counted
  <1>3. Spec => []PublicationsHold
    BY <1>1, PublicationsStep, TypeCorrect, PTL DEF Spec
  <1>4. Spec => []CopiesCounted
    BY <1>1, <1>3, CopiesStep, GoalsAlwaysKeep, TypeCorrect, PTL DEF Spec
  <1>5. QED
    BY <1>2, <1>4, TypeCorrect, PTL
-----------------------------------------------------------------------------
(***************************************************************************)
(* The delivery log is about mail that left and about things that were     *)
(* done.                                                                   *)
(***************************************************************************)
\* The rows of a request that is not committed yet.
HonestRows ==
  \A r \in Requests : req[r].op \in {"publish", "post"} =>
    \A e \in req[r].rows : e.status = "sent" => inbox[e.to][e.letter] > 0

\* What a committed delivery row says: a mail that was sent left, the activity it is about is
\* announced or deleted since, the announcement it is about is on the board.
RecordedIsDone ==
  /\ LogIsTruthful
  /\ \A e \in log : e.letter \in Activities => Settled(e.letter)
  /\ DeliveredPosted

\* Mail that was taken is one more in one place; a row says "sent" only of such a mail.
LEMMA TakenGrows ==
  ASSUME TypeOK, NEW u \in Members, NEW l \in Letters, NEW outcome, inbox' = Taken(u, l, outcome)
  PROVE  /\ \A v \in Members, k \in Letters : inbox[v][k] > 0 => inbox'[v][k] > 0
         /\ Entry(u, l, outcome).status = "sent" => inbox'[u][l] > 0
  <1>1. CASE outcome = "refused"
    BY <1>1 DEF Taken, Entry
  <1>2. CASE outcome # "refused"
    <2>1. inbox' = [inbox EXCEPT ![u][l] = @ + 1] /\ inbox \in [Members -> [Letters -> Nat]]
      BY <1>2 DEF Taken, TypeOK, DispatchTypeOK
    <2>2. QED
      BY <2>1
  <1>3. QED
    BY <1>1, <1>2

\* What the provider took stays taken.
LEMMA InboxGrows ==
  ASSUME TypeOK, [Next]_vars
  PROVE  \A v \in Members, k \in Letters : inbox[v][k] > 0 => inbox'[v][k] > 0
  <1>1. ASSUME NEW r \in Requests, NEW u \in Members, NEW outcome \in Answers,
               Announce(r, u, outcome) \/ Broadcast(r, u, outcome)
        PROVE  \A v \in Members, k \in Letters : inbox[v][k] > 0 => inbox'[v][k] > 0
    <2>1. req[r].of \in Letters
      BY <1>1, RequestKinds, NoticesAssumption DEF Announce, Broadcast, ActivityRequest, PostRequest
    <2>2. QED
      BY <1>1, <2>1, TakenGrows DEF Announce, Broadcast, Dispatch
  <1>2. CASE UNCHANGED inbox
    BY <1>2
  <1>3. QED
    BY <1>1, <1>2 DEF Next, vars, Create, Delete, BeginUpdate, CommitUpdate, BeginPublish, FlushPublish,
                      CommitPublish, BeginPost, CommitPost, Fail

LEMMA HonestStep == TypeOK /\ HonestRows /\ [Next]_vars => HonestRows'
  <1> SUFFICES ASSUME TypeOK, HonestRows, [Next]_vars, NEW r \in Requests,
                      req'[r].op \in {"publish", "post"}, NEW e \in req'[r].rows, e.status = "sent"
               PROVE  inbox'[e.to][e.letter] > 0
    BY DEF HonestRows
  <1>0. ASSUME req[r].op \in {"publish", "post"}, e \in req[r].rows
        PROVE  inbox'[e.to][e.letter] > 0
    <2>1. e \in LogRow
      BY <1>0, RequestKinds DEF ActivityRequest, PostRequest
    <2>2. inbox[e.to][e.letter] > 0
      BY <1>0 DEF HonestRows
    <2>3. QED
      BY <2>1, <2>2, InboxGrows DEF LogRow
  <1>1. CASE req'[r] = req[r]
    BY <1>0, <1>1
  <1>2. CASE req'[r] = Idle
    BY <1>2 DEF Idle
  <1>3. ASSUME NEW ctx \in Callers, NEW a \in Activities, NEW status \in StatusInputs,
               NEW audience \in AudienceInputs, BeginUpdate(r, ctx, a, status, audience)
        PROVE  FALSE
    BY <1>3 DEF BeginUpdate, TypeOK
  <1>4. ASSUME NEW ctx \in Callers, NEW a \in Activities, NEW notify \in BOOLEAN,
               BeginPublish(r, ctx, a, notify)
        PROVE  FALSE
    BY <1>4 DEF BeginPublish, TypeOK
  <1>5. ASSUME BeginsPost(r)
        PROVE  FALSE
    BY <1>5 DEF BeginsPost, BeginPost, TypeOK
  <1>6. CASE FlushPublish(r)
    <2>1. req[r] \in ActivityRequest /\ req[r].op = "publish"
      BY <1>6, RequestKinds DEF FlushPublish
    <2>2. req'[r].rows = req[r].rows
      BY <1>6, <2>1 DEF FlushPublish, ActivityRequest, TypeOK
    <2>3. QED
      BY <1>0, <2>1, <2>2
  <1>7. ASSUME NEW u \in Members, NEW outcome \in Answers,
               Announce(r, u, outcome) \/ Broadcast(r, u, outcome)
        PROVE  inbox'[e.to][e.letter] > 0
    <2>1. req[r] \in ActivityRequest \cup PostRequest /\ req[r].op \in {"publish", "post"}
      BY <1>7, RequestKinds DEF Announce, Broadcast
    <2>2. req'[r] = [req[r] EXCEPT !.left = @ \ {u}, !.rows = @ \cup {Entry(u, req[r].of, outcome)}]
      BY <1>7 DEF Announce, Broadcast, Dispatch, TypeOK
    <2>3. req'[r].rows = req[r].rows \cup {Entry(u, req[r].of, outcome)} /\ req[r].of \in Letters
      BY <2>1, <2>2, NoticesAssumption DEF ActivityRequest, PostRequest
    <2>4. CASE e = Entry(u, req[r].of, outcome)
      <3>1. e.to = u /\ e.letter = req[r].of
        BY <2>4 DEF Entry
      <3>2. inbox'[u][req[r].of] > 0
        BY <1>7, <2>3, <2>4, TakenGrows DEF Announce, Broadcast, Dispatch
      <3>3. QED
        BY <3>1, <3>2
    <2>5. QED
      BY <1>0, <2>1, <2>3, <2>4
  <1>8. QED
    BY <1>1, <1>2, <1>3, <1>4, <1>5, <1>6, <1>7, RequestCases DEF Ended

\* A row that becomes visible was a request's own: a publication that announced, or a post.
LEMMA NewRow ==
  ASSUME TypeOK, RowsOwn, PublicationsHold, [Next]_vars, NEW e \in log' \ log
  PROVE  \E r \in Requests : /\ e \in req[r].rows /\ e.letter = req[r].of
                             /\ (CommitPublish(r) /\ Announcing(r)) \/ CommitPost(r)
  <1>1. PICK r \in Requests : CommitPublish(r) \/ CommitPost(r)
    BY OnlyCommitsShow
  <1>2. e \in req[r].rows /\ req[r].op \in {"publish", "post"}
    BY <1>1 DEF CommitPublish, CommitPost
  <1>3. e.letter = req[r].of
    BY <1>2 DEF RowsOwn
  <1>4. CommitPublish(r) => Announcing(r)
    BY <1>2 DEF CommitPublish, PublicationsHold, LeftInAudience
  <1>5. QED
    BY <1>1, <1>2, <1>3, <1>4

LEMMA RecordedStep ==
  TypeOK /\ GoalsKeep /\ RowsOwn /\ PublicationsHold /\ HonestRows /\ RecordedIsDone /\ [Next]_vars
    => RecordedIsDone'
  <1> SUFFICES ASSUME TypeOK, GoalsKeep, RowsOwn, PublicationsHold, HonestRows, RecordedIsDone,
                      [Next]_vars
               PROVE  RecordedIsDone'
    OBVIOUS
  <1>0. log' \subseteq LogRow
    BY TypeStep DEF TypeOK, DispatchTypeOK
  <1>1. LogIsTruthful'
    <2> SUFFICES ASSUME NEW e \in log', e.status = "sent" PROVE inbox'[e.to][e.letter] > 0
      BY DEF LogIsTruthful
    <2>1. inbox[e.to][e.letter] > 0
      <3>1. CASE e \in log
        BY <3>1 DEF RecordedIsDone, LogIsTruthful
      <3>2. CASE e \notin log
        BY <3>2, NewRow DEF HonestRows, CommitPublish, CommitPost
      <3>3. QED
        BY <3>1, <3>2
    <2>2. QED
      BY <1>0, <2>1, InboxGrows DEF LogRow
  <1>2. ASSUME NEW e \in log', e.letter \in Activities PROVE Settled(e.letter)'
    <2>1. CASE e \in log
      BY <1>2, <2>1, SettledStays DEF RecordedIsDone
    <2>2. CASE e \notin log
      <3>1. PICK r \in Requests : /\ e \in req[r].rows /\ e.letter = req[r].of
                                  /\ (CommitPublish(r) /\ Announcing(r)) \/ CommitPost(r)
        BY <2>2, NewRow
      <3>2. ~CommitPost(r)
        <4>1. CommitPost(r) => req[r].of \in Announcements
          BY RequestKinds DEF CommitPost, PostRequest
        <4>2. QED
          BY <1>2, <3>1, <4>1, NoticesAssumption
      <3>3. QED
        BY <3>1, <3>2, CommitSettles
    <2>3. QED
      BY <2>1, <2>2
  <1>3. DeliveredPosted'
    <2> SUFFICES ASSUME NEW e \in log', e.letter \in Announcements PROVE board'[e.letter] # NotYet
      BY DEF DeliveredPosted
    <2>1. ASSUME NEW r \in Requests, CommitPost(r)
          PROVE  /\ board'[req[r].of] # NotYet /\ req[r].of \in Announcements
                 /\ \A n \in Announcements : board[n] # NotYet => board'[n] # NotYet
      <3>1. req[r] \in PostRequest
        BY <2>1, RequestKinds DEF CommitPost
      <3>2. req[r].of \in Announcements /\ req[r].goal \in Posting
        BY <3>1 DEF PostRequest
      <3>3. QED
        BY <2>1, <3>2, NoticesAssumption DEF CommitPost, TypeOK
    <2>2. \A n \in Announcements : board[n] # NotYet => board'[n] # NotYet
      <3>1. ASSUME NEW r \in Requests, CommitPublish(r) PROVE board' = board
        BY <3>1 DEF CommitPublish
      <3>2. QED
        BY <2>1, <3>1, OnlyCommitsShow
    <2>3. CASE e \in log
      BY <2>2, <2>3 DEF RecordedIsDone, DeliveredPosted
    <2>4. CASE e \notin log
      <3>1. PICK r \in Requests : /\ e \in req[r].rows /\ e.letter = req[r].of
                                  /\ (CommitPublish(r) /\ Announcing(r)) \/ CommitPost(r)
        BY <2>4, NewRow
      <3>2. ~CommitPublish(r)
        <4>1. CommitPublish(r) => req[r].of \in Activities
          BY RequestKinds DEF CommitPublish, ActivityRequest
        <4>2. QED
          BY <2>4, <3>1, <4>1, NoticesAssumption
      <3>3. QED
        BY <2>1, <3>1, <3>2
    <2>5. QED
      BY <2>3, <2>4
  <1>4. QED
    BY <1>1, <1>2, <1>3 DEF RecordedIsDone

\* The delivery log, which shares a transaction with what it is about (dispatcher.py), never
\* records a mail whose publication or post was lost: a member told of an activity in the log has
\* one that is announced, whatever overlaps, fails or is written back late. This is the converse
\* of AnnouncedMeansMailed.
THEOREM RecordedStaysDone == Spec => []RecordedIsDone
  <1>1. Init => GoalsKeep /\ RowsOwn /\ PublicationsHold /\ HonestRows /\ RecordedIsDone
    BY DEF Init, DispatchInit, GoalsKeep, RowsOwn, PublicationsHold, HonestRows, RecordedIsDone,
           LogIsTruthful, DeliveredPosted, Idle
  <1>2. Spec => [](GoalsKeep /\ RowsOwn /\ PublicationsHold /\ HonestRows)
    BY <1>1, GoalsKeepStep, RowsOwnStep, PublicationsStep, HonestStep, TypeCorrect, PTL DEF Spec
  <1>3. QED
    BY <1>1, <1>2, RecordedStep, TypeCorrect, PTL DEF Spec
=============================================================================
