--------------------------- MODULE SessionsProofs ---------------------------
(***************************************************************************)
(* Safety of Sessions for every number of requests, accounts and sessions. *)
(***************************************************************************)
EXTENDS Sessions, TLAPS, FiniteSetTheorems

\* The session table, and what the requests in flight remember of it.
RequestKnows(r) ==
  /\ request[r].op = "sign_in" =>
       request[r].user \in Accounts /\ request[r].born \in 0..MaxEnds
  /\ request[r].op = "refresh" => request[r].session \in Opened /\ request[r].seen \in 0..MaxEnds
  /\ request[r].op = "sign_out" => request[r].token \in Opened
  /\ request[r].op \in {"end", "ended"} => request[r].user \in Accounts
  /\ request[r].op = "ended" => request[r].rows \subseteq Opened

Safe ==
  /\ session \in [SessionIds -> SessionRow \cup {NoRow}]
  /\ ends \in [Accounts -> 0..MaxEnds]
  /\ request = [r \in Requests |-> request[r]]
  /\ \A r \in Requests : RequestKnows(r)

\* What one step does to the table: nothing, a sign-in, a rotation, a revocation, or
\* the passing of time.
SignedIn(u, born, raced, n) ==
  Free(n) /\ session' = [session EXCEPT ![n] = NewRow(u, None, n, born, raced)]
Replaced(s, raced, n) == Free(n) /\ s \in Opened /\ session' = Rotated(s, n, raced)
Ended(S) == S \subseteq Opened /\ session' = Revoked(S)

\* The table after a rotation.
RotatedTable(s, raced, n) ==
  /\ n \in SessionIds /\ n \notin Opened /\ s \in Opened /\ s # n
  /\ Opened' = Opened \cup {n}
  /\ session'[n] = NewRow(session[s].user, s, session[s].signIn, session[s].born, raced)
  /\ session'[s] = [session[s] EXCEPT !.revoked = TRUE, !.rotatedTo = n]
  /\ \A t \in SessionIds \ {s, n} : session'[t] = session[t]
  /\ session' \in [SessionIds -> SessionRow \cup {NoRow}]

-----------------------------------------------------------------------------
LEMMA OpenedRow ==
  ASSUME Safe, NEW s \in Opened
  PROVE  s \in SessionIds /\ session[s] \in SessionRow /\ session[s].user \in Accounts
  BY DEF Safe, Opened, SessionRow

LEMMA SignedInTable ==
  ASSUME Safe, NEW u \in Accounts, NEW born \in 0..MaxEnds, NEW raced \in BOOLEAN, NEW n,
         SignedIn(u, born, raced, n)
  PROVE  /\ n \in SessionIds /\ n \notin Opened /\ Opened' = Opened \cup {n}
         /\ session'[n] = NewRow(u, None, n, born, raced)
         /\ \A s \in SessionIds \ {n} : session'[s] = session[s]
         /\ session' \in [SessionIds -> SessionRow \cup {NoRow}]
  <1>1. n \in SessionIds /\ n \notin Opened
    BY DEF SignedIn, Free
  <1>2. NewRow(u, None, n, born, raced) \in SessionRow
    BY <1>1 DEF NewRow, SessionRow, None
  <1>3. QED
    BY <1>1, <1>2, NoSessionAssumption DEF SignedIn, Safe, Opened

LEMMA ReplacedTable ==
  ASSUME Safe, NEW s, NEW raced \in BOOLEAN, NEW n, Replaced(s, raced, n)
  PROVE  RotatedTable(s, raced, n)
  <1>1. n \in SessionIds /\ n \notin Opened /\ s \in Opened /\ s # n
    BY DEF Replaced, Free
  <1>2. s \in SessionIds /\ session[s] \in SessionRow
    BY <1>1, OpenedRow
  <1> DEFINE new == NewRow(session[s].user, s, session[s].signIn, session[s].born, raced)
             old == [session[s] EXCEPT !.revoked = TRUE, !.rotatedTo = n]
  <1>3. new \in SessionRow
    BY <1>2 DEF NewRow, SessionRow
  <1>4. old \in SessionRow
    BY <1>1, <1>2 DEF SessionRow
  <1>5. session'[n] = new /\ session'[s] = old /\ \A t \in SessionIds \ {s, n} : session'[t] = session[t]
    BY <1>1, <1>2 DEF Replaced, Rotated, Safe
  <1>6. session' \in [SessionIds -> SessionRow \cup {NoRow}]
    <2>1. session' = [t \in SessionIds |-> session'[t]]
      BY DEF Replaced, Rotated, Safe
    <2>2. \A t \in SessionIds : session'[t] \in SessionRow \cup {NoRow}
      BY <1>3, <1>4, <1>5 DEF Safe
    <2>3. QED
      BY <2>1, <2>2
  <1>7. Opened' = Opened \cup {n}
    BY <1>1, <1>2, <1>3, <1>4, <1>5, NoSessionAssumption DEF Opened
  <1>8. QED
    BY <1>1, <1>5, <1>6, <1>7 DEF RotatedTable

LEMMA EndedTable ==
  ASSUME Safe, NEW S, Ended(S)
  PROVE  /\ S \subseteq Opened /\ Opened' = Opened
         /\ \A s \in S : session'[s] = [session[s] EXCEPT !.revoked = TRUE]
         /\ \A s \in SessionIds \ S : session'[s] = session[s]
         /\ session' \in [SessionIds -> SessionRow \cup {NoRow}]
  <1>1. S \subseteq Opened /\ \A s \in S : s \in SessionIds /\ session[s] \in SessionRow
    BY OpenedRow DEF Ended
  <1>2. /\ \A s \in S : session'[s] = [session[s] EXCEPT !.revoked = TRUE]
        /\ \A s \in SessionIds \ S : session'[s] = session[s]
    BY <1>1 DEF Ended, Revoked
  <1>3. \A s \in S : session'[s] \in SessionRow
    <2>1. SUFFICES ASSUME NEW s \in S PROVE [session[s] EXCEPT !.revoked = TRUE] \in SessionRow
      BY <1>2
    <2>2. QED
      BY <1>1 DEF SessionRow
  <1>4. session' \in [SessionIds -> SessionRow \cup {NoRow}]
    <2>1. session' = [s \in SessionIds |-> session'[s]]
      BY DEF Ended, Revoked
    <2>2. \A s \in SessionIds : session'[s] \in SessionRow \cup {NoRow}
      BY <1>2, <1>3 DEF Safe
    <2>3. QED
      BY <2>1, <2>2
  <1>5. Opened' = Opened
    BY <1>1, <1>2, <1>3, NoSessionAssumption DEF Opened
  <1>6. QED
    BY <1>1, <1>2, <1>4, <1>5

LEMMA ExpiredTable ==
  ASSUME Safe, NEW s, SessionExpires(s)
  PROVE  /\ s \in Opened /\ Opened' = Opened
         /\ session'[s] = [session[s] EXCEPT !.expired = TRUE]
         /\ \A t \in SessionIds \ {s} : session'[t] = session[t]
         /\ session' \in [SessionIds -> SessionRow \cup {NoRow}]
  <1>1. s \in Opened /\ s \in SessionIds /\ session[s] \in SessionRow
    BY OpenedRow DEF SessionExpires
  <1>2. [session[s] EXCEPT !.expired = TRUE] \in SessionRow
    BY <1>1 DEF SessionRow
  <1>3. QED
    BY <1>1, <1>2, NoSessionAssumption DEF SessionExpires, Safe, Opened

\* The steps that write the table, and those that only read it.
LEMMA TableWrites ==
  ASSUME Safe, Next \/ UNCHANGED vars
  PROVE  \/ UNCHANGED session
         \/ \E u \in Accounts, born \in 0..MaxEnds, raced \in BOOLEAN, n \in SessionIds :
              SignedIn(u, born, raced, n)
         \/ \E r \in Requests : RefreshCommit(r)
         \/ \E S \in SUBSET Opened : Ended(S)
         \/ \E s \in Opened : SessionExpires(s)
  <1>1. CASE CodeStep \/ UNCHANGED vars
    BY <1>1 DEF CodeStep, vars, sessionVars
  <1>2. CASE \E r \in Requests : SignInCommit(r)
    <2>1. PICK r \in Requests : SignInCommit(r)
      BY <1>2
    <2>2. request[r].user \in Accounts /\ request[r].born \in 0..MaxEnds
      BY <2>1 DEF SignInCommit, Safe, RequestKnows
    <2>3. (request[r].born # ends[request[r].user] \/ Ending(request[r].user)) \in BOOLEAN
      OBVIOUS
    <2>4. QED
      BY <2>1, <2>2, <2>3 DEF SignInCommit, SignedIn
  <1>3. CASE \E r \in Requests : SignOutCommit(r)
    <2>1. PICK r \in Requests : SignOutCommit(r)
      BY <1>3
    <2>2. request[r].token \in Opened
      BY <2>1 DEF SignOutCommit, Safe, RequestKnows
    <2>3. {request[r].token} \in SUBSET Opened /\ Ended({request[r].token})
      BY <2>1, <2>2 DEF SignOutCommit, Ended
    <2>4. QED
      BY <2>3
  <1>4. CASE \E r \in Requests : EndCommit(r)
    <2>1. PICK r \in Requests : EndCommit(r)
      BY <1>4
    <2>2. request[r].rows \subseteq Opened
      BY <2>1 DEF EndCommit, Safe, RequestKnows
    <2>3. Ended(request[r].rows)
      BY <2>1, <2>2 DEF EndCommit, Ended
    <2>4. QED
      BY <2>2, <2>3
  <1>5. CASE \E r \in Requests : RevokeAll(r)
    BY <1>5 DEF RevokeAll, sessionVars
  <1>6. CASE \E r \in Requests, u \in Accounts : SignInRead(r, u) \/ ResetRead(r, u)
    BY <1>6 DEF SignInRead, ResetRead, sessionVars
  <1>7. CASE \E r \in Requests, s \in SessionIds : RefreshRead(r, s) \/ ChangeRead(r, s)
               \/ \E t \in SessionIds \cup {All} : SignOutRead(r, s, t)
    BY <1>7 DEF RefreshRead, ChangeRead, SignOutRead, sessionVars
  <1>8. CASE (\E u \in Accounts : SignInWrong(u) \/ Bar(u)) \/ (\E s \in SessionIds : RefreshReplayed(s))
    BY <1>8 DEF SignInWrong, Bar, RefreshReplayed
  <1>9. CASE \E s \in SessionIds : SessionExpires(s)
    BY <1>9 DEF SessionExpires
  <1>10. QED
    BY <1>1, <1>2, <1>3, <1>4, <1>5, <1>6, <1>7, <1>8, <1>9 DEF Next

\* A rotation, and what its row remembers of the requests it overlapped.
Raced(r) ==
  \/ session[request[r].session].raced
  \/ request[r].seen # ends[session[request[r].session].user]
  \/ Ending(session[request[r].session].user)

LEMMA RefreshReplaces ==
  ASSUME Safe, NEW r \in Requests, RefreshCommit(r)
  PROVE  /\ request[r].session \in Opened /\ Raced(r) \in BOOLEAN
         /\ \E n \in SessionIds : Replaced(request[r].session, Raced(r), n)
  <1>1. request[r].session \in Opened
    BY DEF RefreshCommit, Safe, RequestKnows
  <1>2. Raced(r) \in BOOLEAN
    BY DEF Raced
  <1>3. QED
    BY <1>1, <1>2 DEF RefreshCommit, Replaced, Raced

LEMMA TableStep ==
  ASSUME Safe, Next \/ UNCHANGED vars
  PROVE  \/ UNCHANGED session
         \/ \E u \in Accounts, born \in 0..MaxEnds, raced \in BOOLEAN, n \in SessionIds :
              SignedIn(u, born, raced, n)
         \/ \E s \in Opened, raced \in BOOLEAN, n \in SessionIds : Replaced(s, raced, n)
         \/ \E S \in SUBSET Opened : Ended(S)
         \/ \E s \in Opened : SessionExpires(s)
  BY TableWrites, RefreshReplaces

LEMMA TableTypes ==
  ASSUME Safe, Next \/ UNCHANGED vars
  PROVE  Opened \subseteq Opened' /\ session' \in [SessionIds -> SessionRow \cup {NoRow}]
  <1>1. CASE UNCHANGED session
    BY <1>1 DEF Safe, Opened
  <1>2. CASE \E u \in Accounts, born \in 0..MaxEnds, raced \in BOOLEAN, n \in SessionIds :
              SignedIn(u, born, raced, n)
    BY <1>2, SignedInTable
  <1>3. CASE \E s \in Opened, raced \in BOOLEAN, n \in SessionIds : Replaced(s, raced, n)
    BY <1>3, ReplacedTable DEF RotatedTable
  <1>4. CASE \E S \in SUBSET Opened : Ended(S)
    BY <1>4, EndedTable
  <1>5. CASE \E s \in Opened : SessionExpires(s)
    BY <1>5, ExpiredTable
  <1>6. QED
    BY <1>1, <1>2, <1>3, <1>4, <1>5, TableStep

LEMMA Proceeds ==
  ASSUME Safe, NEW r \in Requests, NEW step, Proceed(r, step)
  PROVE  /\ request' = [q \in Requests |-> request'[q]]
         /\ request'[r] = step
         /\ \A q \in Requests \ {r} : request'[q] = request[q]
  BY DEF Safe, Proceed

\* What a step leaves of the requests: each is as it was, or idle, or about to issue a
\* code, or has just read what it will write, or has revoked every session.
LEMMA RequestStep ==
  ASSUME Safe, Next \/ UNCHANGED vars
  PROVE  /\ request' = [q \in Requests |-> request'[q]]
         /\ \A r \in Requests :
              \/ request'[r] = request[r]
              \/ request'[r].op \in {"idle", "issue", "invalidated"}
              \/ \E u \in Accounts : SignInRead(r, u) \/ ResetRead(r, u)
              \/ \E s \in SessionIds : RefreshRead(r, s) \/ ChangeRead(r, s)
              \/ \E s \in SessionIds, t \in SessionIds \cup {All} : SignOutRead(r, s, t)
              \/ RevokeAll(r)
  <1>1. CASE UNCHANGED request
    BY <1>1 DEF Safe
  <1>2. ASSUME NEW r \in Requests, NEW step, Proceed(r, step),
               \/ step.op \in {"idle", "issue", "invalidated"}
               \/ \E u \in Accounts : SignInRead(r, u) \/ ResetRead(r, u)
               \/ \E s \in SessionIds : RefreshRead(r, s) \/ ChangeRead(r, s)
               \/ \E s \in SessionIds, t \in SessionIds \cup {All} : SignOutRead(r, s, t)
               \/ RevokeAll(r)
        PROVE  /\ request' = [q \in Requests |-> request'[q]]
               /\ \A q \in Requests :
                    \/ request'[q] = request[q]
                    \/ request'[q].op \in {"idle", "issue", "invalidated"}
                    \/ \E u \in Accounts : SignInRead(q, u) \/ ResetRead(q, u)
                    \/ \E s \in SessionIds : RefreshRead(q, s) \/ ChangeRead(q, s)
                    \/ \E s \in SessionIds, t \in SessionIds \cup {All} : SignOutRead(q, s, t)
                    \/ RevokeAll(q)
    <2>1. /\ request' = [q \in Requests |-> request'[q]] /\ request'[r] = step
          /\ \A q \in Requests \ {r} : request'[q] = request[q]
      BY <1>2, Proceeds
    <2>2. SUFFICES ASSUME NEW q \in Requests, request'[q] # request[q]
                   PROVE  \/ request'[q].op \in {"idle", "issue", "invalidated"}
                          \/ \E u \in Accounts : SignInRead(q, u) \/ ResetRead(q, u)
                          \/ \E s \in SessionIds : RefreshRead(q, s) \/ ChangeRead(q, s)
                          \/ \E s \in SessionIds, t \in SessionIds \cup {All} : SignOutRead(q, s, t)
                          \/ RevokeAll(q)
      BY <2>1
    <2>3. q = r
      BY <2>1, <2>2
    <2>4. QED
      BY <1>2, <2>1, <2>3
  <1>3. CASE \E r \in Requests : \/ SignInCommit(r) \/ RefreshCommit(r) \/ SignOutCommit(r)
                               \/ EndCommit(r) \/ Abort(r) \/ IssueCommit(r)
    <2>1. PICK r \in Requests : Proceed(r, Idle)
      BY <1>3 DEF SignInCommit, RefreshCommit, SignOutCommit, EndCommit, Abort, IssueCommit
    <2>2. Idle.op = "idle"
      BY DEF Idle
    <2>3. QED
      BY <1>2, <2>1, <2>2
  <1>4. CASE \E r \in Requests : IssueInvalidate(r) \/ \E u \in Accounts : IssueRead(r, u, Reset)
    <2>1. PICK r \in Requests : \E step : Proceed(r, step) /\ step.op \in {"issue", "invalidated"}
      <3>1. PICK r \in Requests : IssueInvalidate(r) \/ \E u \in Accounts : IssueRead(r, u, Reset)
        BY <1>4
      <3>2. CASE IssueInvalidate(r)
        BY <3>2 DEF IssueInvalidate
      <3>3. CASE \E u \in Accounts : IssueRead(r, u, Reset)
        BY <3>3 DEF IssueRead
      <3>4. QED
        BY <3>1, <3>2, <3>3
    <2>2. QED
      BY <1>2, <2>1
  <1>5. CASE \E r \in Requests, u \in Accounts : SignInRead(r, u) \/ ResetRead(r, u)
    <2>1. PICK r \in Requests, u \in Accounts : SignInRead(r, u) \/ ResetRead(r, u)
      BY <1>5
    <2>2. \E step : Proceed(r, step)
      BY <2>1 DEF SignInRead, ResetRead
    <2>3. QED
      BY <1>2, <2>1, <2>2
  <1>6. CASE \E r \in Requests, s \in SessionIds : RefreshRead(r, s) \/ ChangeRead(r, s)
    <2>1. PICK r \in Requests, s \in SessionIds : RefreshRead(r, s) \/ ChangeRead(r, s)
      BY <1>6
    <2>2. \E step : Proceed(r, step)
      BY <2>1 DEF RefreshRead, ChangeRead
    <2>3. QED
      BY <1>2, <2>1, <2>2
  <1>7. CASE \E r \in Requests, s \in SessionIds, t \in SessionIds \cup {All} : SignOutRead(r, s, t)
    <2>1. PICK r \in Requests, s \in SessionIds, t \in SessionIds \cup {All} : SignOutRead(r, s, t)
      BY <1>7
    <2>2. \E step : Proceed(r, step)
      BY <2>1 DEF SignOutRead
    <2>3. QED
      BY <1>2, <2>1, <2>2
  <1>8. CASE \/ UNCHANGED vars
             \/ \E u \in Accounts : RedeemWrong(u, Reset) \/ SignInWrong(u) \/ Bar(u)
             \/ \E c \in Codes : CodeAges(c)
             \/ \E s \in SessionIds : RefreshReplayed(s) \/ SessionExpires(s)
    <2>1. UNCHANGED request
      BY <1>8 DEF vars, codeVars, RedeemWrong, SignInWrong, Bar, CodeAges, RefreshReplayed, SessionExpires
    <2>2. QED
      BY <1>1, <2>1
  <1>9. CASE \E r \in Requests : RevokeAll(r)
    <2>1. PICK r \in Requests : RevokeAll(r)
      BY <1>9
    <2>2. \E step : Proceed(r, step)
      BY <2>1 DEF RevokeAll
    <2>3. QED
      BY <1>2, <2>1, <2>2
  <1>10. QED
    BY <1>3, <1>4, <1>5, <1>6, <1>7, <1>8, <1>9 DEF Next, CodeStep

LEMMA EndsType ==
  ASSUME Safe, Next \/ UNCHANGED vars
  PROVE  ends' \in [Accounts -> 0..MaxEnds]
  <1>1. CASE UNCHANGED ends
    BY <1>1 DEF Safe
  <1>2. CASE \E r \in Requests : EndCommit(r)
    <2>1. PICK r \in Requests : EndCommit(r)
      BY <1>2
    <2> DEFINE u == request[r].user
    <2>2. u \in Accounts /\ EndsLeft(u) /\ ends' = [ends EXCEPT ![u] = @ + 1]
      BY <2>1 DEF EndCommit, Safe, RequestKnows
    <2>3. ends[u] + 1 \in 0..MaxEnds
      BY <2>2, SessionsAssumption DEF EndsLeft, Safe
    <2>4. QED
      BY <2>2, <2>3 DEF Safe
  <1>3. QED
    BY <1>1, <1>2 DEF Next, CodeStep, vars, sessionVars, historyVars, SignInCommit, RefreshCommit, SignOutCommit,
       SignInRead, ResetRead, RefreshRead, ChangeRead, SignOutRead, RevokeAll, SignInWrong, Bar, RefreshReplayed,
       SessionExpires

LEMMA SafeStep == Safe /\ [Next]_vars => Safe'
  <1> SUFFICES ASSUME Safe, Next \/ UNCHANGED vars, NEW r \in Requests
               PROVE  RequestKnows(r)'
    BY TableTypes, RequestStep, EndsType DEF Safe
  <1>1. Opened \subseteq Opened'
    BY TableTypes
  <1>2. CASE request'[r] = request[r]
    <2>1. RequestKnows(r)
      BY DEF Safe
    <2>2. QED
      BY <1>1, <1>2, <2>1 DEF RequestKnows
  <1>3. CASE request'[r].op \in {"idle", "issue", "invalidated"}
    BY <1>3 DEF RequestKnows
  <1>4. ASSUME NEW u \in Accounts, SignInRead(r, u) PROVE RequestKnows(r)'
    <2>1. request'[r] = [op |-> "sign_in", user |-> u, born |-> ends[u]]
      BY <1>4 DEF SignInRead, Proceed, Safe
    <2>2. ends[u] \in 0..MaxEnds
      BY DEF Safe
    <2>3. QED
      BY <2>1, <2>2 DEF RequestKnows
  <1>5. ASSUME NEW u \in Accounts, ResetRead(r, u) PROVE RequestKnows(r)'
    <2>1. PICK c \in Codes : request'[r] = [op |-> "end", user |-> u, code |-> c]
      BY <1>5 DEF ResetRead, Proceed, Safe
    <2>2. QED
      BY <2>1 DEF RequestKnows
  <1>6. ASSUME NEW s \in SessionIds, RefreshRead(r, s) PROVE RequestKnows(r)'
    <2>1. request'[r] = [op |-> "refresh", session |-> s, seen |-> ends[session[s].user]] /\ s \in Opened
      BY <1>6 DEF RefreshRead, Proceed, Safe
    <2>2. ends[session[s].user] \in 0..MaxEnds
      BY <2>1, OpenedRow DEF Safe
    <2>3. QED
      BY <1>1, <2>1, <2>2 DEF RequestKnows
  <1>7. ASSUME NEW s \in SessionIds, ChangeRead(r, s) PROVE RequestKnows(r)'
    <2>1. request'[r] = [op |-> "end", user |-> session[s].user, code |-> None] /\ s \in Opened
      BY <1>7 DEF ChangeRead, Proceed, Safe
    <2>2. QED
      BY <2>1, OpenedRow DEF RequestKnows
  <1>8. ASSUME NEW s \in SessionIds, NEW t \in SessionIds \cup {All}, SignOutRead(r, s, t)
        PROVE  RequestKnows(r)'
    <2>1. /\ s \in Opened
          /\ \/ t \in SessionsOf(session[s].user) /\ request'[r] = [op |-> "sign_out", token |-> t]
             \/ request'[r] = [op |-> "end", user |-> session[s].user, code |-> None]
      BY <1>8 DEF SignOutRead, Proceed, Safe
    <2>2. t \in SessionsOf(session[s].user) => t \in Opened
      BY DEF SessionsOf
    <2>3. QED
      BY <1>1, <2>1, <2>2, OpenedRow DEF RequestKnows
  <1>9. CASE RevokeAll(r)
    <2>1. /\ request[r].op = "end"
          /\ request'[r] = [op |-> "ended", user |-> request[r].user, code |-> request[r].code,
                            rows |-> RevokedRows(request[r].user)]
      BY <1>9 DEF RevokeAll, Proceed, Safe
    <2>2. request[r].user \in Accounts /\ RevokedRows(request[r].user) \subseteq Opened
      BY <2>1 DEF Safe, RequestKnows, RevokedRows, SessionsOf
    <2>3. QED
      BY <1>1, <2>1, <2>2 DEF RequestKnows
  <1>10. QED
    BY <1>2, <1>3, <1>4, <1>5, <1>6, <1>7, <1>8, <1>9, RequestStep

LEMMA SafeInit == Init => Safe
  BY SessionsAssumption DEF Init, CodeInit, Safe, RequestKnows, Idle

-----------------------------------------------------------------------------
(***************************************************************************)
(* Revoked rows stay revoked.                                              *)
(***************************************************************************)
LEMMA RevokedStays ==
  Safe /\ [Next]_vars =>
    \A s \in Opened : session[s].revoked => session'[s] # NoRow /\ session'[s].revoked
  <1> SUFFICES ASSUME Safe, Next \/ UNCHANGED vars, NEW s \in Opened, session[s].revoked
               PROVE  session'[s] # NoRow /\ session'[s].revoked
    OBVIOUS
  <1>1. s \in SessionIds /\ session[s] \in SessionRow
    BY OpenedRow
  <1>2. s \in Opened'
    BY TableTypes
  <1>3. session'[s] # NoRow
    BY <1>2 DEF Opened
  <1>4. CASE UNCHANGED session
    BY <1>3, <1>4
  <1>5. CASE \E u \in Accounts, born \in 0..MaxEnds, raced \in BOOLEAN, n \in SessionIds :
              SignedIn(u, born, raced, n)
    <2>1. session'[s] = session[s]
      BY <1>1, <1>5, SignedInTable
    <2>2. QED
      BY <1>3, <2>1
  <1>6. CASE \E t \in Opened, raced \in BOOLEAN, n \in SessionIds : Replaced(t, raced, n)
    <2>1. \/ session'[s] = session[s]
          \/ \E n : session'[s] = [session[s] EXCEPT !.revoked = TRUE, !.rotatedTo = n]
      BY <1>1, <1>6, ReplacedTable DEF RotatedTable
    <2>2. QED
      BY <1>1, <1>3, <2>1 DEF SessionRow
  <1>7. CASE \E S \in SUBSET Opened : Ended(S)
    <2>1. session'[s] = session[s] \/ session'[s] = [session[s] EXCEPT !.revoked = TRUE]
      BY <1>1, <1>7, EndedTable
    <2>2. QED
      BY <1>1, <1>3, <2>1 DEF SessionRow
  <1>8. CASE \E t \in Opened : SessionExpires(t)
    <2>1. session'[s] = session[s] \/ session'[s] = [session[s] EXCEPT !.expired = TRUE]
      BY <1>1, <1>8, ExpiredTable
    <2>2. QED
      BY <1>1, <1>3, <2>1 DEF SessionRow
  <1>9. QED
    BY <1>4, <1>5, <1>6, <1>7, <1>8, TableStep

\* Nothing brings a revoked session back.
THEOREM RevokedForeverHolds == Spec => RevokedForever
  <1>1. Safe /\ [Next]_vars =>
          [\A s \in Opened : session[s].revoked => session'[s] # NoRow /\ session'[s].revoked]_vars
    BY RevokedStays
  <1>2. QED
    BY <1>1, SafeInit, SafeStep, PTL DEF Spec, RevokedForever

-----------------------------------------------------------------------------
(***************************************************************************)
(* Replacements.                                                           *)
(***************************************************************************)
LEMMA FollowStep == Safe /\ ReplacementsFollow /\ [Next]_vars => ReplacementsFollow'
  <1> SUFFICES ASSUME Safe, ReplacementsFollow, Next \/ UNCHANGED vars PROVE ReplacementsFollow'
    OBVIOUS
  <1> DEFINE P(n) == IF session[n].parent = None THEN session[n].signIn = n
                     ELSE /\ session[n].parent \in Opened
                          /\ session[session[n].parent].revoked
                          /\ session[session[n].parent].rotatedTo \in Opened
                          /\ session[session[session[n].parent].rotatedTo].parent = session[n].parent
                          /\ session[session[n].parent].user = session[n].user
                          /\ session[session[n].parent].signIn = session[n].signIn
  <1>1. \A n \in Opened : P(n)
    BY DEF ReplacementsFollow, Replacements
  <1>2. (\A n \in Opened' : P(n)') => ReplacementsFollow'
    BY DEF ReplacementsFollow, Replacements
  <1>3. \A n \in Opened : n \in SessionIds /\ session[n] \in SessionRow
    BY OpenedRow
  <1>4. ASSUME Opened' = Opened,
               \A n \in Opened : /\ session'[n].user = session[n].user
                                  /\ session'[n].parent = session[n].parent
                                  /\ session'[n].signIn = session[n].signIn
                                  /\ session'[n].rotatedTo = session[n].rotatedTo
        PROVE  \A n \in Opened' : P(n)'
    <2>1. \A n \in Opened : session[n].revoked => session'[n].revoked
      BY RevokedStays
    <2>2. SUFFICES ASSUME NEW n \in Opened PROVE P(n)'
      BY <1>4
    <2>3. CASE session[n].parent = None
      BY <1>1, <1>4, <2>3
    <2>4. CASE session[n].parent # None
      <3> DEFINE s == session[n].parent
      <3>1. /\ s \in Opened /\ session[s].revoked /\ session[s].rotatedTo \in Opened
            /\ session[session[s].rotatedTo].parent = s
            /\ session[s].user = session[n].user /\ session[s].signIn = session[n].signIn
        BY <1>1, <2>4
      <3>2. session'[s].revoked
        BY <2>1, <3>1
      <3>3. QED
        BY <1>4, <2>4, <3>1, <3>2
    <2>5. QED
      BY <2>3, <2>4
  <1>5. CASE UNCHANGED session
    BY <1>4, <1>2, <1>5 DEF Opened
  <1>6. CASE \E u \in Accounts, born \in 0..MaxEnds, raced \in BOOLEAN, n \in SessionIds :
              SignedIn(u, born, raced, n)
    <2>1. PICK u \in Accounts, born \in 0..MaxEnds, raced \in BOOLEAN, n \in SessionIds :
            SignedIn(u, born, raced, n)
      BY <1>6
    <2>2. /\ n \notin Opened /\ Opened' = Opened \cup {n}
          /\ session'[n] = NewRow(u, None, n, born, raced)
          /\ \A s \in SessionIds \ {n} : session'[s] = session[s]
      BY <2>1, SignedInTable
    <2>3. P(n)'
      BY <2>2 DEF NewRow
    <2>4. ASSUME NEW m \in Opened PROVE P(m)'
      BY <1>1, <1>3, <2>2
    <2>5. QED
      BY <1>2, <2>2, <2>3, <2>4
  <1>7. CASE \E s \in Opened, raced \in BOOLEAN, n \in SessionIds : Replaced(s, raced, n)
    <2>1. PICK s \in Opened, raced \in BOOLEAN, n \in SessionIds : Replaced(s, raced, n)
      BY <1>7
    <2>2. /\ n \notin Opened /\ s # n /\ Opened' = Opened \cup {n}
          /\ session'[n] = NewRow(session[s].user, s, session[s].signIn, session[s].born, raced)
          /\ session'[s] = [session[s] EXCEPT !.revoked = TRUE, !.rotatedTo = n]
          /\ \A t \in SessionIds \ {s, n} : session'[t] = session[t]
      <3>1. RotatedTable(s, raced, n)
        BY <2>1, ReplacedTable
      <3>2. QED
        BY <3>1 DEF RotatedTable
    <2>3. /\ session'[s].revoked /\ session'[s].rotatedTo = n
          /\ session'[s].user = session[s].user /\ session'[s].parent = session[s].parent
          /\ session'[s].signIn = session[s].signIn
      BY <1>3, <2>2 DEF SessionRow
    <2>4. /\ session'[n].parent = s /\ session'[n].user = session[s].user
          /\ session'[n].signIn = session[s].signIn
      BY <2>2 DEF NewRow
    <2>5. s # None
      BY <1>3, SessionsAssumption DEF SessionIds, None
    <2>6. P(n)'
      BY <2>2, <2>3, <2>4, <2>5
    <2>7. ASSUME NEW m \in Opened PROVE P(m)'
      <3>1. /\ session'[m].parent = session[m].parent /\ session'[m].user = session[m].user
            /\ session'[m].signIn = session[m].signIn /\ m # n
        BY <1>3, <2>2, <2>3
      <3>2. CASE session[m].parent = None
        BY <1>1, <3>1, <3>2
      <3>3. CASE session[m].parent = s
        <4>1. session[s].user = session[m].user /\ session[s].signIn = session[m].signIn
          BY <1>1, <2>5, <3>3
        <4>2. session'[m].parent = s /\ s \in Opened' /\ n \in Opened'
          BY <2>2, <3>1, <3>3
        <4>3. QED
          BY <2>3, <2>4, <2>5, <3>1, <4>1, <4>2
      <3>4. CASE session[m].parent # None /\ session[m].parent # s
        <4> DEFINE t == session[m].parent
        <4>1. /\ t \in Opened /\ session[t].revoked /\ session[t].rotatedTo \in Opened
              /\ session[session[t].rotatedTo].parent = t
              /\ session[t].user = session[m].user /\ session[t].signIn = session[m].signIn
          BY <1>1, <3>4
        <4>2. session'[t] = session[t]
          BY <1>3, <2>2, <3>4, <4>1
        <4>3. session'[session[t].rotatedTo].parent = t
          BY <1>3, <2>2, <2>3, <4>1
        <4>4. QED
          BY <2>2, <3>1, <3>4, <4>1, <4>2, <4>3
      <3>5. QED
        BY <3>2, <3>3, <3>4
    <2>8. QED
      BY <1>2, <2>2, <2>6, <2>7
  <1>8. CASE \E S \in SUBSET Opened : Ended(S)
    <2>1. PICK S \in SUBSET Opened : Ended(S)
      BY <1>8
    <2>2. \A n \in Opened : session'[n] = session[n] \/ session'[n] = [session[n] EXCEPT !.revoked = TRUE]
      BY <1>3, <2>1, EndedTable
    <2>3. Opened' = Opened
      BY <2>1, EndedTable
    <2>4. QED
      BY <1>2, <1>3, <1>4, <2>2, <2>3 DEF SessionRow
  <1>9. CASE \E s \in Opened : SessionExpires(s)
    <2>1. PICK s \in Opened : SessionExpires(s)
      BY <1>9
    <2>2. /\ Opened' = Opened
          /\ \A n \in Opened : session'[n] = session[n] \/ session'[n] = [session[n] EXCEPT !.expired = TRUE]
      BY <1>3, <2>1, ExpiredTable
    <2>3. QED
      BY <1>2, <1>3, <1>4, <2>2 DEF SessionRow
  <1>10. QED
    BY <1>5, <1>6, <1>7, <1>8, <1>9, TableStep

LEMMA FollowInit == Init => ReplacementsFollow
  BY DEF Init, ReplacementsFollow, Opened

\* A replacement keeps the account and the sign-in, and what it replaces stays
\* revoked and points to a replacement, however overlapping requests write the row.
THEOREM ReplacementsFollowHolds == Spec => []ReplacementsFollow
  BY SafeInit, SafeStep, FollowInit, FollowStep, PTL DEF Spec

-----------------------------------------------------------------------------
(***************************************************************************)
(* Exchanges of one token.                                                 *)
(***************************************************************************)
\* Exchanges of s, made or about to be made; none begins once one is committed.
RotationsCounted ==
  \A s \in SessionIds :
    Cardinality(Replacements(s)) + Cardinality(Refreshing(s)) <= Cardinality(Requests)

LEMMA RotationSets ==
  ASSUME NEW s
  PROVE  /\ IsFiniteSet(Replacements(s)) /\ Cardinality(Replacements(s)) \in Nat
         /\ IsFiniteSet(Refreshing(s)) /\ Cardinality(Refreshing(s)) \in Nat
         /\ Cardinality(Refreshing(s)) <= Cardinality(Requests)
         /\ Cardinality(Requests) \in Nat
  <1>1. Replacements(s) \in SUBSET SessionIds /\ Refreshing(s) \in SUBSET Requests
    BY DEF Replacements, Opened, Refreshing
  <1>2. IsFiniteSet(SessionIds)
    BY FS_Interval, SessionsAssumption DEF SessionIds
  <1>3. QED
    BY <1>1, <1>2, FS_Subset, FS_CardinalityType, CodesAssumption

\* Only RefreshRead makes a request one that exchanges s, and it found s active.
LEMMA RefreshingStep ==
  ASSUME Safe, Next \/ UNCHANGED vars, NEW s \in SessionIds
  PROVE  Refreshing(s)' \subseteq Refreshing(s) \/ (s \in Opened /\ ~session[s].revoked /\ session' = session)
  <1> SUFFICES ASSUME NEW r \in Refreshing(s)', r \notin Refreshing(s)
               PROVE  s \in Opened /\ ~session[s].revoked /\ session' = session
    OBVIOUS
  <1>1. r \in Requests /\ request'[r].op = "refresh" /\ request'[r].session = s
    BY DEF Refreshing
  <1>2. request'[r] # request[r]
    BY <1>1 DEF Refreshing
  <1>3. ASSUME NEW u \in Accounts, SignInRead(r, u) \/ ResetRead(r, u) PROVE FALSE
    <2>1. request'[r].op = "sign_in" \/ request'[r].op = "end"
      BY <1>1, <1>3 DEF SignInRead, ResetRead, Proceed, Safe
    <2>2. QED
      BY <1>1, <2>1
  <1>4. ASSUME NEW t \in SessionIds, ChangeRead(r, t) PROVE FALSE
    <2>1. request'[r].op = "end"
      BY <1>1, <1>4 DEF ChangeRead, Proceed, Safe
    <2>2. QED
      BY <1>1, <2>1
  <1>5. ASSUME NEW t \in SessionIds, NEW x \in SessionIds \cup {All}, SignOutRead(r, t, x) PROVE FALSE
    <2>1. request'[r].op \in {"sign_out", "end"}
      BY <1>1, <1>5 DEF SignOutRead, Proceed, Safe
    <2>2. QED
      BY <1>1, <2>1
  <1>6. ASSUME NEW t \in SessionIds, RefreshRead(r, t)
        PROVE  s \in Opened /\ ~session[s].revoked /\ session' = session
    <2>1. request'[r] = [op |-> "refresh", session |-> t, seen |-> ends[session[t].user]]
      BY <1>1, <1>6 DEF RefreshRead, Proceed, Safe
    <2>2. t = s
      BY <1>1, <2>1
    <2>3. QED
      BY <1>6, <2>2 DEF RefreshRead, Active, sessionVars
  <1>7. ASSUME RevokeAll(r) PROVE FALSE
    <2>1. request'[r].op = "ended"
      BY <1>1, <1>7 DEF RevokeAll, Proceed, Safe
    <2>2. QED
      BY <1>1, <2>1
  <1>8. QED
    BY <1>1, <1>2, <1>3, <1>4, <1>5, <1>6, <1>7, RequestStep

\* A row has as many replacements as before, but for the one being rotated.
LEMMA ReplacementsStep ==
  ASSUME Safe, Next \/ UNCHANGED vars, NEW s \in SessionIds
  PROVE  \/ Replacements(s)' = Replacements(s)
         \/ \E r \in Requests, n \in SessionIds :
              RefreshCommit(r) /\ request[r].session = s /\ n \notin Replacements(s)
              /\ Replacements(s)' = Replacements(s) \cup {n}
  <1>0. \A n \in Opened : n \in SessionIds /\ session[n] \in SessionRow
    BY OpenedRow
  <1>1. CASE UNCHANGED session
    BY <1>1 DEF Replacements, Opened
  <1>2. CASE \E u \in Accounts, born \in 0..MaxEnds, raced \in BOOLEAN, n \in SessionIds :
              SignedIn(u, born, raced, n)
    <2>1. PICK u \in Accounts, born \in 0..MaxEnds, raced \in BOOLEAN, n \in SessionIds :
            SignedIn(u, born, raced, n)
      BY <1>2
    <2>2. /\ n \notin Opened /\ Opened' = Opened \cup {n}
          /\ session'[n] = NewRow(u, None, n, born, raced)
          /\ \A t \in SessionIds \ {n} : session'[t] = session[t]
      BY <2>1, SignedInTable
    <2>3. session'[n].parent # s
      BY <2>2, SessionsAssumption DEF NewRow, None, SessionIds
    <2>4. QED
      BY <1>0, <2>2, <2>3 DEF Replacements
  <1>3. CASE \E r \in Requests : RefreshCommit(r)
    <2>1. PICK r \in Requests, raced \in BOOLEAN, n \in SessionIds :
            RefreshCommit(r) /\ Replaced(request[r].session, raced, n)
      BY <1>3, RefreshReplaces
    <2> DEFINE t == request[r].session
    <2>2. /\ n \notin Opened /\ t \in Opened /\ t # n /\ Opened' = Opened \cup {n}
          /\ session'[n] = NewRow(session[t].user, t, session[t].signIn, session[t].born, raced)
          /\ session'[t] = [session[t] EXCEPT !.revoked = TRUE, !.rotatedTo = n]
          /\ \A x \in SessionIds \ {t, n} : session'[x] = session[x]
      <3>1. RotatedTable(t, raced, n)
        BY <2>1, ReplacedTable
      <3>2. QED
        BY <3>1 DEF RotatedTable
    <2>3. session'[n].parent = t /\ session'[t].parent = session[t].parent
      BY <1>0, <2>2 DEF NewRow, SessionRow
    <2>4. \A m \in Opened : session'[m].parent = session[m].parent /\ m # n
      BY <1>0, <2>2, <2>3
    <2>5. Replacements(s)' = IF s = t THEN Replacements(s) \cup {n} ELSE Replacements(s)
      BY <2>2, <2>3, <2>4 DEF Replacements
    <2>6. n \notin Replacements(s)
      BY <2>2 DEF Replacements
    <2>7. QED
      BY <2>1, <2>5, <2>6
  <1>4. CASE \E S \in SUBSET Opened : Ended(S)
    <2>1. PICK S \in SUBSET Opened : Ended(S)
      BY <1>4
    <2>2. /\ Opened' = Opened
          /\ \A n \in Opened : session'[n] = session[n] \/ session'[n] = [session[n] EXCEPT !.revoked = TRUE]
      BY <1>0, <2>1, EndedTable
    <2>3. \A n \in Opened : session'[n].parent = session[n].parent
      BY <1>0, <2>2 DEF SessionRow
    <2>4. QED
      BY <2>2, <2>3 DEF Replacements
  <1>5. CASE \E t \in Opened : SessionExpires(t)
    <2>1. PICK t \in Opened : SessionExpires(t)
      BY <1>5
    <2>2. /\ Opened' = Opened
          /\ \A n \in Opened : session'[n] = session[n] \/ session'[n] = [session[n] EXCEPT !.expired = TRUE]
      BY <1>0, <2>1, ExpiredTable
    <2>3. \A n \in Opened : session'[n].parent = session[n].parent
      BY <1>0, <2>2 DEF SessionRow
    <2>4. QED
      BY <2>2, <2>3 DEF Replacements
  <1>6. QED
    BY <1>1, <1>2, <1>3, <1>4, <1>5, TableWrites

LEMMA RotationsCountedStep ==
  Safe /\ ReplacementsFollow /\ RotationsCounted /\ [Next]_vars => RotationsCounted'
  <1> SUFFICES ASSUME Safe, ReplacementsFollow, RotationsCounted, Next \/ UNCHANGED vars,
                      NEW s \in SessionIds
               PROVE  Cardinality(Replacements(s)') + Cardinality(Refreshing(s)') <= Cardinality(Requests)
    BY DEF RotationsCounted
  <1>1. Cardinality(Replacements(s)) + Cardinality(Refreshing(s)) <= Cardinality(Requests)
    BY DEF RotationsCounted
  <1>2. CASE Replacements(s)' = Replacements(s) /\ Refreshing(s)' \subseteq Refreshing(s)
    <2>1. Cardinality(Refreshing(s)') <= Cardinality(Refreshing(s)) /\ Cardinality(Refreshing(s)') \in Nat
      BY <1>2, RotationSets, FS_Subset, FS_CardinalityType
    <2>2. QED
      BY <1>1, <1>2, <2>1, RotationSets
  <1>3. CASE s \in Opened /\ ~session[s].revoked /\ session' = session
    <2>1. Replacements(s) = {}
      <3>1. s # None
        BY SessionsAssumption DEF SessionIds, None
      <3>2. QED
        BY <1>3, <3>1 DEF ReplacementsFollow, Replacements
    <2>2. Replacements(s)' = {}
      BY <1>3, <2>1 DEF Replacements, Opened
    <2>3. Refreshing(s)' \in SUBSET Requests
      BY DEF Refreshing
    <2>4. Cardinality(Refreshing(s)') <= Cardinality(Requests) /\ Cardinality(Refreshing(s)') \in Nat
      BY <2>3, FS_Subset, FS_CardinalityType, CodesAssumption
    <2>5. QED
      BY <2>2, <2>4, FS_EmptySet
  <1>4. CASE \E r \in Requests, n \in SessionIds :
               RefreshCommit(r) /\ request[r].session = s /\ n \notin Replacements(s)
               /\ Replacements(s)' = Replacements(s) \cup {n}
    <2>1. PICK r \in Requests, n \in SessionIds :
            RefreshCommit(r) /\ request[r].session = s /\ n \notin Replacements(s)
            /\ Replacements(s)' = Replacements(s) \cup {n}
      BY <1>4
    <2>2. Proceed(r, Idle) /\ r \in Refreshing(s)
      BY <2>1 DEF RefreshCommit, Refreshing
    <2>3. Refreshing(s)' = Refreshing(s) \ {r}
      BY <2>2, Proceeds DEF Refreshing, Idle
    <2>4. Cardinality(Refreshing(s)') = Cardinality(Refreshing(s)) - 1
      BY <2>2, <2>3, RotationSets, FS_RemoveElement
    <2>5. Cardinality(Replacements(s)') = Cardinality(Replacements(s)) + 1
      BY <2>1, RotationSets, FS_AddElement
    <2>6. QED
      BY <1>1, <2>4, <2>5, RotationSets
  <1>5. QED
    BY <1>2, <1>3, <1>4, ReplacementsStep, RefreshingStep

LEMMA RotationsCountedInit == Init => RotationsCounted
  <1> SUFFICES ASSUME Init, NEW s \in SessionIds
               PROVE  Cardinality(Replacements(s)) + Cardinality(Refreshing(s)) <= Cardinality(Requests)
    BY DEF RotationsCounted
  <1>1. Replacements(s) = {}
    BY DEF Init, Replacements, Opened
  <1>2. QED
    BY <1>1, RotationSets, FS_EmptySet

LEMMA RotationsCountBounds == RotationsCounted => RotationsBounded
  <1> SUFFICES ASSUME RotationsCounted, NEW s \in Opened
               PROVE  Cardinality(Replacements(s)) + Cardinality(Refreshing(s)) <= Cardinality(Requests)
    BY DEF RotationsBounded
  <1>1. QED
    BY DEF RotationsCounted, Opened

\* A refresh token is exchanged at most once by each of the requests that overlap.
THEOREM RotationsBoundedHolds == Spec => []RotationsBounded
  BY SafeInit, SafeStep, FollowInit, FollowStep, RotationsCountedInit, RotationsCountedStep,
     RotationsCountBounds, PTL DEF Spec

-----------------------------------------------------------------------------
(***************************************************************************)
(* Ends.  A row that no revocation in flight has seen was written while it *)
(* was in flight; a rotation in flight was read at the count of its row.   *)
(***************************************************************************)
EndsKnown ==
  /\ NoSessionOutlivesItsEnd
  /\ \A r \in Requests : request[r].op = "ended" =>
       \A s \in SessionsOf(request[r].user) : s \notin request[r].rows => session[s].raced
  /\ \A r \in Requests : request[r].op = "refresh" /\ ~session[request[r].session].raced =>
       session[request[r].session].born = request[r].seen

\* Steps that neither sign in nor rotate: the rows keep what they remember.
LEMMA EndsKept ==
  ASSUME Safe, EndsKnown, Opened' = Opened,
         \A s \in Opened : /\ session'[s].user = session[s].user
                            /\ session'[s].born = session[s].born
                            /\ session'[s].raced = session[s].raced,
         NoSessionOutlivesItsEnd',
         \A r \in Requests : request'[r].op = "ended" =>
           \/ request'[r] = request[r]
           \/ SessionsOf(request'[r].user) \subseteq request'[r].rows,
         \A r \in Requests : request'[r].op = "refresh" =>
           \/ request'[r] = request[r]
           \/ /\ request'[r].session \in Opened
              /\ ~session[request'[r].session].raced => session[request'[r].session].born = request'[r].seen
  PROVE  EndsKnown'
  <1>1. \A u : SessionsOf(u)' = SessionsOf(u) /\ SessionsOf(u) \subseteq Opened
    BY DEF SessionsOf
  <1>2. ASSUME NEW r \in Requests, request'[r].op = "ended", NEW u, u = request'[r].user,
               NEW s \in SessionsOf(u)', s \notin request'[r].rows
        PROVE  session'[s].raced
    <2>1. s \in SessionsOf(u) /\ s \in Opened /\ session'[s].raced = session[s].raced
      BY <1>1
    <2>2. CASE request'[r] = request[r]
      BY <1>2, <2>1, <2>2 DEF EndsKnown
    <2>3. QED
      BY <1>2, <2>1, <2>2
  <1>3. ASSUME NEW r \in Requests, request'[r].op = "refresh", ~session'[request'[r].session].raced
        PROVE  session'[request'[r].session].born = request'[r].seen
    <2>1. CASE request'[r] = request[r]
      <3>1. request[r].session \in Opened
        BY <1>3, <2>1 DEF Safe, RequestKnows
      <3>2. QED
        BY <1>3, <2>1, <3>1 DEF EndsKnown
    <2>2. QED
      BY <1>3, <2>1
  <1>4. QED
    BY <1>2, <1>3 DEF EndsKnown

\* What the requests in flight may become.
LEMMA EndsRequests ==
  ASSUME Safe, EndsKnown, Next \/ UNCHANGED vars, NEW r \in Requests, request'[r] # request[r]
  PROVE  /\ request'[r].op = "ended" => SessionsOf(request'[r].user) \subseteq request'[r].rows
         /\ request'[r].op = "refresh" =>
              /\ request'[r].session \in Opened
              /\ ~session[request'[r].session].raced => session[request'[r].session].born = request'[r].seen
  <1>1. CASE request'[r].op \in {"idle", "issue", "invalidated"}
    BY <1>1
  <1>2. ASSUME NEW u \in Accounts, SignInRead(r, u) PROVE request'[r].op = "sign_in"
    BY <1>2, Proceeds DEF SignInRead
  <1>3. ASSUME NEW u \in Accounts, ResetRead(r, u) PROVE request'[r].op = "end"
    BY <1>3, Proceeds DEF ResetRead
  <1>4. ASSUME NEW s \in SessionIds, ChangeRead(r, s) PROVE request'[r].op = "end"
    BY <1>4, Proceeds DEF ChangeRead
  <1>5. ASSUME NEW s \in SessionIds, NEW t \in SessionIds \cup {All}, SignOutRead(r, s, t)
        PROVE  request'[r].op \in {"end", "sign_out"}
    BY <1>5, Proceeds DEF SignOutRead
  <1>6. ASSUME NEW s \in SessionIds, RefreshRead(r, s)
        PROVE  /\ request'[r].op = "refresh" /\ request'[r].session \in Opened
               /\ ~session[request'[r].session].raced => session[request'[r].session].born = request'[r].seen
    <2>1. request'[r] = [op |-> "refresh", session |-> s, seen |-> ends[session[s].user]]
      BY <1>6, Proceeds DEF RefreshRead
    <2>2. s \in Opened /\ ~session[s].revoked
      BY <1>6 DEF RefreshRead, Active
    <2>3. ~session[s].raced => session[s].born = ends[session[s].user]
      BY <2>2 DEF EndsKnown, NoSessionOutlivesItsEnd
    <2>4. QED
      BY <2>1, <2>2, <2>3
  <1>7. CASE RevokeAll(r)
    BY <1>7, Proceeds DEF RevokeAll, RevokedRows
  <1>8. QED
    BY <1>1, <1>2, <1>3, <1>4, <1>5, <1>6, <1>7, RequestStep

\* A new row: no end that it escaped is forgotten by it.
LEMMA EndsOpened ==
  ASSUME Safe, EndsKnown, NEW n, n \notin Opened, Opened' = Opened \cup {n}, UNCHANGED ends,
         \A s \in Opened : /\ session'[s].user = session[s].user
                            /\ session'[s].born = session[s].born
                            /\ session'[s].raced = session[s].raced,
         \A s \in Opened : session[s].revoked => session'[s].revoked,
         ~session'[n].raced => /\ session'[n].born = ends[session'[n].user]
                               /\ ~Ending(session'[n].user),
         \A r \in Requests : request'[r].op \in {"ended", "refresh"} => request'[r] = request[r]
  PROVE  EndsKnown'
  <1>1. NoSessionOutlivesItsEnd'
    <2>1. ASSUME NEW s \in Opened', ~session'[s].revoked, ~session'[s].raced
          PROVE  session'[s].born = ends[session'[s].user]
      <3>1. CASE s = n
        BY <2>1, <3>1
      <3>2. CASE s \in Opened
        <4>1. ~session[s].revoked /\ ~session[s].raced
          BY <2>1, <3>2
        <4>2. session[s].born = ends[session[s].user]
          BY <3>2, <4>1 DEF EndsKnown, NoSessionOutlivesItsEnd
        <4>3. QED
          BY <3>2, <4>2
      <3>3. QED
        BY <3>1, <3>2
    <2>2. QED
      BY <2>1 DEF NoSessionOutlivesItsEnd
  <1>2. ASSUME NEW r \in Requests, request'[r].op = "ended", NEW u, u = request'[r].user,
               NEW s \in SessionsOf(u)', s \notin request'[r].rows
        PROVE  session'[s].raced
    <2>1. request'[r] = request[r] /\ s \in Opened' /\ session'[s].user = u
      BY <1>2 DEF SessionsOf
    <2>2. CASE s = n
      BY <1>2, <2>1, <2>2 DEF Ending
    <2>3. CASE s \in Opened
      <3>1. s \in SessionsOf(u)
        BY <2>1, <2>3 DEF SessionsOf
      <3>2. QED
        BY <1>2, <2>1, <2>3, <3>1 DEF EndsKnown
    <2>4. QED
      BY <2>1, <2>2, <2>3
  <1>3. ASSUME NEW r \in Requests, request'[r].op = "refresh", ~session'[request'[r].session].raced
        PROVE  session'[request'[r].session].born = request'[r].seen
    <2>1. request'[r] = request[r]
      BY <1>3
    <2>2. request[r].session \in Opened
      BY <1>3, <2>1 DEF Safe, RequestKnows
    <2>3. QED
      BY <1>3, <2>1, <2>2 DEF EndsKnown
  <1>4. QED
    BY <1>1, <1>2, <1>3 DEF EndsKnown

LEMMA EndsStep == Safe /\ EndsKnown /\ [Next]_vars => EndsKnown'
  <1> SUFFICES ASSUME Safe, EndsKnown, Next \/ UNCHANGED vars PROVE EndsKnown'
    OBVIOUS
  <1>0. \A s \in Opened : s \in SessionIds /\ session[s] \in SessionRow /\ session[s].user \in Accounts
    BY OpenedRow
  <1>1. CASE UNCHANGED <<session, ends>>
    <2>1. NoSessionOutlivesItsEnd' /\ Opened' = Opened
      BY <1>1 DEF EndsKnown, NoSessionOutlivesItsEnd, Opened
    <2>2. QED
      BY <1>1, <2>1, EndsKept, EndsRequests
  <1>2. ASSUME NEW r \in Requests, SignInCommit(r) PROVE EndsKnown'
    <2> DEFINE u == request[r].user
               born == request[r].born
    <2>0. PICK raced \in BOOLEAN : raced = (born # ends[u] \/ Ending(u))
      OBVIOUS
    <2>1. PICK n \in SessionIds : SignedIn(u, born, raced, n)
      BY <1>2, <2>0 DEF SignInCommit, SignedIn
    <2>2. u \in Accounts /\ born \in 0..MaxEnds /\ UNCHANGED ends /\ Proceed(r, Idle)
      BY <1>2 DEF SignInCommit, Safe, RequestKnows
    <2>3. /\ n \notin Opened /\ Opened' = Opened \cup {n}
          /\ session'[n] = NewRow(u, None, n, born, raced)
          /\ \A s \in Opened : session'[s] = session[s]
      BY <1>0, <2>1, <2>2, SignedInTable
    <2>4. session'[n].user = u /\ session'[n].born = born /\ session'[n].raced = raced
      BY <2>3 DEF NewRow
    <2>5. \A q \in Requests : request'[q].op \in {"ended", "refresh"} => request'[q] = request[q]
      BY <2>2, Proceeds DEF Idle
    <2>6. QED
      BY <2>0, <2>2, <2>3, <2>4, <2>5, EndsOpened
  <1>3. ASSUME NEW r \in Requests, RefreshCommit(r) PROVE EndsKnown'
    <2> DEFINE s == request[r].session
               u == session[s].user
    <2>1. PICK n \in SessionIds : Replaced(s, Raced(r), n)
      BY <1>3, RefreshReplaces
    <2>2. Raced(r) \in BOOLEAN /\ UNCHANGED ends /\ Proceed(r, Idle) /\ request[r].op = "refresh"
      BY <1>3, RefreshReplaces DEF RefreshCommit, historyVars
    <2>3. /\ n \notin Opened /\ s \in Opened /\ Opened' = Opened \cup {n}
          /\ session'[n] = NewRow(u, s, session[s].signIn, session[s].born, Raced(r))
          /\ session'[s] = [session[s] EXCEPT !.revoked = TRUE, !.rotatedTo = n]
          /\ \A t \in Opened \ {s} : session'[t] = session[t]
      <3>1. RotatedTable(s, Raced(r), n)
        BY <2>1, <2>2, ReplacedTable
      <3>2. QED
        BY <1>0, <3>1 DEF RotatedTable
    <2>4. session'[n].user = u /\ session'[n].born = session[s].born /\ session'[n].raced = Raced(r)
      BY <2>3 DEF NewRow
    <2>5. /\ session'[s].user = session[s].user /\ session'[s].born = session[s].born
          /\ session'[s].raced = session[s].raced /\ session'[s].revoked
      BY <1>0, <2>3 DEF SessionRow
    <2>6. ~Raced(r) => session[s].born = ends[u] /\ ~Ending(u)
      BY <2>2 DEF Raced, EndsKnown
    <2>7. \A q \in Requests : request'[q].op \in {"ended", "refresh"} => request'[q] = request[q]
      BY <2>2, Proceeds DEF Idle
    <2>8. \A t \in Opened : /\ session'[t].user = session[t].user
                            /\ session'[t].born = session[t].born
                            /\ session'[t].raced = session[t].raced
      BY <2>3, <2>5
    <2>9. \A t \in Opened : session[t].revoked => session'[t].revoked
      BY <2>3, <2>5
    <2>10. ~session'[n].raced => session'[n].born = ends[session'[n].user] /\ ~Ending(session'[n].user)
      BY <2>4, <2>6
    <2>11. QED
      BY <2>2, <2>3, <2>7, <2>8, <2>9, <2>10, EndsOpened
  <1>4. ASSUME NEW S \in SUBSET Opened, Ended(S)
        PROVE  /\ Opened' = Opened
               /\ \A s \in S : session'[s].revoked
               /\ \A s \in Opened : /\ session'[s].user = session[s].user
                                    /\ session'[s].born = session[s].born
                                    /\ session'[s].raced = session[s].raced
               /\ \A s \in Opened \ S : session'[s] = session[s]
    <2>1. /\ Opened' = Opened
          /\ \A s \in S : session'[s] = [session[s] EXCEPT !.revoked = TRUE]
          /\ \A s \in Opened \ S : session'[s] = session[s]
      BY <1>0, <1>4, EndedTable
    <2>2. ASSUME NEW s \in S
          PROVE  /\ session'[s].revoked
                 /\ session'[s].user = session[s].user /\ session'[s].born = session[s].born
                 /\ session'[s].raced = session[s].raced
      BY <1>0, <2>1 DEF SessionRow
    <2>3. QED
      BY <2>1, <2>2
  <1>5. ASSUME NEW r \in Requests, SignOutCommit(r) PROVE EndsKnown'
    <2> DEFINE S == {request[r].token}
    <2>1. S \in SUBSET Opened /\ Ended(S) /\ UNCHANGED ends
      BY <1>5 DEF SignOutCommit, Safe, RequestKnows, Ended, historyVars
    <2>2. NoSessionOutlivesItsEnd'
      BY <1>4, <2>1 DEF EndsKnown, NoSessionOutlivesItsEnd
    <2>3. QED
      BY <1>4, <2>1, <2>2, EndsKept, EndsRequests
  <1>6. ASSUME NEW r \in Requests, EndCommit(r) PROVE EndsKnown'
    <2> DEFINE S == request[r].rows
               u == request[r].user
    <2>1. S \in SUBSET Opened /\ Ended(S) /\ u \in Accounts /\ request[r].op = "ended"
      BY <1>6 DEF EndCommit, Safe, RequestKnows, Ended
    <2>2. \A a \in Accounts \ {u} : ends'[a] = ends[a]
      BY <1>6 DEF EndCommit, Safe
    <2>3. NoSessionOutlivesItsEnd'
      <3>1. SUFFICES ASSUME NEW s \in Opened, ~session'[s].revoked, ~session'[s].raced
                     PROVE  session'[s].born = ends'[session'[s].user]
        BY <1>4, <2>1 DEF NoSessionOutlivesItsEnd
      <3>2. s \notin S /\ session'[s] = session[s]
        BY <1>4, <2>1, <3>1
      <3>3. session[s].user # u
        BY <2>1, <3>1, <3>2 DEF EndsKnown, SessionsOf
      <3>4. QED
        BY <1>0, <2>2, <3>1, <3>2, <3>3 DEF EndsKnown, NoSessionOutlivesItsEnd
    <2>4. QED
      BY <1>4, <2>1, <2>3, EndsKept, EndsRequests
  <1>7. ASSUME NEW s \in SessionIds, SessionExpires(s) PROVE EndsKnown'
    <2>1. /\ Opened' = Opened
          /\ session'[s] = [session[s] EXCEPT !.expired = TRUE]
          /\ \A t \in Opened \ {s} : session'[t] = session[t]
          /\ UNCHANGED ends
      BY <1>0, <1>7, ExpiredTable DEF SessionExpires, historyVars
    <2>2. \A t \in Opened : /\ session'[t].revoked = session[t].revoked
                            /\ session'[t].born = session[t].born
                            /\ session'[t].user = session[t].user
                            /\ session'[t].raced = session[t].raced
      BY <1>0, <2>1 DEF SessionRow
    <2>3. NoSessionOutlivesItsEnd'
      BY <2>1, <2>2 DEF EndsKnown, NoSessionOutlivesItsEnd
    <2>4. QED
      BY <2>1, <2>2, <2>3, EndsKept, EndsRequests
  <1>8. CASE CodeStep \/ UNCHANGED vars
    BY <1>1, <1>8 DEF CodeStep, vars, sessionVars, historyVars
  <1>9. ASSUME NEW r \in Requests, NEW s \in SessionIds, NEW t \in SessionIds \cup {All}, NEW u \in Accounts,
               \/ SignInRead(r, u) \/ ResetRead(r, u) \/ RefreshRead(r, s) \/ ChangeRead(r, s)
               \/ SignOutRead(r, s, t) \/ RevokeAll(r) \/ SignInWrong(u) \/ Bar(u) \/ RefreshReplayed(s)
        PROVE  EndsKnown'
    BY <1>1, <1>9 DEF SignInRead, ResetRead, RefreshRead, ChangeRead, SignOutRead, RevokeAll, SignInWrong, Bar,
       RefreshReplayed, sessionVars, historyVars
  <1>10. QED
    <2>1. CASE \E r \in Requests : RevokeAll(r)
      <3>1. UNCHANGED <<session, ends>>
        BY <2>1 DEF RevokeAll, sessionVars, historyVars
      <3>2. QED
        BY <1>1, <3>1
    <2>2. CASE \E u \in Accounts : SignInWrong(u) \/ Bar(u) \/ \E r \in Requests : SignInRead(r, u) \/ ResetRead(r, u)
      <3>1. UNCHANGED <<session, ends>>
        BY <2>2 DEF SignInWrong, Bar, SignInRead, ResetRead, sessionVars, historyVars
      <3>2. QED
        BY <1>1, <3>1
    <2>3. CASE \E s \in SessionIds : RefreshReplayed(s) \/ \E r \in Requests : RefreshRead(r, s) \/ ChangeRead(r, s)
                 \/ \E t \in SessionIds \cup {All} : SignOutRead(r, s, t)
      <3>1. UNCHANGED <<session, ends>>
        BY <2>3 DEF RefreshReplayed, RefreshRead, ChangeRead, SignOutRead, sessionVars, historyVars
      <3>2. QED
        BY <1>1, <3>1
    <2>4. QED
      BY <1>2, <1>3, <1>5, <1>6, <1>7, <1>8, <2>1, <2>2, <2>3 DEF Next

LEMMA EndsInit == Init => EndsKnown
  BY DEF Init, CodeInit, EndsKnown, NoSessionOutlivesItsEnd, Opened, Idle

\* However requests overlap: a password change, a reset or a sign-out everywhere leaves no earlier
\* session of the account, but those whose chain has a row that was being written meanwhile.
THEOREM EndsAreFinal == Spec => []NoSessionOutlivesItsEnd
  <1>1. EndsKnown => NoSessionOutlivesItsEnd
    BY DEF EndsKnown
  <1>2. QED
    BY <1>1, SafeInit, SafeStep, EndsInit, EndsStep, PTL DEF Spec

-----------------------------------------------------------------------------
(***************************************************************************)
(* Sessions of one sign-in.  Of two rows that nothing replaced, one began  *)
(* as another exchange of a token already exchanged.                       *)
(***************************************************************************)
Forked(i) == \E p \in Opened : session[p].signIn = i /\ \E n, m \in Replacements(p) : n # m

OneTip ==
  /\ \A s \in Opened : session[s].signIn \in Opened
  /\ \A i : \A s, t \in Opened :
       /\ session[s].signIn = i /\ session[t].signIn = i
       /\ Replacements(s) = {} /\ Replacements(t) = {}
       => s = t \/ Forked(i)

\* Where no row is added, and none loses its place in its chain, nothing changes.
LEMMA TipsKept ==
  ASSUME OneTip, Opened' = Opened,
         \A s \in Opened : session'[s].parent = session[s].parent /\ session'[s].signIn = session[s].signIn
  PROVE  OneTip'
  <1>1. \A s : Replacements(s)' = Replacements(s) /\ Replacements(s) \subseteq Opened
    BY DEF Replacements
  <1>2. \A i : Forked(i) => Forked(i)'
    BY <1>1 DEF Forked
  <1>3. QED
    BY <1>1, <1>2 DEF OneTip

LEMMA OneTipStep == Safe /\ OneTip /\ [Next]_vars => OneTip'
  <1> SUFFICES ASSUME Safe, OneTip, Next \/ UNCHANGED vars PROVE OneTip'
    OBVIOUS
  <1>0. \A s \in Opened : s \in SessionIds /\ session[s] \in SessionRow
    BY OpenedRow
  <1>1. CASE UNCHANGED session
    BY <1>1, TipsKept DEF Opened
  <1>2. ASSUME NEW u \in Accounts, NEW born \in 0..MaxEnds, NEW raced \in BOOLEAN, NEW n \in SessionIds,
               SignedIn(u, born, raced, n)
        PROVE  OneTip'
    <2>1. /\ n \notin Opened /\ Opened' = Opened \cup {n}
          /\ session'[n] = NewRow(u, None, n, born, raced)
          /\ \A s \in Opened : session'[s] = session[s]
      BY <1>0, <1>2, SignedInTable
    <2>2. session'[n].parent = None /\ session'[n].signIn = n
      BY <2>1 DEF NewRow
    <2>3. \A s \in Opened : Replacements(s)' = Replacements(s) /\ session'[s].signIn = session[s].signIn
      <3>1. \A s \in Opened : s # None
        BY <1>0, SessionsAssumption DEF SessionIds, None
      <3>2. QED
        BY <2>1, <2>2, <3>1 DEF Replacements
    <2>4. \A i : Forked(i) => Forked(i)'
      BY <2>1, <2>3 DEF Forked
    <2>5. \A s \in Opened : session'[s].signIn \in Opened
      BY <2>3 DEF OneTip
    <2>6. ASSUME NEW i, NEW s \in Opened', NEW t \in Opened', session'[s].signIn = i,
                 session'[t].signIn = i, Replacements(s)' = {}, Replacements(t)' = {}
          PROVE  s = t \/ Forked(i)'
      <3>1. CASE s = n \/ t = n
        BY <2>1, <2>2, <2>5, <2>6, <3>1
      <3>2. CASE s \in Opened /\ t \in Opened
        BY <2>3, <2>4, <2>6, <3>2 DEF OneTip
      <3>3. QED
        BY <2>1, <3>1, <3>2
    <2>7. QED
      BY <2>1, <2>2, <2>5, <2>6 DEF OneTip
  <1>3. ASSUME NEW s \in Opened, NEW raced \in BOOLEAN, NEW n \in SessionIds, Replaced(s, raced, n)
        PROVE  OneTip'
    <2>1. /\ n \notin Opened /\ s # n /\ Opened' = Opened \cup {n}
          /\ session'[n] = NewRow(session[s].user, s, session[s].signIn, session[s].born, raced)
          /\ session'[s] = [session[s] EXCEPT !.revoked = TRUE, !.rotatedTo = n]
          /\ \A t \in Opened \ {s} : session'[t] = session[t]
      <3>1. RotatedTable(s, raced, n)
        BY <1>3, ReplacedTable
      <3>2. QED
        BY <1>0, <3>1 DEF RotatedTable
    <2>2. session'[n].parent = s /\ session'[n].signIn = session[s].signIn
      BY <2>1 DEF NewRow
    <2>3. \A t \in Opened : session'[t].parent = session[t].parent /\ session'[t].signIn = session[t].signIn
      BY <1>0, <2>1 DEF SessionRow
    <2>4. /\ Replacements(s)' = Replacements(s) \cup {n}
          /\ \A t \in Opened \ {s} : Replacements(t)' = Replacements(t)
      BY <2>1, <2>2, <2>3 DEF Replacements
    <2>5. \A i : Forked(i) => Forked(i)'
      <3>1. ASSUME NEW i, Forked(i) PROVE Forked(i)'
        <4>1. PICK p \in Opened : session[p].signIn = i /\ \E x, y \in Replacements(p) : x # y
          BY <3>1 DEF Forked
        <4>2. Replacements(p) \subseteq Replacements(p)'
          BY <2>4
        <4>3. p \in Opened' /\ session'[p].signIn = i
          BY <2>1, <2>3, <4>1
        <4>4. QED
          BY <4>1, <4>2, <4>3 DEF Forked
      <3>2. QED
        BY <3>1
    <2>6. \A t \in Opened' : session'[t].signIn \in Opened'
      BY <2>1, <2>2, <2>3 DEF OneTip
    <2>7. ASSUME NEW i, i = session[s].signIn,
                 NEW t \in Opened, t # s, session[t].signIn = i, Replacements(t) = {}
          PROVE  Forked(i)'
      <3>1. CASE Replacements(s) = {}
        BY <2>5, <2>7, <3>1 DEF OneTip
      <3>2. CASE Replacements(s) # {}
        <4>1. PICK m \in Replacements(s) : TRUE
          BY <3>2
        <4>2. m # n /\ m \in Replacements(s)' /\ n \in Replacements(s)'
          BY <2>1, <2>4, <4>1 DEF Replacements
        <4>3. s \in Opened' /\ session'[s].signIn = session[s].signIn
          BY <2>1, <2>3
        <4>4. QED
          BY <2>7, <4>2, <4>3 DEF Forked
      <3>3. QED
        BY <3>1, <3>2
    <2>8. ASSUME NEW i, NEW t \in Opened', NEW x \in Opened', session'[t].signIn = i,
                 session'[x].signIn = i, Replacements(t)' = {}, Replacements(x)' = {}
          PROVE  t = x \/ Forked(i)'
      <3>1. t # s /\ x # s
        BY <2>4, <2>8
      <3>2. CASE t = n /\ x = n
        BY <3>2
      <3>3. CASE t = n /\ x # n
        BY <2>1, <2>2, <2>3, <2>4, <2>7, <2>8, <3>1, <3>3
      <3>4. CASE t # n /\ x = n
        BY <2>1, <2>2, <2>3, <2>4, <2>7, <2>8, <3>1, <3>4
      <3>5. CASE t # n /\ x # n
        BY <2>1, <2>3, <2>4, <2>5, <2>8, <3>1, <3>5 DEF OneTip
      <3>6. QED
        BY <3>2, <3>3, <3>4, <3>5
    <2>9. QED
      BY <2>6, <2>8 DEF OneTip
  <1>4. ASSUME NEW S \in SUBSET Opened, Ended(S) PROVE OneTip'
    <2>1. /\ Opened' = Opened
          /\ \A s \in Opened : session'[s] = session[s] \/ session'[s] = [session[s] EXCEPT !.revoked = TRUE]
      BY <1>0, <1>4, EndedTable
    <2>2. \A s \in Opened : session'[s].parent = session[s].parent /\ session'[s].signIn = session[s].signIn
      BY <1>0, <2>1 DEF SessionRow
    <2>3. QED
      BY <2>1, <2>2, TipsKept
  <1>5. ASSUME NEW s \in Opened, SessionExpires(s) PROVE OneTip'
    <2>1. /\ Opened' = Opened
          /\ \A t \in Opened : session'[t] = session[t] \/ session'[t] = [session[t] EXCEPT !.expired = TRUE]
      BY <1>0, <1>5, ExpiredTable
    <2>2. \A t \in Opened : session'[t].parent = session[t].parent /\ session'[t].signIn = session[t].signIn
      BY <1>0, <2>1 DEF SessionRow
    <2>3. QED
      BY <2>1, <2>2, TipsKept
  <1>6. QED
    BY <1>1, <1>2, <1>3, <1>4, <1>5, TableStep

LEMMA OneTipInit == Init => OneTip
  BY DEF Init, OneTip, Opened

\* What is live was not replaced.
LEMMA LiveIsTip ==
  ASSUME Safe, ReplacementsFollow, NEW s \in Opened, ~session[s].revoked
  PROVE  Replacements(s) = {}
  <1>1. s # None
    BY OpenedRow, SessionsAssumption DEF SessionIds, None
  <1>2. QED
    BY <1>1 DEF ReplacementsFollow, Replacements

LEMMA OneTipBounds == Safe /\ ReplacementsFollow /\ OneTip => OneSessionPerSignIn
  <1> SUFFICES ASSUME Safe, ReplacementsFollow, OneTip, NEW s \in Opened, NEW t \in Opened,
                      ~session[s].revoked, ~session[t].revoked, session[s].signIn = session[t].signIn
               PROVE  s = t \/ Forked(session[s].signIn)
    BY DEF OneSessionPerSignIn, Forked
  <1>1. Replacements(s) = {} /\ Replacements(t) = {}
    BY LiveIsTip
  <1>2. QED
    BY <1>1 DEF OneTip

\* However requests overlap: a sign-in has one live session, unless one of its tokens was exchanged
\* more than once.
THEOREM OneSessionUnlessForked == Spec => []OneSessionPerSignIn
  BY SafeInit, SafeStep, FollowInit, FollowStep, OneTipInit, OneTipStep, OneTipBounds, PTL DEF Spec

-----------------------------------------------------------------------------
(***************************************************************************)
(* Types.                                                                  *)
(***************************************************************************)
\* The rows that a running issue or reset will write are still in the table.
ReadsIssued ==
  \A r \in Requests :
    /\ request[r].op = "invalidated" => request[r].stale \subseteq Issued
    /\ request[r].op \in {"end", "ended"} => request[r].code \in Issued \cup {None}

Requested == CodeRequest \cup SessionRequest \cup {Idle}

Typed == Safe /\ SessionsTypeOK /\ ReadsIssued

LEMMA RequestedFields ==
  ASSUME Typed, NEW r \in Requests
  PROVE  /\ request[r] \in Requested
         /\ request[r].op \in {"issue", "invalidated"} =>
              request[r].user \in Accounts /\ request[r].purpose \in Purposes /\ request[r].code \in Codes
         /\ request[r].op = "invalidated" => request[r].stale \subseteq Issued
         /\ request[r].op = "invalidated" => request[r].rivals \in SUBSET Codes
         /\ request[r].op \in {"sign_in", "end", "ended"} => request[r].user \in Accounts
         /\ request[r].op \in {"end", "ended"} => request[r].code \in Issued \cup {None}
  <1>1. request[r] \in Requested
    BY DEF Typed, SessionsTypeOK, Requested
  <1>2. QED
    BY <1>1 DEF Requested, CodeRequest, SessionRequest, Idle, Typed, ReadsIssued

\* Codes are inserted, consumed and aged; none is removed.
LEMMA CodeTypes ==
  ASSUME Typed, Next \/ UNCHANGED vars
  PROVE  code' \in [Codes -> CodeRow \cup {NoRow}] /\ Issued \subseteq Issued'
  <1>1. code \in [Codes -> CodeRow \cup {NoRow}] /\ \A c \in Issued : c \in Codes /\ code[c] \in CodeRow
    BY DEF Typed, SessionsTypeOK, Issued
  <1>2. CASE UNCHANGED code
    BY <1>1, <1>2 DEF Issued
  <1>3. \A c \in Issued : [code[c] EXCEPT !.consumed = TRUE] \in CodeRow
    <2>1. \A row \in CodeRow : [row EXCEPT !.consumed = TRUE] \in CodeRow
      BY DEF CodeRow
    <2>2. QED
      BY <1>1, <2>1
  <1>4. ASSUME NEW c \in Issued, code' = Consumed(c)
        PROVE  code' \in [Codes -> CodeRow \cup {NoRow}] /\ Issued \subseteq Issued'
    BY <1>1, <1>3, <1>4, NoRowAssumption DEF Consumed, Issued
  <1>5. ASSUME NEW r \in Requests, EndCommit(r)
        PROVE  code' \in [Codes -> CodeRow \cup {NoRow}] /\ Issued \subseteq Issued'
    <2>1. request[r].code \in Issued \cup {None}
      BY <1>5, RequestedFields DEF EndCommit
    <2>2. CASE request[r].code # None /\ code' = Consumed(request[r].code)
      BY <1>4, <2>1, <2>2
    <2>3. QED
      BY <1>2, <1>5, <2>2 DEF EndCommit, ResetWrites
  <1>6. ASSUME NEW r \in Requests, IssueCommit(r)
        PROVE  code' \in [Codes -> CodeRow \cup {NoRow}] /\ Issued \subseteq Issued'
    <2> DEFINE q == request[r]
    <2>1. /\ q.user \in Accounts /\ q.purpose \in Purposes /\ q.code \in Codes
          /\ q.stale \subseteq Issued /\ q.rivals \in SUBSET Codes
      BY <1>6, RequestedFields DEF IssueCommit
    <2>2. NewCode(q.user, q.purpose, r, q.rivals) \in CodeRow
      BY <2>1, CodesAssumption DEF NewCode, CodeRow
    <2>3. code' = [c \in Codes |-> code'[c]]
      BY <1>6 DEF IssueCommit
    <2>4. ASSUME NEW c \in Codes
          PROVE  code'[c] \in CodeRow \cup {NoRow} /\ (code[c] # NoRow => code'[c] \in CodeRow)
      <3>1. CASE c = q.code /\ c \notin q.stale
        BY <1>6, <2>2, <3>1 DEF IssueCommit
      <3>5. CASE c = q.code /\ c \in q.stale
        BY <1>3, <1>6, <2>1, <2>2, <3>5 DEF IssueCommit
      <3>2. CASE c # q.code /\ c \in q.stale
        BY <1>3, <1>6, <2>1, <3>2 DEF IssueCommit
      <3>3. CASE c # q.code /\ c \notin q.stale
        BY <1>1, <1>6, <3>3 DEF IssueCommit
      <3>4. QED
        BY <3>1, <3>2, <3>3, <3>5
    <2>5. QED
      BY <2>3, <2>4, NoRowAssumption DEF Issued
  <1>7. ASSUME NEW c \in Codes, CodeAges(c)
        PROVE  code' \in [Codes -> CodeRow \cup {NoRow}] /\ Issued \subseteq Issued'
    <2>1. \A row \in CodeRow : [row EXCEPT !.cooling = FALSE] \in CodeRow /\ [row EXCEPT !.expired = TRUE] \in CodeRow
      BY DEF CodeRow
    <2>2. code[c] \in CodeRow
      BY <1>1, <1>7 DEF CodeAges
    <2>3. PICK row \in CodeRow : code' = [code EXCEPT ![c] = row]
      <3>1. CASE code[c].cooling
        BY <1>7, <2>1, <2>2, <3>1 DEF CodeAges
      <3>2. CASE ~code[c].cooling
        BY <1>7, <2>1, <2>2, <3>2 DEF CodeAges
      <3>3. QED
        BY <3>1, <3>2
    <2>4. QED
      BY <1>1, <2>3, NoRowAssumption DEF Issued
  <1>8. CASE CodeStep
    BY <1>2, <1>6, <1>7, <1>8 DEF CodeStep, IssueInvalidate, Abort, IssueRead, RedeemWrong
  <1>9. CASE ~CodeStep
    BY <1>2, <1>5, <1>9
       DEF Next, vars, codeVars, SignInCommit, RefreshCommit, SignOutCommit, RevokeAll, SignInRead, ResetRead,
           RefreshRead, ChangeRead, SignOutRead, SignInWrong, Bar, RefreshReplayed, SessionExpires
  <1>10. QED
    BY <1>8, <1>9

\* What a request has read has the types its commit relies on.
LEMMA RequestsTyped ==
  ASSUME Typed, Next \/ UNCHANGED vars
  PROVE  request' \in [Requests -> Requested] /\ ReadsIssued'
  <1>1. request \in [Requests -> Requested] /\ Issued \subseteq Issued'
    BY CodeTypes DEF Typed, SessionsTypeOK, Requested
  <1>2. CASE UNCHANGED request
    BY <1>1, <1>2 DEF Typed, ReadsIssued
  <1>3. ASSUME NEW r \in Requests, NEW step \in Requested, Proceed(r, step),
               step.op = "invalidated" => step.stale \subseteq Issued,
               step.op \in {"end", "ended"} => step.code \in Issued \cup {None}
        PROVE  request' \in [Requests -> Requested] /\ ReadsIssued'
    BY <1>1, <1>3 DEF Proceed, Typed, ReadsIssued
  <1>4. Idle \in Requested /\ Idle.op = "idle"
    BY DEF Requested, Idle
  <1>5. ASSUME NEW r \in Requests,
               \/ SignInCommit(r) \/ RefreshCommit(r) \/ SignOutCommit(r)
               \/ EndCommit(r) \/ Abort(r) \/ IssueCommit(r)
        PROVE  request' \in [Requests -> Requested] /\ ReadsIssued'
    <2>1. Proceed(r, Idle)
      BY <1>5 DEF SignInCommit, RefreshCommit, SignOutCommit, EndCommit, Abort, IssueCommit
    <2>2. QED
      BY <1>3, <1>4, <2>1
  <1>6. ASSUME NEW r \in Requests, IssueInvalidate(r)
        PROVE  request' \in [Requests -> Requested] /\ ReadsIssued'
    <2> DEFINE q == request[r]
               step == [op |-> "invalidated", user |-> q.user, purpose |-> q.purpose,
                        code |-> q.code, stale |-> Outstanding(q.user, q.purpose),
                        rivals |-> Running]
    <2>1. q.user \in Accounts /\ q.purpose \in Purposes /\ q.code \in Codes
      BY <1>6, RequestedFields DEF IssueInvalidate
    <2>2. Outstanding(q.user, q.purpose) \subseteq Issued /\ Issued \subseteq Codes
      BY DEF Outstanding, IssuedTo, Issued
    <2>5. Running \subseteq Codes
      BY RequestedFields DEF Running
    <2>3. step \in Requested
      BY <2>1, <2>2, <2>5 DEF Requested, CodeRequest
    <2>4. QED
      BY <1>3, <1>6, <2>2, <2>3 DEF IssueInvalidate
  <1>7. ASSUME NEW r \in Requests, NEW u \in Accounts, IssueRead(r, u, Reset)
        PROVE  request' \in [Requests -> Requested] /\ ReadsIssued'
    <2>1. PICK n \in Codes : Proceed(r, [op |-> "issue", user |-> u, purpose |-> Reset, code |-> n])
      BY <1>7 DEF IssueRead
    <2>2. [op |-> "issue", user |-> u, purpose |-> Reset, code |-> n] \in Requested
      BY SessionsAssumption DEF Requested, CodeRequest
    <2>3. QED
      BY <1>3, <2>1, <2>2
  <1>8. ASSUME NEW r \in Requests, NEW u \in Accounts, SignInRead(r, u)
        PROVE  request' \in [Requests -> Requested] /\ ReadsIssued'
    <2>1. [op |-> "sign_in", user |-> u, born |-> ends[u]] \in Requested
      BY DEF Typed, Safe, Requested, SessionRequest
    <2>2. QED
      BY <1>3, <1>8, <2>1 DEF SignInRead
  <1>9. ASSUME NEW r \in Requests, NEW u \in Accounts, ResetRead(r, u)
        PROVE  request' \in [Requests -> Requested] /\ ReadsIssued'
    <2>1. PICK c \in Codes : Candidate(u, Reset, c) /\ Proceed(r, [op |-> "end", user |-> u, code |-> c])
      BY <1>9 DEF ResetRead
    <2>2. c \in Issued
      BY <2>1 DEF Candidate, Latest, Outstanding, IssuedTo
    <2>3. [op |-> "end", user |-> u, code |-> c] \in Requested
      BY DEF Requested, SessionRequest
    <2>4. QED
      BY <1>3, <2>1, <2>2, <2>3
  <1>10. ASSUME NEW r \in Requests, NEW s \in SessionIds, RefreshRead(r, s)
         PROVE  request' \in [Requests -> Requested] /\ ReadsIssued'
    <2>1. ends[session[s].user] \in 0..MaxEnds
      BY <1>10, OpenedRow DEF RefreshRead, Typed, Safe
    <2>2. [op |-> "refresh", session |-> s, seen |-> ends[session[s].user]] \in Requested
      BY <2>1 DEF Requested, SessionRequest
    <2>3. QED
      BY <1>3, <1>10, <2>2 DEF RefreshRead
  <1>11. ASSUME NEW r \in Requests, NEW s \in Opened, Proceed(r, [op |-> "end", user |-> session[s].user, code |-> None])
         PROVE  request' \in [Requests -> Requested] /\ ReadsIssued'
    <2>1. session[s].user \in Accounts
      BY OpenedRow DEF Typed
    <2>2. [op |-> "end", user |-> session[s].user, code |-> None] \in Requested
      BY <2>1 DEF Requested, SessionRequest
    <2>3. QED
      BY <1>3, <1>11, <2>2
  <1>12. ASSUME NEW r \in Requests, NEW s \in SessionIds, NEW t \in SessionIds \cup {All},
                ChangeRead(r, s) \/ SignOutRead(r, s, t)
         PROVE  request' \in [Requests -> Requested] /\ ReadsIssued'
    <2>1. \/ t \in SessionsOf(session[s].user) /\ Proceed(r, [op |-> "sign_out", token |-> t])
          \/ s \in Opened /\ Proceed(r, [op |-> "end", user |-> session[s].user, code |-> None])
      BY <1>12 DEF SignOutRead, ChangeRead
    <2>2. CASE t \in SessionsOf(session[s].user) /\ Proceed(r, [op |-> "sign_out", token |-> t])
      <3>1. [op |-> "sign_out", token |-> t] \in Requested
        BY <2>2 DEF Requested, SessionRequest, SessionsOf, Opened
      <3>2. QED
        BY <1>3, <2>2, <3>1
    <2>3. QED
      BY <1>11, <2>1, <2>2
  <1>15. ASSUME NEW r \in Requests, RevokeAll(r)
         PROVE  request' \in [Requests -> Requested] /\ ReadsIssued'
    <2> DEFINE q == request[r]
               step == [op |-> "ended", user |-> q.user, code |-> q.code, rows |-> RevokedRows(q.user)]
    <2>1. q.user \in Accounts /\ q.code \in Issued \cup {None}
      BY <1>15, RequestedFields DEF RevokeAll
    <2>2. RevokedRows(q.user) \subseteq SessionIds /\ Issued \subseteq Codes
      BY DEF RevokedRows, SessionsOf, Opened, Issued
    <2>3. step \in Requested
      BY <2>1, <2>2 DEF Requested, SessionRequest
    <2>4. QED
      BY <1>3, <1>15, <2>1, <2>3 DEF RevokeAll
  <1>13. CASE \/ UNCHANGED vars
              \/ \E u \in Accounts : RedeemWrong(u, Reset) \/ SignInWrong(u) \/ Bar(u)
              \/ \E c \in Codes : CodeAges(c)
              \/ \E s \in SessionIds : RefreshReplayed(s) \/ SessionExpires(s)
    <2>1. UNCHANGED request
      BY <1>13 DEF vars, codeVars, RedeemWrong, SignInWrong, Bar, CodeAges, RefreshReplayed, SessionExpires
    <2>2. QED
      BY <1>2, <2>1
  <1>14. QED
    BY <1>5, <1>6, <1>7, <1>8, <1>9, <1>10, <1>12, <1>13, <1>15 DEF Next, CodeStep, All, None

LEMMA CountersTyped ==
  ASSUME Typed, Next \/ UNCHANGED vars
  PROVE  guesses' \in [Codes -> 0..MaxAttempts] /\ redeemed' \in [Codes -> Nat]
  <1>1. guesses \in [Codes -> 0..MaxAttempts] /\ redeemed \in [Codes -> Nat] /\ MaxAttempts \in Nat
    BY CodesAssumption DEF Typed, SessionsTypeOK
  <1>2. CASE UNCHANGED <<guesses, redeemed>>
    BY <1>1, <1>2
  <1>3. ASSUME NEW u \in Accounts, RedeemWrong(u, Reset)
        PROVE  guesses' \in [Codes -> 0..MaxAttempts] /\ redeemed' \in [Codes -> Nat]
    BY <1>1, <1>3 DEF RedeemWrong
  <1>4. ASSUME NEW r \in Requests, EndCommit(r)
        PROVE  guesses' \in [Codes -> 0..MaxAttempts] /\ redeemed' \in [Codes -> Nat]
    <2>1. request[r].code \in Codes \cup {None}
      BY <1>4, RequestedFields DEF EndCommit, Issued
    <2>2. QED
      BY <1>1, <1>4, <2>1 DEF EndCommit, ResetWrites
  <1>5. QED
    BY <1>2, <1>3, <1>4
       DEF Next, CodeStep, vars, codeVars, IssueInvalidate, IssueCommit, Abort, IssueRead, CodeAges, SignInCommit,
           RefreshCommit, SignOutCommit, RevokeAll, SignInRead, ResetRead, RefreshRead, ChangeRead, SignOutRead,
           SignInWrong, Bar, RefreshReplayed, SessionExpires

LEMMA AccountsTyped ==
  ASSUME Typed, Next \/ UNCHANGED vars
  PROVE  /\ barred' \in SUBSET Accounts
         /\ failed' \in [Accounts -> 0..MaxFailedAttempts] /\ locked' \in [Accounts -> BOOLEAN]
         /\ wrong' \in [Accounts -> 0..MaxFailedAttempts] /\ replayed' \in [Accounts -> BOOLEAN]
  <1> DEFINE Kept == /\ barred' \in SUBSET Accounts
                     /\ failed' \in [Accounts -> 0..MaxFailedAttempts] /\ locked' \in [Accounts -> BOOLEAN]
                     /\ wrong' \in [Accounts -> 0..MaxFailedAttempts] /\ replayed' \in [Accounts -> BOOLEAN]
  <1>1. /\ barred \in SUBSET Accounts
        /\ failed \in [Accounts -> 0..MaxFailedAttempts] /\ locked \in [Accounts -> BOOLEAN]
        /\ wrong \in [Accounts -> 0..MaxFailedAttempts] /\ replayed \in [Accounts -> BOOLEAN]
        /\ MaxFailedAttempts \in Nat /\ 0 \in 0..MaxFailedAttempts
    BY SessionsAssumption DEF Typed, SessionsTypeOK
  <1>2. CASE UNCHANGED <<accountVars, wrong, replayed>>
    BY <1>1, <1>2 DEF accountVars
  <1>3. ASSUME NEW r \in Requests, SignInCommit(r) \/ (EndCommit(r) /\ request[r].code # None)
        PROVE  Kept
    <2>1. request[r].user \in Accounts
      BY <1>3, RequestedFields DEF SignInCommit, EndCommit
    <2>2. /\ failed' = [failed EXCEPT ![request[r].user] = 0]
          /\ locked' = [locked EXCEPT ![request[r].user] = FALSE]
          /\ wrong' = [wrong EXCEPT ![request[r].user] = 0] /\ barred' = barred
      BY <1>3 DEF SignInCommit, EndCommit, ResetWrites
    <2>3. replayed' = replayed \/ replayed' = [replayed EXCEPT ![request[r].user] = FALSE]
      BY <1>3 DEF SignInCommit, EndCommit, ResetWrites
    <2>4. QED
      BY <1>1, <2>1, <2>2, <2>3
  <1>4. ASSUME NEW u \in Accounts, SignInWrong(u)
        PROVE  Kept
    BY <1>1, <1>4 DEF SignInWrong, accountVars
  <1>5. ASSUME NEW u \in Accounts, Bar(u)
        PROVE  Kept
    BY <1>1, <1>5 DEF Bar, historyVars
  <1>6. ASSUME NEW s \in SessionIds, RefreshReplayed(s)
        PROVE  Kept
    BY <1>1, <1>6 DEF RefreshReplayed, accountVars
  <1>7. ASSUME NEW r \in Requests, EndCommit(r), request[r].code = None PROVE Kept
    BY <1>2, <1>7 DEF EndCommit, accountVars
  <1>8. QED
    BY <1>2, <1>3, <1>4, <1>5, <1>6, <1>7
       DEF Next, CodeStep, vars, sessionVars, historyVars, RefreshCommit, SignOutCommit, RevokeAll, SignInRead,
           ResetRead, RefreshRead, ChangeRead, SignOutRead, SessionExpires

LEMMA TypedHolds == Spec => []Typed
  <1>1. Init => Typed
    <2>1. Init => SessionsTypeOK /\ ReadsIssued
      BY CodesAssumption, SessionsAssumption DEF Init, CodeInit, SessionsTypeOK, ReadsIssued, Idle
    <2>2. QED
      BY <2>1, SafeInit DEF Typed
  <1>2. Typed /\ [Next]_vars => Typed'
    <2> SUFFICES ASSUME Typed, Next \/ UNCHANGED vars
                 PROVE  Typed'
      OBVIOUS
    <2>1. Safe'
      BY SafeStep DEF Typed
    <2>2. QED
      BY <2>1, CodeTypes, RequestsTyped, CountersTyped, AccountsTyped DEF Typed, SessionsTypeOK, Safe, Requested
  <1>3. QED
    BY <1>1, <1>2, PTL DEF Spec

\* However resets, sign-ins and rotations overlap: rows and counters keep their shape, because
\* what a running request will write is still in the table when it commits.
THEOREM SessionsTypeCorrect == Spec => []SessionsTypeOK
  <1>1. Typed => SessionsTypeOK
    BY DEF Typed
  <1>2. QED
    BY <1>1, TypedHolds, PTL

-----------------------------------------------------------------------------
(***************************************************************************)
(* The codes under the sessions.  A password reset redeems a code in the   *)
(* middle of writing five other tables; the requests that sign in, rotate  *)
(* or sign out do not touch the codes.  Seen through CodeRequestOf, this   *)
(* module is VerificationCodes, whose theorems then hold here.             *)
(***************************************************************************)
CodeRequestOf(q) ==
  CASE q.op \in {"issue", "invalidated"} -> q
    [] q.op \in {"end", "ended"} /\ q.code # None -> [op |-> "redeem", code |-> q.code]
    [] OTHER -> Idle

codeRequest == [r \in Requests |-> CodeRequestOf(request[r])]

CodeTable == INSTANCE CodesProofs WITH request <- codeRequest

LEMMA TableAssumptions == CodeTable!CodesAssumption /\ CodeTable!NoRowAssumption
  BY CodesAssumption, NoRowAssumption DEF CodeRow, CodeTable!CodeRow, Codes, CodeTable!Codes, IsFiniteSet, CodeTable!IsFiniteSet

LEMMA CodeRequestKinds ==
  ASSUME NEW q
  PROVE  /\ q.op \in {"issue", "invalidated"} => CodeRequestOf(q) = q
         /\ q.op \in {"end", "ended"} /\ q.code # None => CodeRequestOf(q) = [op |-> "redeem", code |-> q.code]
         /\ q.op \in {"end", "ended"} /\ q.code = None => CodeRequestOf(q) = Idle
         /\ q.op \notin {"issue", "invalidated", "end", "ended"} => CodeRequestOf(q) = Idle
         /\ CodeRequestOf(q).op \in {"issue", "invalidated"} => CodeRequestOf(q) = q
         /\ CodeRequestOf(Idle) = Idle
  BY DEF CodeRequestOf, Idle

\* A request that moves on in one table moves on in the other.
LEMMA CodeProceeds ==
  ASSUME Typed, NEW r \in Requests, NEW step, Proceed(r, step)
  PROVE  codeRequest' = [codeRequest EXCEPT ![r] = CodeRequestOf(step)]
  <1>1. \A q \in Requests : request'[q] = IF q = r THEN step ELSE request[q]
    BY DEF Proceed, Typed, SessionsTypeOK
  <1>2. QED
    BY <1>1 DEF codeRequest

\* The table is the same one, so whatever is read off it is the same.
LEMMA SameTable ==
  /\ CodeTable!Codes = Codes /\ CodeTable!Idle = Idle /\ CodeTable!Issued = Issued
  /\ \A u, p : /\ CodeTable!Outstanding(u, p) = Outstanding(u, p)
               /\ CodeTable!CoolingDown(u, p) <=> CoolingDown(u, p)
               /\ \A c : CodeTable!Candidate(u, p, c) <=> Candidate(u, p, c)
  /\ \A c : CodeTable!Consumed(c) = Consumed(c)
  <1>1. /\ CodeTable!Codes = Codes /\ CodeTable!Idle = Idle /\ CodeTable!Issued = Issued
        /\ \A u, p : CodeTable!IssuedTo(u, p) = IssuedTo(u, p)
    BY DEF CodeTable!Codes, Codes, CodeTable!Idle, Idle, CodeTable!Issued, Issued, CodeTable!IssuedTo, IssuedTo
  <1>2. \A u, p : CodeTable!Outstanding(u, p) = Outstanding(u, p)
    BY <1>1 DEF CodeTable!Outstanding, Outstanding
  <1>3. \A S, c : CodeTable!Latest(S, c) <=> Latest(S, c)
    BY DEF CodeTable!Latest, Latest
  <1>4. \A u, p : CodeTable!CoolingDown(u, p) <=> CoolingDown(u, p)
    BY <1>1, <1>3 DEF CodeTable!CoolingDown, CoolingDown
  <1>5. \A c : CodeTable!Usable(c) <=> Usable(c)
    BY DEF CodeTable!Usable, Usable
  <1>6. \A u, p, c : CodeTable!Candidate(u, p, c) <=> Candidate(u, p, c)
    BY <1>2, <1>3, <1>5 DEF CodeTable!Candidate, Candidate
  <1>7. \A c : CodeTable!Consumed(c) = Consumed(c)
    BY DEF CodeTable!Consumed, Consumed
  <1>8. QED
    BY <1>1, <1>2, <1>4, <1>6, <1>7

LEMMA SameNumbers ==
  ASSUME Typed
  PROVE  CodeTable!Running = Running /\ \A n : NextNumber(n) => CodeTable!NextNumber(n)
  <1>1. \A r \in Requests : request[r].op \in {"issue", "invalidated"} <=>
                            codeRequest[r].op \in {"issue", "invalidated"}
    BY CodeRequestKinds DEF codeRequest, Idle
  <1>2. \A r \in Requests : request[r].op \in {"issue", "invalidated"} => codeRequest[r].code = request[r].code
    BY CodeRequestKinds DEF codeRequest
  <1>5. CodeTable!Running = Running
    BY <1>1, <1>2 DEF CodeTable!Running, Running
  <1>3. CodeTable!Numbered = Numbered
    BY <1>5, SameTable DEF CodeTable!Numbered, Numbered
  <1>4. QED
    BY <1>3, <1>5 DEF CodeTable!NextNumber, NextNumber, CodeTable!Latest, Latest

\* Every step of the sessions is a step of the codes or none.
LEMMA SessionsAsCodes ==
  ASSUME Typed, Next \/ UNCHANGED vars
  PROVE  CodeTable!CodeNext \/ UNCHANGED <<code, codeRequest, guesses, redeemed>>
  <1> DEFINE Goal == CodeTable!CodeNext \/ UNCHANGED <<code, codeRequest, guesses, redeemed>>
  <1>0. \A r \in Requests : codeRequest[r] = CodeRequestOf(request[r])
    BY DEF codeRequest
  <1>1. ASSUME UNCHANGED <<code, guesses, redeemed>>, NEW r \in Requests, NEW step, Proceed(r, step),
               CodeRequestOf(step) = Idle, CodeRequestOf(request[r]) = Idle
        PROVE  Goal
    <2>1. codeRequest' = codeRequest
      BY <1>0, <1>1, CodeProceeds DEF codeRequest
    <2>2. QED
      BY <1>1, <2>1
  <1>2. CASE UNCHANGED vars
    BY <1>2 DEF vars, codeVars, codeRequest
  <1>3. ASSUME NEW r \in Requests, NEW u \in Accounts, IssueRead(r, u, Reset) PROVE Goal
    <2>1. PICK n \in Codes :
            /\ NextNumber(n)
            /\ Proceed(r, [op |-> "issue", user |-> u, purpose |-> Reset, code |-> n])
      BY <1>3 DEF IssueRead
    <2>2. codeRequest[r] = Idle
      BY <1>0, <1>3, CodeRequestKinds DEF IssueRead
    <2> DEFINE step == [op |-> "issue", user |-> u, purpose |-> Reset, code |-> n]
    <2>3. codeRequest' = [codeRequest EXCEPT ![r] = step]
      <3>1. CodeRequestOf(step) = step
        BY CodeRequestKinds
      <3>2. QED
        BY <2>1, <3>1, CodeProceeds
    <2>4. CodeTable!IssueRead(r, u, Reset)
      BY <1>3, <2>1, <2>2, <2>3, SameTable, SameNumbers DEF IssueRead, CodeTable!IssueRead, CodeTable!Proceed
    <2>5. QED
      BY <2>4, SessionsAssumption DEF CodeTable!CodeNext
  <1>4. ASSUME NEW r \in Requests, IssueInvalidate(r) PROVE Goal
    <2> DEFINE q == request[r]
               step == [op |-> "invalidated", user |-> q.user, purpose |-> q.purpose,
                        code |-> q.code, stale |-> Outstanding(q.user, q.purpose),
                        rivals |-> Running]
    <2>1. q.op = "issue" /\ Proceed(r, step) /\ UNCHANGED <<code, guesses, redeemed>>
      BY <1>4 DEF IssueInvalidate
    <2>2. codeRequest[r] = q
      BY <1>0, <2>1, CodeRequestKinds
    <2>3. codeRequest' = [codeRequest EXCEPT ![r] = step]
      <3>1. CodeRequestOf(step) = step
        BY CodeRequestKinds
      <3>2. QED
        BY <2>1, <3>1, CodeProceeds
    <2>4. CodeTable!IssueInvalidate(r)
      BY <2>1, <2>2, <2>3, SameTable, SameNumbers DEF CodeTable!IssueInvalidate, CodeTable!Proceed
    <2>5. QED
      BY <2>4 DEF CodeTable!CodeNext
  <1>5. ASSUME NEW r \in Requests, IssueCommit(r) PROVE Goal
    <2>1. request[r].op = "invalidated" /\ Proceed(r, Idle) /\ UNCHANGED <<guesses, redeemed>>
      BY <1>5 DEF IssueCommit
    <2>2. codeRequest[r] = request[r] /\ codeRequest' = [codeRequest EXCEPT ![r] = Idle]
      BY <1>0, <2>1, CodeRequestKinds, CodeProceeds
    <2>3. code' = [c \in Codes |->
            CASE c = request[r].code -> NewCode(request[r].user, request[r].purpose, r, request[r].rivals)
              [] c \in request[r].stale -> [code[c] EXCEPT !.consumed = TRUE]
              [] OTHER -> code[c]]
      BY <1>5 DEF IssueCommit
    <2>4. CodeTable!IssueCommit(r)
      BY <2>1, <2>2, <2>3, SameTable DEF CodeTable!IssueCommit, CodeTable!Proceed, CodeTable!NewCode, NewCode
    <2>5. QED
      BY <2>4 DEF CodeTable!CodeNext
  <1>6. ASSUME NEW r \in Requests, Abort(r) PROVE Goal
    <2>1. Proceed(r, Idle) /\ UNCHANGED <<code, guesses, redeemed>> /\ CodeRequestOf(Idle) = Idle
      BY <1>6, CodeRequestKinds DEF Abort
    <2>2. CASE codeRequest[r] = Idle
      BY <1>0, <1>1, <2>1, <2>2
    <2>3. CASE codeRequest[r] # Idle
      <3>1. codeRequest' = [codeRequest EXCEPT ![r] = Idle]
        BY <2>1, CodeProceeds
      <3>2. CodeTable!Abort(r)
        BY <2>1, <2>3, <3>1, SameTable DEF CodeTable!Abort, CodeTable!Proceed
      <3>3. QED
        BY <3>2 DEF CodeTable!CodeNext
    <2>4. QED
      BY <2>2, <2>3
  <1>7. ASSUME NEW u \in Accounts, RedeemWrong(u, Reset) PROVE Goal
    <2>1. codeRequest' = codeRequest
      BY <1>7 DEF RedeemWrong, codeRequest
    <2>2. CodeTable!RedeemWrong(u, Reset)
      BY <1>7, <2>1, SameTable DEF RedeemWrong, CodeTable!RedeemWrong
    <2>3. QED
      BY <2>2, SessionsAssumption DEF CodeTable!CodeNext
  <1>8. ASSUME NEW c \in Codes, CodeAges(c) PROVE Goal
    <2>1. codeRequest' = codeRequest
      BY <1>8 DEF CodeAges, codeRequest
    <2>2. CodeTable!CodeAges(c)
      BY <1>8, <2>1, SameTable DEF CodeAges, CodeTable!CodeAges
    <2>3. QED
      BY <2>2, SameTable DEF CodeTable!CodeNext
  <1>9. CASE CodeStep
    BY <1>3, <1>4, <1>5, <1>6, <1>7, <1>8, <1>9 DEF CodeStep
  <1>10. ASSUME NEW r \in Requests, NEW u \in Accounts, ResetRead(r, u) PROVE Goal
    <2>1. PICK c \in Codes : Candidate(u, Reset, c) /\ Proceed(r, [op |-> "end", user |-> u, code |-> c])
      BY <1>10 DEF ResetRead
    <2>2. codeRequest[r] = Idle
      BY <1>0, <1>10, CodeRequestKinds DEF ResetRead
    <2> DEFINE step == [op |-> "end", user |-> u, code |-> c]
    <2>3. codeRequest' = [codeRequest EXCEPT ![r] = [op |-> "redeem", code |-> c]]
      <3>1. c # None
        BY CodesAssumption DEF Codes, None
      <3>2. CodeRequestOf(step) = [op |-> "redeem", code |-> c]
        BY <3>1, CodeRequestKinds
      <3>3. QED
        BY <2>1, <3>2, CodeProceeds
    <2>4. CodeTable!RedeemRead(r, u, Reset)
      BY <1>10, <2>1, <2>2, <2>3, SameTable DEF ResetRead, CodeTable!RedeemRead, CodeTable!Proceed
    <2>5. QED
      BY <2>4, SessionsAssumption DEF CodeTable!CodeNext
  <1>11. ASSUME NEW r \in Requests, EndCommit(r), request[r].code # None PROVE Goal
    <2>1. /\ request[r].op = "ended" /\ Proceed(r, Idle) /\ UNCHANGED guesses
          /\ code' = Consumed(request[r].code)
          /\ redeemed' = [redeemed EXCEPT ![request[r].code] = @ + 1]
      BY <1>11 DEF EndCommit, ResetWrites
    <2>2. /\ codeRequest[r] = [op |-> "redeem", code |-> request[r].code]
          /\ codeRequest' = [codeRequest EXCEPT ![r] = Idle]
      BY <1>0, <1>11, <2>1, CodeRequestKinds, CodeProceeds
    <2>3. CodeTable!RedeemCommit(r)
      BY <2>1, <2>2, SameTable DEF CodeTable!RedeemCommit, CodeTable!Proceed
    <2>4. QED
      BY <2>3 DEF CodeTable!CodeNext
  <1>12. ASSUME NEW r \in Requests,
                SignInCommit(r) \/ RefreshCommit(r) \/ SignOutCommit(r) \/ (EndCommit(r) /\ request[r].code = None)
         PROVE  Goal
    <2>1. /\ Proceed(r, Idle) /\ UNCHANGED <<code, guesses, redeemed>>
          /\ \/ request[r].op \in {"sign_in", "refresh", "sign_out"}
             \/ request[r].op = "ended" /\ request[r].code = None
      BY <1>12 DEF SignInCommit, RefreshCommit, SignOutCommit, EndCommit
    <2>2. CodeRequestOf(request[r]) = Idle /\ CodeRequestOf(Idle) = Idle
      BY <2>1, CodeRequestKinds
    <2>3. QED
      BY <1>1, <2>1, <2>2
  <1>17. ASSUME NEW r \in Requests, RevokeAll(r) PROVE Goal
    <2> DEFINE q == request[r]
               step == [op |-> "ended", user |-> q.user, code |-> q.code, rows |-> RevokedRows(q.user)]
    <2>1. q.op = "end" /\ Proceed(r, step) /\ UNCHANGED <<code, guesses, redeemed>>
      BY <1>17 DEF RevokeAll
    <2>2. CodeRequestOf(step) = CodeRequestOf(q)
      BY <2>1, CodeRequestKinds
    <2>3. codeRequest' = [codeRequest EXCEPT ![r] = CodeRequestOf(step)]
      BY <2>1, CodeProceeds
    <2>5. codeRequest' = codeRequest
      BY <2>2, <2>3 DEF codeRequest
    <2>4. QED
      BY <2>1, <2>5
  <1>13. ASSUME NEW r \in Requests, NEW u \in Accounts, SignInRead(r, u) PROVE Goal
    <2> DEFINE step == [op |-> "sign_in", user |-> u, born |-> ends[u]]
    <2>1. Proceed(r, step) /\ UNCHANGED <<code, guesses, redeemed>> /\ request[r] = Idle
      BY <1>13 DEF SignInRead
    <2>2. CodeRequestOf(step) = Idle /\ CodeRequestOf(request[r]) = Idle
      BY <2>1, CodeRequestKinds
    <2>3. QED
      BY <1>1, <2>1, <2>2
  <1>14. ASSUME NEW r \in Requests, NEW s \in SessionIds, NEW t \in SessionIds \cup {All},
                RefreshRead(r, s) \/ ChangeRead(r, s) \/ SignOutRead(r, s, t)
         PROVE  Goal
    <2>1. PICK step : /\ step.op \in {"refresh", "sign_out"} \/ (step.op = "end" /\ step.code = None)
                      /\ Proceed(r, step)
                      /\ UNCHANGED <<code, guesses, redeemed>> /\ request[r] = Idle
      <3>1. CASE RefreshRead(r, s)
        BY <3>1 DEF RefreshRead
      <3>2. CASE ChangeRead(r, s)
        BY <3>2 DEF ChangeRead
      <3>3. CASE SignOutRead(r, s, t)
        BY <3>3 DEF SignOutRead
      <3>4. QED
        BY <1>14, <3>1, <3>2, <3>3
    <2>2. CodeRequestOf(step) = Idle /\ CodeRequestOf(request[r]) = Idle
      BY <2>1, CodeRequestKinds
    <2>3. QED
      BY <1>1, <2>1, <2>2
  <1>15. CASE UNCHANGED codeVars
    BY <1>15 DEF codeVars, codeRequest
  <1>16. QED
    BY <1>2, <1>9, <1>10, <1>11, <1>12, <1>13, <1>14, <1>15, <1>17 DEF Next, SignInWrong, Bar, RefreshReplayed,
       SessionExpires

\* Sign-in, rotation, sign-out and reset implement the table of codes: a reset is one redemption,
\* whatever else it writes and whichever requests share the connection pool with it.
THEOREM ImplementsCodes == Spec => CodeTable!CodeSpec
  <1>1. Init => CodeTable!CodeInit
    <2>1. Init => codeRequest = [r \in Requests |-> Idle]
      BY CodeRequestKinds DEF Init, CodeInit, codeRequest
    <2>2. QED
      BY <2>1, SameTable DEF Init, CodeInit, CodeTable!CodeInit
  <1>2. Typed /\ [Next]_vars => [CodeTable!CodeNext]_(CodeTable!codeVars)
    BY SessionsAsCodes DEF CodeTable!codeVars
  <1>3. QED
    BY <1>1, <1>2, TypedHolds, PTL DEF Spec, CodeTable!CodeSpec

\* The promises of the codes hold among sessions too: no reset brings a consumed code back, and none
\* lets through more requests than overlap, nor more codes be acceptable, nor an older one unless
\* it was being issued meanwhile.
THEOREM CodesKeepTheirPromises ==
  Spec => ConsumedForever /\ []OutstandingBounded /\ []NewestOnly /\ []RedemptionsBounded
  <1>1. CodeTable!CodeSpec => []CodeTable!OutstandingBounded
    BY TableAssumptions, CodeTable!OutstandingBoundedHolds
  <1>2. CodeTable!CodeSpec => []CodeTable!RedemptionsBounded
    BY TableAssumptions, CodeTable!RedemptionsBoundedHolds
  <1>3. CodeTable!CodeSpec => CodeTable!ConsumedForever
    BY TableAssumptions, CodeTable!ConsumedForeverHolds
  <1>4. \A S : CodeTable!Cardinality(S) = Cardinality(S)
    BY DEF CodeTable!Cardinality, Cardinality
  <1>5. CodeTable!OutstandingBounded => OutstandingBounded
    BY <1>4, SameTable DEF CodeTable!OutstandingBounded, OutstandingBounded
  <1>6. CodeTable!RedemptionsBounded => RedemptionsBounded
    BY <1>4, SameTable DEF CodeTable!RedemptionsBounded, RedemptionsBounded
  <1>7. [\A c \in CodeTable!Issued : code[c].consumed => code'[c] # NoRow /\ code'[c].consumed]_(CodeTable!codeVars)
          => [\A c \in Issued : code[c].consumed => code'[c] # NoRow /\ code'[c].consumed]_codeVars
    <2>1. UNCHANGED CodeTable!codeVars =>
            \A c \in Issued : code[c].consumed => code'[c] # NoRow /\ code'[c].consumed
      BY DEF CodeTable!codeVars, Issued
    <2>2. QED
      BY <2>1, SameTable
  <1>8. CodeTable!CodeSpec => []CodeTable!NewestOnly
    BY TableAssumptions, CodeTable!NewestCodeOnly
  <1>9. CodeTable!NewestOnly => NewestOnly
    BY SameTable DEF CodeTable!NewestOnly, NewestOnly
  <1>10. QED
    BY <1>1, <1>2, <1>3, <1>5, <1>6, <1>7, <1>8, <1>9, ImplementsCodes, PTL DEF ConsumedForever, CodeTable!ConsumedForever
=============================================================================
