----------------------------- MODULE Sessions ------------------------------
(***************************************************************************)
(* Sign-in, rotation of refresh tokens, sign-out and password changes.     *)
(*                                                                         *)
(* As in VerificationCodes, a request reads, then writes and commits, and  *)
(* other requests run in between.  Of a transaction's writes here only     *)
(* bulk revocation depends on other rows: RevokeAll is the statement, and  *)
(* a row committed between it and its commit escapes it.  All the other    *)
(* writes of a transaction are one action with its commit.                 *)
(*                                                                         *)
(* A token is its row.  Passwords are abstracted to how often the account  *)
(* had every session ended (password changed or reset, signed out          *)
(* everywhere): a sign-in that verified the password before the change was *)
(* committed is one that remembers an older count.                         *)
(***************************************************************************)
EXTENDS VerificationCodes

Reset == "password_reset"

CONSTANTS
  MaxSessions,        \* bound: refresh_session rows in a behaviour
  MaxEnds,            \* bound: requests to end every session, per account
  MaxFailedAttempts   \* MAX_FAILED_ATTEMPTS

ASSUME SessionsAssumption ==
  /\ MaxSessions \in Nat /\ MaxEnds \in Nat /\ MaxFailedAttempts \in Nat \ {0}
  /\ Reset \in Purposes

VARIABLES
  session,    \* the refresh_session table
  barred,     \* accounts that are SUSPENDED or REJECTED
  failed,     \* failed_login_count
  locked,     \* locked_until is in the future
  ends,       \* history: committed requests to end every session
  wrong,      \* history: consecutive wrong passwords
  replayed    \* history: a rotated token was presented since the last sign-in

accountVars == <<barred, failed, locked>>
historyVars == <<ends, wrong, replayed>>
sessionVars == <<session, accountVars, historyVars>>
vars == <<codeVars, sessionVars>>

SessionIds == 1..MaxSessions
None == 0
All == 0

\* parent, signIn, born and raced are history: the row this one replaced, the row the
\* chain of replacements started with, the account's count of ends when the password
\* was verified, and whether the request that wrote this row or one before it in the
\* chain overlapped a request that ended every session.
SessionRow ==
  [user : Accounts, revoked : BOOLEAN, expired : BOOLEAN, rotatedTo : SessionIds \cup {None},
   parent : SessionIds \cup {None}, signIn : SessionIds, born : 0..MaxEnds, raced : BOOLEAN]

ASSUME NoSessionAssumption == NoRow \notin SessionRow

\* seen is history: the account's count of ends when the token was looked up.  A request
\* to end every session remembers the code it redeemed, if it is a reset.
SessionRequest ==
  [op : {"sign_in"}, user : Accounts, born : 0..MaxEnds]
  \cup [op : {"refresh"}, session : SessionIds, seen : 0..MaxEnds]
  \cup [op : {"sign_out"}, token : SessionIds]
  \cup [op : {"end"}, user : Accounts, code : Codes \cup {None}]
  \cup [op : {"ended"}, user : Accounts, code : Codes \cup {None}, rows : SUBSET SessionIds]

SessionsTypeOK ==
  /\ code \in [Codes -> CodeRow \cup {NoRow}]
  /\ request \in [Requests -> CodeRequest \cup SessionRequest \cup {Idle}]
  /\ guesses \in [Codes -> 0..MaxAttempts]
  /\ redeemed \in [Codes -> Nat]
  /\ session \in [SessionIds -> SessionRow \cup {NoRow}]
  /\ barred \in SUBSET Accounts
  /\ failed \in [Accounts -> 0..MaxFailedAttempts]
  /\ locked \in [Accounts -> BOOLEAN]
  /\ ends \in [Accounts -> 0..MaxEnds]
  /\ wrong \in [Accounts -> 0..MaxFailedAttempts]
  /\ replayed \in [Accounts -> BOOLEAN]

Init ==
  /\ CodeInit
  /\ session = [s \in SessionIds |-> NoRow]
  /\ barred = {}
  /\ failed = [u \in Accounts |-> 0]
  /\ locked = [u \in Accounts |-> FALSE]
  /\ ends = [u \in Accounts |-> 0]
  /\ wrong = [u \in Accounts |-> 0]
  /\ replayed = [u \in Accounts |-> FALSE]

Opened == {s \in SessionIds : session[s] # NoRow}
SessionsOf(u) == {s \in Opened : session[s].user = u}
Active(s) == ~session[s].revoked /\ ~session[s].expired
Replacements(s) == {n \in Opened : session[n].parent = s}
Refreshing(s) == {r \in Requests : request[r].op = "refresh" /\ request[r].session = s}

\* require_account: the access token's row is not revoked, the account not barred.
Authenticated(s) == ~session[s].revoked /\ session[s].user \notin barred

\* _create_refresh_session: the next row of the table.
Free(n) == n \in SessionIds \ Opened /\ \A s \in SessionIds \ Opened : n <= s

\* The bounds, tested where a request starts so that none starts in vain.
RowsLeft == Opened # SessionIds
EndsLeft(u) == ends[u] < MaxEnds

\* A request that revoked every session of u has yet to commit.
Ending(u) == \E r \in Requests : request[r].op = "ended" /\ request[r].user = u

\* Slip: the row is inserted without its owner.
NewRowUnowned(u, parent, signIn, born, raced) ==
  [user |-> NoRow, revoked |-> FALSE, expired |-> FALSE, rotatedTo |-> None,
   parent |-> parent, signIn |-> signIn, born |-> born, raced |-> raced]

NewRow(u, parent, signIn, born, raced) ==
  [user |-> u, revoked |-> FALSE, expired |-> FALSE, rotatedTo |-> None,
   parent |-> parent, signIn |-> signIn, born |-> born, raced |-> raced]
-----------------------------------------------------------------------------
(***************************************************************************)
(* sign_in.                                                                *)
(***************************************************************************)
SignInRead(r, u) ==
  /\ request[r] = Idle
  /\ ~locked[u]
  /\ u \notin barred
  /\ RowsLeft
  /\ Proceed(r, [op |-> "sign_in", user |-> u, born |-> ends[u]])
  /\ UNCHANGED <<code, guesses, redeemed, sessionVars>>

SignInCommit(r) ==
  LET q == request[r] IN
  /\ q.op = "sign_in"
  /\ \E n \in SessionIds :
       /\ Free(n)
       /\ session' = [session EXCEPT ![n] = NewRow(q.user, None, n, q.born,
                                         q.born # ends[q.user] \/ Ending(q.user))]
  /\ failed' = [failed EXCEPT ![q.user] = 0]
  /\ locked' = [locked EXCEPT ![q.user] = FALSE]
  /\ wrong' = [wrong EXCEPT ![q.user] = 0]
  /\ replayed' = [replayed EXCEPT ![q.user] = FALSE]
  /\ Proceed(r, Idle)
  /\ UNCHANGED <<code, guesses, redeemed, barred, ends>>

\* The failure is counted, perhaps the account locked, flushed - and rolled back by
\* the exception that reports it.
SignInWrong(u) ==
  /\ ~locked[u]
  /\ wrong[u] < MaxFailedAttempts
  /\ wrong' = [wrong EXCEPT ![u] = @ + 1]
  /\ UNCHANGED <<codeVars, session, accountVars, ends, replayed>>
-----------------------------------------------------------------------------
(***************************************************************************)
(* refresh: the row presented is revoked and points to its replacement.    *)
(***************************************************************************)
RefreshRead(r, s) ==
  /\ request[r] = Idle
  /\ s \in Opened
  /\ Active(s)
  /\ session[s].user \notin barred
  /\ RowsLeft
  /\ Proceed(r, [op |-> "refresh", session |-> s, seen |-> ends[session[s].user]])
  /\ UNCHANGED <<code, guesses, redeemed, sessionVars>>

\* Slip: the row presented is written back as it was read, linked to its replacement.
RotatedAsRead(s, n, raced) ==
  [session EXCEPT ![s].revoked = FALSE, ![s].rotatedTo = n,
                  ![n] = NewRow(session[s].user, s, session[s].signIn, session[s].born, raced)]

Rotated(s, n, raced) ==
  [session EXCEPT ![s].revoked = TRUE, ![s].rotatedTo = n,
                  ![n] = NewRow(session[s].user, s, session[s].signIn, session[s].born, raced)]

RefreshCommit(r) ==
  LET s == request[r].session
      u == session[s].user IN
  /\ request[r].op = "refresh"
  /\ \E n \in SessionIds :
       /\ Free(n)
       /\ session' = Rotated(s, n, session[s].raced \/ request[r].seen # ends[u] \/ Ending(u))
  /\ Proceed(r, Idle)
  /\ UNCHANGED <<code, guesses, redeemed, accountVars, historyVars>>

\* A rotated token comes back: every session of the account is revoked - and the
\* exception that refuses the request rolls the revocation back.
RefreshReplayed(s) ==
  /\ s \in Opened
  /\ ~Active(s)
  /\ session[s].rotatedTo # None
  /\ replayed' = [replayed EXCEPT ![session[s].user] = TRUE]
  /\ UNCHANGED <<codeVars, session, accountVars, ends, wrong>>
-----------------------------------------------------------------------------
(***************************************************************************)
(* sign_out, change_password, reset_password.                              *)
(***************************************************************************)

\* s carries the access token, t is the refresh token to end; All when the request
\* asks for every session or names no token.
SignOutRead(r, s, t) ==
  /\ request[r] = Idle
  /\ s \in Opened
  /\ Authenticated(s)
  /\ \/ t \in SessionsOf(session[s].user) /\ Proceed(r, [op |-> "sign_out", token |-> t])
     \/ /\ t = All
        /\ EndsLeft(session[s].user)
        /\ Proceed(r, [op |-> "end", user |-> session[s].user, code |-> None])
  /\ UNCHANGED <<code, guesses, redeemed, sessionVars>>

\* The current password is verified with the account that require_account read.
ChangeRead(r, s) ==
  /\ request[r] = Idle
  /\ s \in Opened
  /\ Authenticated(s)
  /\ EndsLeft(session[s].user)
  /\ Proceed(r, [op |-> "end", user |-> session[s].user, code |-> None])
  /\ UNCHANGED <<code, guesses, redeemed, sessionVars>>

ResetRead(r, u) ==
  /\ request[r] = Idle
  /\ EndsLeft(u)
  /\ \E c \in Codes :
       Candidate(u, Reset, c) /\ Proceed(r, [op |-> "end", user |-> u, code |-> c])
  /\ UNCHANGED <<code, guesses, redeemed, sessionVars>>

\* Slip: the newest session is taken for the one asking, and kept.
OtherSessions(u) == {s \in SessionsOf(u) : \E t \in SessionsOf(u) : s < t}

\* _revoke_all_sessions: one UPDATE, which sees the rows committed when it runs.
RevokedRows(u) == SessionsOf(u)

RevokeAll(r) ==
  LET q == request[r] IN
  /\ q.op = "end"
  /\ Proceed(r, [op |-> "ended", user |-> q.user, code |-> q.code, rows |-> RevokedRows(q.user)])
  /\ UNCHANGED <<code, guesses, redeemed, sessionVars>>

Revoked(S) ==
  [s \in SessionIds |-> IF s \in S THEN [session[s] EXCEPT !.revoked = TRUE] ELSE session[s]]

SignOutCommit(r) ==
  /\ request[r].op = "sign_out"
  /\ session' = Revoked({request[r].token})
  /\ Proceed(r, Idle)
  /\ UNCHANGED <<code, guesses, redeemed, accountVars, historyVars>>

\* What a reset writes besides: its code is used up, and the lock is lifted.
ResetWrites(u, c) ==
  /\ code' = Consumed(c)
  /\ redeemed' = [redeemed EXCEPT ![c] = @ + 1]
  /\ failed' = [failed EXCEPT ![u] = 0]
  /\ locked' = [locked EXCEPT ![u] = FALSE]
  /\ wrong' = [wrong EXCEPT ![u] = 0]

EndCommit(r) ==
  LET q == request[r] IN
  /\ q.op = "ended"
  /\ EndsLeft(q.user)
  /\ session' = Revoked(q.rows)
  /\ ends' = [ends EXCEPT ![q.user] = @ + 1]
  /\ \/ q.code # None /\ ResetWrites(q.user, q.code)
     \/ q.code = None /\ UNCHANGED <<code, redeemed, failed, locked, wrong>>
  /\ Proceed(r, Idle)
  /\ UNCHANGED <<guesses, barred, replayed>>
-----------------------------------------------------------------------------
\* change_account_status, as far as sessions see it: no row of theirs is touched.
Bar(u) ==
  /\ barred' = IF u \in barred THEN barred \ {u} ELSE barred \cup {u}
  /\ UNCHANGED <<codeVars, session, failed, locked, historyVars>>

SessionExpires(s) ==
  /\ s \in Opened
  /\ session' = [session EXCEPT ![s].expired = TRUE]
  /\ UNCHANGED <<codeVars, accountVars, historyVars>>

\* The codes of VerificationCodes that a reset redeems.
CodeStep ==
  /\ \/ \E r \in Requests :
          \/ IssueInvalidate(r)
          \/ IssueCommit(r)
          \/ Abort(r)
          \/ \E u \in Accounts : IssueRead(r, u, Reset)
     \/ \E u \in Accounts : RedeemWrong(u, Reset)
     \/ \E c \in Codes : CodeAges(c)
  /\ UNCHANGED sessionVars

Next ==
  \/ CodeStep
  \/ \E r \in Requests :
       \/ SignInCommit(r)
       \/ RefreshCommit(r)
       \/ SignOutCommit(r)
       \/ RevokeAll(r)
       \/ EndCommit(r)
       \/ \E u \in Accounts : SignInRead(r, u) \/ ResetRead(r, u)
       \/ \E s \in SessionIds :
            \/ RefreshRead(r, s)
            \/ ChangeRead(r, s)
            \/ \E t \in SessionIds \cup {All} : SignOutRead(r, s, t)
  \/ \E u \in Accounts : SignInWrong(u) \/ Bar(u)
  \/ \E s \in SessionIds : RefreshReplayed(s) \/ SessionExpires(s)

Spec == Init /\ [][Next]_vars
-----------------------------------------------------------------------------
(***************************************************************************)
(* Properties.                                                             *)
(***************************************************************************)

\* A refresh token is exchanged at most once by each of the requests that overlap: those that
\* replaced it and those about to are never more, so none starts once an exchange is committed.
RotationsBounded ==
  \A s \in Opened :
    Cardinality(Replacements(s)) + Cardinality(Refreshing(s)) <= Cardinality(Requests)

\* Replacing keeps the account and the sign-in, revokes what it replaces, and the
\* replaced row points to a replacement, however overlapping requests write it.
ReplacementsFollow ==
  \A n \in Opened :
    LET s == session[n].parent IN
      IF s = None THEN session[n].signIn = n
      ELSE /\ s \in Opened
           /\ session[s].revoked
           /\ session[s].rotatedTo \in Replacements(s)
           /\ session[s].user = session[n].user
           /\ session[s].signIn = session[n].signIn

\* Nothing brings a revoked session back: not a late rotation, not a status change.
RevokedForever ==
  [][\A s \in Opened : session[s].revoked => session'[s] # NoRow /\ session'[s].revoked]_vars

\* Changing or resetting the password, or signing out everywhere, ends every session of the account:
\* what is live was signed in to afterwards, unless a sign-in or a rotation in its chain overlapped
\* one of those requests and committed its row behind the back of the revocation.
NoSessionOutlivesItsEnd ==
  \A s \in Opened :
    ~session[s].revoked /\ ~session[s].raced => session[s].born = ends[session[s].user]

\* Rotation: one sign-in has one session at a time, unless overlapping requests presented the same
\* token and each replaced it.
OneSessionPerSignIn ==
  \A s, t \in Opened :
    ~session[s].revoked /\ ~session[t].revoked /\ session[s].signIn = session[t].signIn =>
      \/ s = t
      \/ \E p \in Opened : /\ session[p].signIn = session[s].signIn
                           /\ \E n, m \in Replacements(p) : n # m

\* The module's opening sentence: a rotated token presented again revokes every
\* session of its account.
ReplayEndsEverySession ==
  \A u \in Accounts : replayed[u] => \A s \in SessionsOf(u) : session[s].revoked

\* Consecutive failures lock the account.  It does not hold, for the reason
\* ReplayEndsEverySession does not (README, section 11).
FailuresLock == \A u \in Accounts : wrong[u] >= MaxFailedAttempts => locked[u]
=============================================================================
