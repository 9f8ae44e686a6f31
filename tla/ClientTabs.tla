----------------------------- MODULE ClientTabs -----------------------------
(***************************************************************************)
(* The browser's side of a session: tabs that share one token pair through *)
(* localStorage, each with a copy of the access token in memory, API calls *)
(* that refresh the pair when they are refused, and the server as these    *)
(* calls see it: exchanges overlap, so that two of one token may both      *)
(* succeed; any other request is a single step (Sessions has it in full).  *)
(*                                                                         *)
(* A token stands for its refresh_session row: the access token and the    *)
(* refresh token of a pair carry the same number, 0 stands for none.       *)
(* Everything a tab does between two awaits is one action.                 *)
(***************************************************************************)
EXTENDS Naturals, FiniteSets

CONSTANTS
  Tabs,
  Calls,      \* places for an API call in flight
  TabOf,      \* TabOf[c]: the tab that makes call c
  MaxTokens   \* bound: token pairs the server issues

VARIABLES
  stored,     \* the pair in localStorage
  memory,     \* memory[t]: accessTokenInMemory of tab t
  signedIn,   \* signedIn[t]: hasStoredSession of tab t
  refresh,    \* refresh[t]: inFlightRefresh of tab t
  call,       \* call[c]: where an API call is
  issued,     \* the server: tokens issued so far
  live,       \* the server: tokens whose row is not revoked and not expired
  fresh,      \* the server: tokens whose access token has not expired
  gone,       \* history: tokens that ended on the server by themselves, or were replaced or
              \* signed out for a tab that no longer listened
  signedOut   \* history: the last to change the session was a sign-out, with no refresh under way

serverVars == <<issued, live, fresh>>
vars == <<stored, memory, signedIn, refresh, call, serverVars, gone, signedOut>>

Tokens == 1..MaxTokens
None == 0
AnyToken == Tokens \cup {None}

ASSUME ClientAssumption ==
  /\ MaxTokens \in Nat /\ TabOf \in [Calls -> Tabs] /\ IsFiniteSet(Calls)

\* token: the access token sent; body: the refresh token a sign-out names.
Call == [at : {"sent", "served", "refused", "waiting"}, kind : {"api", "sign_out"},
         token : AnyToken, body : AnyToken, retried : BOOLEAN]
NoCall == [at |-> "idle"]
Refresh == [at : {"sent", "admitted", "answered"}, token : Tokens, got : AnyToken]
NoRefresh == [at |-> "none"]

TypeOK ==
  /\ stored \in AnyToken
  /\ memory \in [Tabs -> AnyToken]
  /\ signedIn \in [Tabs -> BOOLEAN]
  /\ refresh \in [Tabs -> Refresh \cup {NoRefresh}]
  /\ call \in [Calls -> Call \cup {NoCall}]
  /\ issued \in 0..MaxTokens
  /\ live \subseteq 1..issued /\ fresh \subseteq 1..issued /\ gone \subseteq 1..issued
  /\ signedOut \in BOOLEAN
  /\ \A c \in Calls : call[c].at = "waiting" => refresh[TabOf[c]] # NoRefresh

Init ==
  /\ stored = None
  /\ memory = [t \in Tabs |-> None]
  /\ signedIn = [t \in Tabs |-> FALSE]
  /\ refresh = [t \in Tabs |-> NoRefresh]
  /\ call = [c \in Calls |-> NoCall]
  /\ issued = 0 /\ live = {} /\ fresh = {}
  /\ gone = {} /\ signedOut = FALSE

CallsOf(t) == {c \in Calls : TabOf[c] = t}
Active == {c \in Calls : call[c] # NoCall}

\* Every call refreshes at most once: a call, and a sign-in, start only while tokens are left.
TokensLeft == issued + Cardinality(Active) < MaxTokens

\* readAccessToken.
Access(t) == IF memory[t] # None THEN memory[t] ELSE stored

\* storeTokenPair and clearStoredTokens: storage and the tab's own copy together.
Store(t, token) ==
  /\ stored' = token
  /\ memory' = [memory EXCEPT ![t] = token]

\* Slip: the refresh token stays behind in storage.
ClearMemory(t) ==
  /\ memory' = [memory EXCEPT ![t] = None]
  /\ UNCHANGED stored

Clear(t) ==
  /\ memory' = [memory EXCEPT ![t] = None]
  /\ stored' = None

\* clearStoredTokens and notifySessionExpired.
Expire(t) ==
  /\ Clear(t)
  /\ signedIn' = [signedIn EXCEPT ![t] = FALSE]

RefreshUnderWay == \E t \in Tabs : refresh[t] # NoRefresh

(***************************************************************************)
(* The member.                                                             *)
(***************************************************************************)
SignIn(t) ==
  /\ ~signedIn[t]
  /\ TokensLeft
  /\ issued' = issued + 1
  /\ live' = live \cup {issued'} /\ fresh' = fresh \cup {issued'}
  /\ Store(t, issued')
  /\ signedIn' = [signedIn EXCEPT ![t] = TRUE]
  /\ signedOut' = FALSE
  /\ UNCHANGED <<refresh, call, gone>>

Start(c, kind) ==
  LET t == TabOf[c] IN
  /\ signedIn[t] /\ call[c] = NoCall
  /\ TokensLeft
  /\ memory' = [memory EXCEPT ![t] = Access(t)]
  /\ call' = [call EXCEPT ![c] =
       [at |-> "sent", kind |-> kind, token |-> Access(t),
        body |-> IF kind = "sign_out" THEN stored ELSE None, retried |-> FALSE]]
  /\ UNCHANGED <<stored, signedIn, refresh, serverVars, gone, signedOut>>

\* A tab is reloaded, or closed and opened again: what it awaited is forgotten, and the answer to
\* a refresh or a sign-out of its is lost; the request itself either came through before or never does.
Reload(t) ==
  /\ memory' = [memory EXCEPT ![t] = None]
  /\ signedIn' = [signedIn EXCEPT ![t] = (stored # None)]
  /\ refresh' = [refresh EXCEPT ![t] = NoRefresh]
  /\ call' = [c \in Calls |-> IF TabOf[c] = t THEN NoCall ELSE call[c]]
  /\ gone' = gone
       \cup {k \in Tokens : refresh[t].at = "answered" /\ refresh[t].token = k}
       \cup {k \in Tokens : \E c \in CallsOf(t) \cap Active :
                               call[c].kind = "sign_out" /\ call[c].body = k}
  /\ UNCHANGED <<stored, serverVars, signedOut>>

(***************************************************************************)
(* The server and the network.                                             *)
(***************************************************************************)
\* A sign-out that names no refresh token ends every session.
Answer(c) ==
  LET q == call[c]
      ok == q.token \in live \cap fresh
  IN
  /\ q.at = "sent"
  /\ call' = [call EXCEPT ![c].at = IF ok THEN "served" ELSE "refused"]
  /\ live' = IF ~ok \/ q.kind = "api" THEN live
             ELSE IF q.body = None THEN {} ELSE live \ {q.body}
  /\ gone' = IF ok /\ q.kind = "sign_out" /\ q.body = None THEN gone \cup live ELSE gone
  /\ UNCHANGED <<stored, memory, signedIn, refresh, issued, fresh, signedOut>>

\* The exchange reads the row, and is refused if that is revoked or expired.
CheckRefresh(t) ==
  /\ refresh[t].at = "sent"
  /\ refresh' = [refresh EXCEPT
       ![t].at = IF refresh[t].token \in live THEN "admitted" ELSE "answered"]
  /\ UNCHANGED <<stored, memory, signedIn, call, serverVars, gone, signedOut>>

\* It commits the new row and the revocation of the one it read, whatever became of that meanwhile.
AnswerRefresh(t) ==
  /\ refresh[t].at = "admitted"
  /\ issued' = issued + 1
  /\ live' = (live \ {refresh[t].token}) \cup {issued'}
  /\ fresh' = fresh \cup {issued'}
  /\ refresh' = [refresh EXCEPT ![t].at = "answered", ![t].got = issued']
  /\ UNCHANGED <<stored, memory, signedIn, call, gone, signedOut>>

AccessExpires(k) ==
  /\ k \in fresh
  /\ fresh' = fresh \ {k}
  /\ UNCHANGED <<stored, memory, signedIn, refresh, call, issued, live, gone, signedOut>>

\* The password is changed elsewhere, an administrator acts, thirty days pass.
SessionEnds(k) ==
  /\ k \in live
  /\ live' = live \ {k}
  /\ gone' = gone \cup {k}
  /\ UNCHANGED <<stored, memory, signedIn, refresh, call, issued, fresh, signedOut>>

(***************************************************************************)
(* A call comes back.                                                      *)
(***************************************************************************)
\* A sign-out drops the credentials whatever became of its request.
Return(c) ==
  LET t == TabOf[c] IN
  /\ call' = [call EXCEPT ![c] = NoCall]
  /\ IF call[c].kind = "sign_out"
       THEN Expire(t) /\ signedOut' = ~RefreshUnderWay
       ELSE UNCHANGED <<stored, memory, signedIn, signedOut>>
  /\ UNCHANGED <<refresh, serverVars, gone>>

Served(c) == call[c].at = "served" /\ Return(c)

\* fetch rejects: the request or its answer was lost.
Lost(c) == call[c].at \in {"sent", "served", "refused"} /\ Return(c)

\* The second refusal, or nothing to refresh with.
GiveUp(c) ==
  LET t == TabOf[c] IN
  /\ call[c].at = "refused"
  /\ call[c].retried \/ (refresh[t] = NoRefresh /\ stored = None)
  /\ call' = [call EXCEPT ![c] = NoCall]
  /\ Expire(t)
  /\ signedOut' = IF call[c].kind = "sign_out" THEN ~RefreshUnderWay ELSE signedOut
  /\ UNCHANGED <<refresh, serverVars, gone>>

\* refreshAccessToken: one exchange at a time in this tab.
AskForRefresh(c) ==
  LET t == TabOf[c] IN
  /\ call[c].at = "refused" /\ ~call[c].retried
  /\ \/ /\ refresh[t] # NoRefresh
        /\ UNCHANGED refresh
     \/ /\ refresh[t] = NoRefresh /\ stored # None
        /\ refresh' = [refresh EXCEPT ![t] = [at |-> "sent", token |-> stored, got |-> None]]
  /\ call' = [call EXCEPT ![c].at = "waiting"]
  /\ UNCHANGED <<stored, memory, signedIn, serverVars, gone, signedOut>>

(***************************************************************************)
(* A refresh comes back: the calls that waited for it go on.               *)
(***************************************************************************)
Waiting(t) == {c \in CallsOf(t) : call[c].at = "waiting"}

\* Slip: the refresh wakes only the call that asked for it.
ResumedOne(t, token) ==
  [c \in Calls |-> IF c = CHOOSE w \in Waiting(t) : TRUE
     THEN [call[c] EXCEPT !.at = "sent", !.token = token, !.retried = TRUE] ELSE call[c]]

Resumed(t, token) ==
  [c \in Calls |-> IF c \in Waiting(t)
     THEN [call[c] EXCEPT !.at = "sent", !.token = token, !.retried = TRUE] ELSE call[c]]

RefreshSucceeds(t) ==
  /\ refresh[t].at = "answered" /\ refresh[t].got # None
  /\ Store(t, refresh[t].got)
  /\ refresh' = [refresh EXCEPT ![t] = NoRefresh]
  /\ call' = Resumed(t, refresh[t].got)
  /\ UNCHANGED <<signedIn, serverVars, gone, signedOut>>

Abandoned(t) == [c \in Calls |-> IF c \in Waiting(t) THEN NoCall ELSE call[c]]

\* clearStoredTokens and notifySessionExpired, once for each call that waited; one of them may be the sign-out.
Abandon(t) ==
  /\ Expire(t)
  /\ refresh' = [refresh EXCEPT ![t] = NoRefresh]
  /\ call' = Abandoned(t)
  /\ signedOut' = IF \E c \in Waiting(t) : call[c].kind = "sign_out"
                    THEN \A u \in Tabs \ {t} : refresh[u] = NoRefresh ELSE signedOut
  /\ UNCHANGED <<serverVars, gone>>

\* Slip: the exchange goes through the wrapper of the API calls, and its own refusal waits for
\* the refresh under way: for itself.
FailsUnlessRefused(t) == refresh[t].at = "sent" /\ Abandon(t)

\* Slip: the pair is kept for another try.
FailsKeepingTokens(t) ==
  /\ refresh[t] # NoRefresh
  /\ refresh' = [refresh EXCEPT ![t] = NoRefresh]
  /\ call' = Abandoned(t)
  /\ UNCHANGED <<stored, memory, signedIn, serverVars, gone, signedOut>>

\* The exchange was refused, or fetch rejected, which it may at any point.
RefreshFails(t) == refresh[t] # NoRefresh /\ Abandon(t)

ComeBack(c) == Served(c) \/ GiveUp(c) \/ AskForRefresh(c)
RefreshComesBack(t) == RefreshSucceeds(t) \/ RefreshFails(t)

Next ==
  \/ \E t \in Tabs : SignIn(t) \/ Reload(t) \/ CheckRefresh(t) \/ AnswerRefresh(t) \/ RefreshComesBack(t)
  \/ \E c \in Calls :
       \/ \E kind \in {"api", "sign_out"} : Start(c, kind)
       \/ Answer(c)
       \/ ComeBack(c)
       \/ Lost(c)
  \/ \E k \in Tokens : AccessExpires(k) \/ SessionEnds(k)

Spec == Init /\ [][Next]_vars

\* fetch settles, and the code behind an await runs.
FairSpec ==
  /\ Spec
  /\ \A c \in Calls : WF_vars(Answer(c)) /\ WF_vars(ComeBack(c))
  /\ \A t \in Tabs : /\ WF_vars(CheckRefresh(t)) /\ WF_vars(AnswerRefresh(t))
                     /\ WF_vars(RefreshComesBack(t))

(***************************************************************************)
(* Properties.                                                             *)
(***************************************************************************)
\* What the tabs share is a session the server still knows, or somebody is about to replace or
\* drop it, or it ended on the server: no order of answers to several tabs leaves a pair in
\* storage that was already exchanged or signed out.
StoredIsUsable ==
  stored # None =>
    \/ stored \in live \cup gone
    \/ \E t \in Tabs : refresh[t] # NoRefresh /\ refresh[t].token = stored
    \/ \E c \in Active : call[c].kind = "sign_out" /\ call[c].body = stored

\* A member who signed out while no tab was refreshing stays signed out until they sign in: no
\* refused call of another tab brings a pair back into storage (tokenStorage.ts:14).
SignedOutStaysOut == signedOut => stored = None

\* Every API call ends: no call waits for a refresh that waits for it, whatever is refused, lost
\* or abandoned.
EveryCallEnds == \A c \in Calls : (call[c] # NoCall) ~> (call[c] = NoCall)
=============================================================================
