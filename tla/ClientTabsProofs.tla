-------------------------- MODULE ClientTabsProofs --------------------------
(***************************************************************************)
(* Proofs about ClientTabs, for any tabs, any finite set of calls and any  *)
(* number of token pairs.                                                  *)
(***************************************************************************)
EXTENDS ClientTabs, FiniteSetTheorems, TLAPS

(***************************************************************************)
(* The invariants behind the properties.                                   *)
(***************************************************************************)
\* Nobody holds a token that was not issued, and an exchange yields one only when answered.
TokensKnown ==
  /\ stored <= issued
  /\ \A t \in Tabs : refresh[t] # NoRefresh =>
       /\ refresh[t].token <= issued /\ refresh[t].got <= issued
       /\ refresh[t].at # "answered" => refresh[t].got = None
  /\ \A c \in Active : call[c].body <= issued

\* The answer to an exchange is known to nobody before it is stored, and only the server ends it.
AnswersUnseen ==
  \A t \in Tabs : refresh[t] # NoRefresh /\ refresh[t].got # None =>
    /\ refresh[t].got \in live \cup gone
    /\ refresh[t].got # stored
    /\ \A u \in Tabs : refresh[u] # NoRefresh =>
         refresh[u].token # refresh[t].got /\ (u # t => refresh[u].got # refresh[t].got)
    /\ \A c \in Active : call[c].body # refresh[t].got

\* StoredIsUsable with the exchange already answered: what a reload forgets is then history.
StoredAccounted ==
  stored # None =>
    \/ stored \in live \cup gone
    \/ \E t \in Tabs : refresh[t] # NoRefresh /\ refresh[t].at = "answered" /\ refresh[t].token = stored
    \/ \E c \in Active : call[c].kind = "sign_out" /\ call[c].body = stored

\* No exchange is under way after a sign-out, so none can bring a pair back.
SignedOutQuiet == signedOut => stored = None /\ ~RefreshUnderWay

WaitingOnce == \A c \in Active : call[c].at = "waiting" => ~call[c].retried

SomebodyWaits == \A t \in Tabs : refresh[t] # NoRefresh => Waiting(t) # {}

\* The calls that may still lead to an exchange.
Entitled ==
  {c \in Active : ~call[c].retried /\ ~(call[c].at = "waiting" /\ refresh[TabOf[c]].at = "answered")}

TokensSuffice == issued + Cardinality(Entitled) <= MaxTokens

-----------------------------------------------------------------------------
(***************************************************************************)
(* Signed out stays out.                                                   *)
(***************************************************************************)
LEMMA QuietStep == TypeOK /\ SignedOutQuiet /\ [Next]_vars => SignedOutQuiet'
  <1> SUFFICES ASSUME TypeOK, SignedOutQuiet, [Next]_vars, signedOut'
               PROVE  stored' = None /\ \A u \in Tabs : refresh'[u] = NoRefresh
    BY DEF SignedOutQuiet, RefreshUnderWay
  <1>1. signedOut => stored = None /\ \A u \in Tabs : refresh[u] = NoRefresh
    BY DEF SignedOutQuiet, RefreshUnderWay
  <1>2. CASE UNCHANGED <<stored, refresh, signedOut>>
    BY <1>1, <1>2
  <1>3. ASSUME NEW t \in Tabs, SignIn(t)
        PROVE  FALSE
    BY <1>3 DEF SignIn
  <1>4. ASSUME NEW t \in Tabs, Reload(t)
        PROVE  stored' = None /\ \A u \in Tabs : refresh'[u] = NoRefresh
    BY <1>1, <1>4 DEF Reload, TypeOK
  <1>5. ASSUME NEW t \in Tabs, CheckRefresh(t) \/ AnswerRefresh(t) \/ RefreshSucceeds(t)
        PROVE  FALSE
    <2>1. signedOut /\ refresh[t].at \in {"sent", "admitted", "answered"}
      BY <1>5 DEF CheckRefresh, AnswerRefresh, RefreshSucceeds
    <2>2. NoRefresh.at = "none"
      BY DEF NoRefresh
    <2>3. QED
      BY <1>1, <2>1, <2>2
  <1>6. ASSUME NEW t \in Tabs, RefreshFails(t)
        PROVE  stored' = None /\ \A u \in Tabs : refresh'[u] = NoRefresh
    BY <1>1, <1>6 DEF RefreshFails, Abandon, Expire, Clear, TypeOK
  <1>7. ASSUME NEW c \in Calls, Served(c) \/ Lost(c) \/ GiveUp(c)
        PROVE  stored' = None /\ \A u \in Tabs : refresh'[u] = NoRefresh
    BY <1>1, <1>7 DEF Served, Lost, Return, GiveUp, Expire, Clear, RefreshUnderWay
  <1>8. ASSUME NEW c \in Calls, AskForRefresh(c)
        PROVE  stored' = None /\ \A u \in Tabs : refresh'[u] = NoRefresh
    BY <1>1, <1>8, ClientAssumption DEF AskForRefresh, TypeOK
  <1>9. ASSUME NEW c \in Calls, Answer(c) \/ \E kind \in {"api", "sign_out"} : Start(c, kind)
        PROVE  UNCHANGED <<stored, refresh, signedOut>>
    BY <1>9 DEF Answer, Start
  <1>10. ASSUME NEW k \in Tokens, AccessExpires(k) \/ SessionEnds(k)
         PROVE  UNCHANGED <<stored, refresh, signedOut>>
    BY <1>10 DEF AccessExpires, SessionEnds
  <1>11. QED
    BY <1>2, <1>3, <1>4, <1>5, <1>6, <1>7, <1>8, <1>9, <1>10 DEF Next, ComeBack, RefreshComesBack, vars
-----------------------------------------------------------------------------
(***************************************************************************)
(* The bound on tokens is enough: every call leads to one exchange at      *)
(* most, for which a pair was set aside when it started.                   *)
(***************************************************************************)
LEMMA CallKinds ==
  ASSUME TypeOK, NEW c \in Active
  PROVE  call[c] \in Call /\ c \in Calls /\ TabOf[c] \in Tabs
  BY ClientAssumption DEF Active, TypeOK

LEMMA ExchangeKinds ==
  ASSUME TypeOK, NEW t \in Tabs
  PROVE  /\ refresh[t] # NoRefresh => refresh[t] \in Refresh
         /\ refresh[t].at \in {"sent", "admitted", "answered"} => refresh[t] \in Refresh
         /\ refresh[t] \in Refresh => refresh[t] # NoRefresh
  BY DEF TypeOK, NoRefresh, Refresh

\* Checking an exchange only says where it is.
LEMMA CheckChanges ==
  ASSUME TypeOK, NEW t \in Tabs, CheckRefresh(t)
  PROVE  /\ refresh[t] \in Refresh /\ refresh[t].at = "sent"
         /\ refresh'[t] \in Refresh /\ refresh'[t].at \in {"admitted", "answered"}
         /\ refresh'[t].token = refresh[t].token /\ refresh'[t].got = refresh[t].got
         /\ \A u \in Tabs \ {t} : refresh'[u] = refresh[u]
         /\ refresh' \in [Tabs -> Refresh \cup {NoRefresh}]
         /\ UNCHANGED <<stored, memory, signedIn, call, issued, live, fresh, gone, signedOut>>
  <1>1. refresh[t] \in Refresh /\ refresh[t].at = "sent"
    BY ExchangeKinds DEF CheckRefresh
  <1>2. PICK where \in {"admitted", "answered"} : refresh' = [refresh EXCEPT ![t].at = where]
    BY DEF CheckRefresh
  <1>3. /\ refresh'[t] = [refresh[t] EXCEPT !.at = where]
        /\ \A u \in Tabs \ {t} : refresh'[u] = refresh[u]
    BY <1>2 DEF TypeOK
  <1>4. [refresh[t] EXCEPT !.at = where] \in Refresh
    BY <1>1 DEF Refresh
  <1>5. refresh' \in [Tabs -> Refresh \cup {NoRefresh}]
    BY <1>2, <1>4 DEF TypeOK
  <1>6. UNCHANGED <<stored, memory, signedIn, call, issued, live, fresh, gone, signedOut>>
    BY DEF CheckRefresh, serverVars
  <1>7. QED
    BY <1>1, <1>3, <1>4, <1>5, <1>6 DEF Refresh

\* An exchange that was admitted yields the next token.
LEMMA AnswerChanges ==
  ASSUME TypeOK, NEW t \in Tabs, AnswerRefresh(t)
  PROVE  /\ refresh[t] \in Refresh /\ refresh[t].at = "admitted"
         /\ issued' = issued + 1
         /\ refresh'[t] = [refresh[t] EXCEPT !.at = "answered", !.got = issued']
         /\ refresh'[t].token = refresh[t].token /\ refresh'[t].at = "answered" /\ refresh'[t].got = issued'
         /\ refresh'[t] # NoRefresh
         /\ \A u \in Tabs \ {t} : refresh'[u] = refresh[u]
         /\ live' = (live \ {refresh[t].token}) \cup {issued'}
         /\ fresh' = fresh \cup {issued'}
         /\ UNCHANGED <<stored, memory, signedIn, call, gone, signedOut>>
  <1>1. refresh[t] \in Refresh /\ refresh[t].at = "admitted"
    BY ExchangeKinds DEF AnswerRefresh
  <1>2. /\ refresh'[t] = [refresh[t] EXCEPT !.at = "answered", !.got = issued']
        /\ \A u \in Tabs \ {t} : refresh'[u] = refresh[u]
    BY DEF AnswerRefresh, TypeOK
  <1>3. refresh'[t].token = refresh[t].token /\ refresh'[t].at = "answered" /\ refresh'[t].got = issued'
    BY <1>1, <1>2 DEF Refresh
  <1>4. refresh'[t] # NoRefresh
    BY <1>3 DEF NoRefresh
  <1>5. /\ issued' = issued + 1
        /\ live' = (live \ {refresh[t].token}) \cup {issued'}
        /\ fresh' = fresh \cup {issued'}
        /\ UNCHANGED <<stored, memory, signedIn, call, gone, signedOut>>
    BY DEF AnswerRefresh
  <1>6. QED
    BY <1>1, <1>2, <1>3, <1>4, <1>5

\* A waiting call has not been sent again, and an exchange has a call that waits for it.
LEMMA WaitingStep ==
  TypeOK /\ WaitingOnce /\ SomebodyWaits /\ [Next]_vars => WaitingOnce' /\ SomebodyWaits'
  <1> SUFFICES ASSUME TypeOK, WaitingOnce, SomebodyWaits, [Next]_vars
               PROVE  WaitingOnce' /\ SomebodyWaits'
    OBVIOUS
  <1> USE DEF WaitingOnce, SomebodyWaits, Waiting, CallsOf, Active
  <1>1. CASE UNCHANGED <<call, refresh>>
    BY <1>1
  <1>2. ASSUME NEW t \in Tabs, Reload(t)
        PROVE  WaitingOnce' /\ SomebodyWaits'
    BY <1>2 DEF Reload, TypeOK
  <1>3. ASSUME NEW t \in Tabs, CheckRefresh(t) \/ AnswerRefresh(t)
        PROVE  WaitingOnce' /\ SomebodyWaits'
    <2>1. call' = call /\ \A u \in Tabs : refresh'[u] # NoRefresh => refresh[u] # NoRefresh
      BY <1>3, CheckChanges, AnswerChanges, ExchangeKinds
    <2>2. QED
      BY <2>1
  <1>4. ASSUME NEW t \in Tabs, RefreshSucceeds(t)
        PROVE  WaitingOnce' /\ SomebodyWaits'
    <2>1. \A c \in Calls : call'[c] = call[c] \/ (TabOf[c] = t /\ call'[c].at = "sent")
      BY <1>4, CallKinds DEF RefreshSucceeds, Resumed, TypeOK, Call, NoCall
    <2>2. \A c \in Calls : TabOf[c] # t => call'[c] = call[c]
      BY <1>4 DEF RefreshSucceeds, Resumed
    <2>3. QED
      BY <1>4, <2>1, <2>2 DEF RefreshSucceeds, TypeOK
  <1>5. ASSUME NEW t \in Tabs, RefreshFails(t)
        PROVE  WaitingOnce' /\ SomebodyWaits'
    BY <1>5 DEF RefreshFails, Abandon, Abandoned, TypeOK
  <1>6. ASSUME NEW c \in Calls, Served(c) \/ Lost(c) \/ GiveUp(c)
        PROVE  WaitingOnce' /\ SomebodyWaits'
    BY <1>6 DEF Served, Lost, Return, GiveUp, TypeOK
  <1>7. ASSUME NEW c \in Calls, AskForRefresh(c)
        PROVE  WaitingOnce' /\ SomebodyWaits'
    <2>1. call[c] \in Call
      BY <1>7 DEF AskForRefresh, TypeOK, NoCall
    <2>2. /\ call'[c].at = "waiting" /\ call'[c].retried = call[c].retried
          /\ \A d \in Calls \ {c} : call'[d] = call[d]
          /\ \A u \in Tabs : u # TabOf[c] => refresh'[u] = refresh[u]
      BY <1>7, <2>1 DEF AskForRefresh, TypeOK, Call
    <2>3. QED
      BY <1>7, <2>2 DEF AskForRefresh
  <1>8. ASSUME NEW c \in Calls, NEW kind \in {"api", "sign_out"}, Start(c, kind)
        PROVE  WaitingOnce' /\ SomebodyWaits'
    BY <1>8 DEF Start, TypeOK, NoCall
  <1>9. ASSUME NEW c \in Calls, Answer(c)
        PROVE  WaitingOnce' /\ SomebodyWaits'
    <2>1. call[c] \in Call
      BY <1>9 DEF Answer, TypeOK, NoCall
    <2>2. call'[c].at # "waiting" /\ \A d \in Calls \ {c} : call'[d] = call[d]
      BY <1>9, <2>1 DEF Answer, TypeOK, Call
    <2>3. QED
      BY <1>9, <2>2 DEF Answer
  <1>10. ASSUME NEW t \in Tabs, SignIn(t)
         PROVE  UNCHANGED <<call, refresh>>
    BY <1>10 DEF SignIn
  <1>11. ASSUME NEW k \in Tokens, AccessExpires(k) \/ SessionEnds(k)
         PROVE  UNCHANGED <<call, refresh>>
    BY <1>11 DEF AccessExpires, SessionEnds
  <1>12. QED
    BY <1>1, <1>2, <1>3, <1>4, <1>5, <1>6, <1>7, <1>8, <1>9, <1>10, <1>11
       DEF Next, ComeBack, RefreshComesBack, vars

LEMMA EntitledFinite ==
  /\ IsFiniteSet(Entitled) /\ Cardinality(Entitled) \in Nat
  /\ Entitled \subseteq Active /\ IsFiniteSet(Active) /\ Cardinality(Active) \in Nat
  /\ Cardinality(Entitled) <= Cardinality(Active)
  <1>1. Entitled \subseteq Active /\ Active \subseteq Calls
    BY DEF Entitled, Active
  <1>2. IsFiniteSet(Active)
    BY <1>1, ClientAssumption, FS_Subset
  <1>3. QED
    BY <1>1, <1>2, FS_Subset, FS_CardinalityType

\* A step that starts nothing entitles nobody.
LEMMA EntitledShrinks ==
  ASSUME TypeOK, WaitingOnce, SomebodyWaits, [Next]_vars,
         \A c \in Calls, kind \in {"api", "sign_out"} : ~Start(c, kind)
  PROVE  Entitled' \subseteq Entitled
  <1> USE DEF Entitled, Active
  <1>1. CASE UNCHANGED <<call, refresh>>
    BY <1>1
  <1>2. ASSUME NEW t \in Tabs, Reload(t)
        PROVE  Entitled' \subseteq Entitled
    BY <1>2, ClientAssumption DEF Reload, TypeOK
  <1>3. ASSUME NEW t \in Tabs, CheckRefresh(t) \/ AnswerRefresh(t)
        PROVE  Entitled' \subseteq Entitled
    <2>1. /\ refresh[t].at # "answered" /\ UNCHANGED call
          /\ \A u \in Tabs \ {t} : refresh'[u] = refresh[u]
      BY <1>3, CheckChanges, AnswerChanges
    <2>2. QED
      BY <2>1, ClientAssumption
  <1>4. ASSUME NEW t \in Tabs, RefreshSucceeds(t)
        PROVE  Entitled' \subseteq Entitled
    <2>1. \A u \in Tabs \ {t} : refresh'[u] = refresh[u]
      BY <1>4 DEF RefreshSucceeds, TypeOK
    <2>2. ASSUME NEW c \in Calls, c \in Waiting(t)
          PROVE  c \notin Entitled'
      <3>1. call[c] \in Call
        BY <2>2 DEF Waiting, CallsOf, TypeOK, NoCall
      <3>2. call'[c].retried
        BY <1>4, <2>2, <3>1 DEF RefreshSucceeds, Resumed, Call
      <3>3. QED
        BY <3>2
    <2>3. ASSUME NEW c \in Calls, c \notin Waiting(t)
          PROVE  call'[c] = call[c] /\ (call[c].at = "waiting" => TabOf[c] # t)
      BY <1>4, <2>3 DEF RefreshSucceeds, Resumed, Waiting, CallsOf
    <2>4. QED
      BY <2>1, <2>2, <2>3, ClientAssumption
  <1>5. ASSUME NEW t \in Tabs, RefreshFails(t)
        PROVE  Entitled' \subseteq Entitled
    BY <1>5, ClientAssumption DEF RefreshFails, Abandon, Abandoned, TypeOK, Waiting, CallsOf
  <1>6. ASSUME NEW c \in Calls, Served(c) \/ Lost(c) \/ GiveUp(c)
        PROVE  Entitled' \subseteq Entitled
    BY <1>6 DEF Served, Lost, Return, GiveUp, TypeOK
  <1>7. ASSUME NEW c \in Calls, AskForRefresh(c)
        PROVE  Entitled' \subseteq Entitled
    <2>1. call[c] # NoCall /\ ~call[c].retried /\ call[c].at = "refused"
      BY <1>7 DEF AskForRefresh, NoCall
    <2>2. \A d \in Calls \ {c} : call'[d] = call[d]
      BY <1>7 DEF AskForRefresh, TypeOK
    <2>3. c \in Entitled
      BY <2>1
    <2>4. ASSUME NEW d \in Calls \ {c}, call[d].at = "waiting"
          PROVE  refresh'[TabOf[d]] = refresh[TabOf[d]]
      <3>1. refresh[TabOf[d]] # NoRefresh /\ TabOf[d] \in Tabs
        BY <2>4, ClientAssumption DEF TypeOK
      <3>2. QED
        BY <1>7, <3>1 DEF AskForRefresh, TypeOK
    <2>5. QED
      BY <2>2, <2>3, <2>4
  <1>8. ASSUME NEW c \in Calls, Answer(c)
        PROVE  Entitled' \subseteq Entitled
    <2>1. call[c] \in Call
      BY <1>8 DEF Answer, TypeOK, NoCall
    <2>2. /\ call'[c].retried = call[c].retried /\ call[c] # NoCall /\ call[c].at = "sent"
          /\ UNCHANGED refresh /\ \A d \in Calls \ {c} : call'[d] = call[d]
      BY <1>8, <2>1 DEF Answer, TypeOK, Call, NoCall
    <2>3. QED
      BY <2>2
  <1>9. ASSUME NEW t \in Tabs, SignIn(t)
        PROVE  UNCHANGED <<call, refresh>>
    BY <1>9 DEF SignIn
  <1>10. ASSUME NEW k \in Tokens, AccessExpires(k) \/ SessionEnds(k)
         PROVE  UNCHANGED <<call, refresh>>
    BY <1>10 DEF AccessExpires, SessionEnds
  <1>11. QED
    BY <1>1, <1>2, <1>3, <1>4, <1>5, <1>6, <1>7, <1>8, <1>9, <1>10
       DEF Next, ComeBack, RefreshComesBack, vars

\* An exchange uses up what one of the calls that wait for it had set aside.
LEMMA TokensStep ==
  ASSUME TypeOK, WaitingOnce, SomebodyWaits, TokensSuffice, [Next]_vars
  PROVE  TokensSuffice' /\ issued' \in issued..MaxTokens
  <1>1. issued \in Nat /\ MaxTokens \in Nat /\ issued + Cardinality(Entitled) <= MaxTokens
    BY ClientAssumption DEF TypeOK, TokensSuffice
  <1>2. IsFiniteSet(Entitled') /\ Cardinality(Entitled') \in Nat
    <2>1. Entitled' \subseteq Calls
      BY DEF Entitled, Active
    <2>2. QED
      BY <2>1, ClientAssumption, FS_Subset, FS_CardinalityType
  <1>3. SUFFICES issued' \in Nat /\ issued' >= issued /\ issued' + Cardinality(Entitled') <= MaxTokens
    BY <1>1, <1>2 DEF TokensSuffice
  <1>4. ASSUME NEW t \in Tabs, SignIn(t)
        PROVE  issued' \in Nat /\ issued' >= issued /\ issued' + Cardinality(Entitled') <= MaxTokens
    <2>1. Entitled' = Entitled
      BY <1>4 DEF SignIn, Entitled, Active
    <2>2. QED
      BY <1>1, <1>4, <2>1, EntitledFinite DEF SignIn, TokensLeft
  <1>5. ASSUME NEW c \in Calls, NEW kind \in {"api", "sign_out"}, Start(c, kind)
        PROVE  issued' \in Nat /\ issued' >= issued /\ issued' + Cardinality(Entitled') <= MaxTokens
    <2>1. Entitled' \subseteq Active \cup {c}
      BY <1>5 DEF Start, Entitled, Active, TypeOK
    <2>2. /\ IsFiniteSet(Active \cup {c})
          /\ Cardinality(Active \cup {c}) <= Cardinality(Active) + 1
          /\ Cardinality(Active \cup {c}) \in Nat
      <3>1. IsFiniteSet(Active) /\ Cardinality(Active) \in Nat
        BY EntitledFinite
      <3>2. c \notin Active
        BY <1>5 DEF Start, Active
      <3>3. IsFiniteSet(Active \cup {c}) /\ Cardinality(Active \cup {c}) = Cardinality(Active) + 1
        BY <3>1, <3>2, FS_AddElement
      <3>4. QED
        BY <3>1, <3>3
    <2>3. Cardinality(Entitled') <= Cardinality(Active \cup {c})
      BY <2>1, <2>2, FS_Subset
    <2>4. issued' = issued /\ issued + Cardinality(Active) < MaxTokens
      BY <1>5 DEF Start, serverVars, TokensLeft
    <2>5. QED
      BY <1>1, <1>2, <2>2, <2>3, <2>4, EntitledFinite
  <1>6. ASSUME \A c \in Calls, kind \in {"api", "sign_out"} : ~Start(c, kind)
        PROVE  Cardinality(Entitled') <= Cardinality(Entitled) /\ Entitled' \subseteq Entitled
    BY <1>6, EntitledShrinks, EntitledFinite, FS_Subset
  <1>7. ASSUME NEW t \in Tabs, AnswerRefresh(t)
        PROVE  issued' \in Nat /\ issued' >= issued /\ issued' + Cardinality(Entitled') <= MaxTokens
    <2>1. \A c \in Calls, kind \in {"api", "sign_out"} : ~Start(c, kind)
      BY <1>1, <1>7 DEF AnswerRefresh, Start, serverVars
    <2>2. issued' = issued + 1 /\ refresh[t].at = "admitted" /\ refresh'[t].at = "answered" /\ UNCHANGED call
      BY <1>7, AnswerChanges
    <2>3. PICK w \in Waiting(t) : TRUE
      BY <2>2, ExchangeKinds DEF SomebodyWaits
    <2>4. w \in Calls /\ TabOf[w] = t /\ call[w].at = "waiting" /\ w \in Active
      BY <2>3 DEF Waiting, CallsOf, Active, NoCall
    <2>5. w \in Entitled /\ w \notin Entitled'
      BY <2>2, <2>4 DEF Entitled, Active, WaitingOnce
    <2>6. Entitled' \subseteq Entitled \ {w}
      BY <1>6, <2>1, <2>5
    <2>7. Cardinality(Entitled \ {w}) = Cardinality(Entitled) - 1 /\ IsFiniteSet(Entitled \ {w})
      BY <2>5, EntitledFinite, FS_RemoveElement
    <2>8. Cardinality(Entitled') <= Cardinality(Entitled) - 1
      BY <2>6, <2>7, FS_Subset
    <2>9. QED
      BY <1>1, <1>2, <2>2, <2>8, EntitledFinite
  <1>8. CASE UNCHANGED issued /\ \A c \in Calls, kind \in {"api", "sign_out"} : ~Start(c, kind)
    BY <1>1, <1>2, <1>6, <1>8, EntitledFinite
  <1>9. CASE \A c \in Calls, kind \in {"api", "sign_out"} : ~Start(c, kind)
    BY <1>4, <1>7, <1>8, <1>9
       DEF Next, ComeBack, RefreshComesBack, vars, serverVars, Reload, RefreshSucceeds, RefreshFails, Abandon,
           Answer, Served, GiveUp, AskForRefresh, Lost, Return, AccessExpires, SessionEnds, CheckRefresh
  <1>10. QED
    BY <1>5, <1>9

-----------------------------------------------------------------------------
(***************************************************************************)
(* Types: tokens are the numbers issued so far.                            *)
(***************************************************************************)
LEMMA KnownStep ==
  ASSUME TypeOK, TokensKnown, [Next]_vars, issued' \in issued..MaxTokens
  PROVE  TokensKnown'
  <1> USE DEF Active
  <1>1. issued \in Nat /\ issued' \in Nat /\ issued <= issued' /\ stored \in Nat
    BY ClientAssumption DEF TypeOK, AnyToken, Tokens, None
  <1>2. /\ \A t \in Tabs : refresh[t] # NoRefresh =>
              /\ refresh[t].token \in Nat /\ refresh[t].got \in Nat
              /\ refresh[t].at \in {"sent", "admitted", "answered"}
        /\ \A c \in Calls : call[c] # NoCall => call[c].body \in Nat
    BY ClientAssumption DEF TypeOK, Refresh, Call, AnyToken, Tokens, None
  <1>3. ASSUME \A t \in Tabs : refresh'[t] \in {refresh[t], NoRefresh}
        PROVE  \A t \in Tabs : refresh'[t] # NoRefresh =>
                 /\ refresh'[t].token <= issued' /\ refresh'[t].got <= issued'
                 /\ refresh'[t].at # "answered" => refresh'[t].got = None
    BY <1>1, <1>2, <1>3 DEF TokensKnown
  <1>4. ASSUME \A c \in Calls : call'[c] # NoCall => call[c] # NoCall /\ call'[c].body = call[c].body
        PROVE  \A c \in Active' : call'[c].body <= issued'
    BY <1>1, <1>2, <1>4 DEF TokensKnown
  <1>5. stored <= issued'
    BY <1>1 DEF TokensKnown
  <1>6. CASE UNCHANGED <<stored, refresh, call>>
    BY <1>3, <1>4, <1>5, <1>6 DEF TokensKnown
  <1>7. ASSUME NEW t \in Tabs, SignIn(t)
        PROVE  TokensKnown'
    BY <1>1, <1>3, <1>4, <1>7 DEF SignIn, Store, TokensKnown
  <1>8. ASSUME NEW c \in Calls, NEW kind \in {"api", "sign_out"}, Start(c, kind)
        PROVE  TokensKnown'
    <2>1. call'[c].body \in {stored, None} /\ \A d \in Calls \ {c} : call'[d] = call[d]
      BY <1>8 DEF Start, TypeOK
    <2>2. \A d \in Active' : call'[d].body <= issued'
      BY <1>1, <1>2, <1>5, <2>1 DEF TokensKnown, None
    <2>3. QED
      BY <1>3, <1>5, <1>8, <2>2 DEF Start, TokensKnown
  <1>9. ASSUME NEW t \in Tabs, Reload(t)
        PROVE  TokensKnown'
    <2>1. \A u \in Tabs : refresh'[u] \in {refresh[u], NoRefresh}
      BY <1>9 DEF Reload, TypeOK
    <2>2. \A c \in Calls : call'[c] \in {call[c], NoCall}
      BY <1>9 DEF Reload
    <2>3. QED
      BY <1>3, <1>4, <1>5, <1>9, <2>1, <2>2 DEF Reload, TokensKnown
  <1>10. ASSUME NEW t \in Tabs, AnswerRefresh(t)
         PROVE  TokensKnown'
    <2>1. /\ refresh[t] # NoRefresh /\ refresh'[t].token = refresh[t].token
          /\ refresh'[t].at = "answered" /\ refresh'[t].got = issued'
          /\ \A u \in Tabs \ {t} : refresh'[u] = refresh[u]
          /\ UNCHANGED <<stored, call>>
      BY <1>10, AnswerChanges, ExchangeKinds
    <2>2. QED
      BY <1>1, <1>2, <1>4, <1>5, <2>1 DEF TokensKnown
  <1>18. ASSUME NEW t \in Tabs, CheckRefresh(t)
         PROVE  TokensKnown'
    <2>1. /\ refresh[t] # NoRefresh /\ refresh[t].at = "sent"
          /\ refresh'[t].token = refresh[t].token /\ refresh'[t].got = refresh[t].got
          /\ \A u \in Tabs \ {t} : refresh'[u] = refresh[u]
          /\ UNCHANGED <<stored, call>>
      BY <1>18, CheckChanges, ExchangeKinds
    <2>2. QED
      BY <1>1, <1>2, <1>4, <1>5, <2>1 DEF TokensKnown
  <1>11. ASSUME NEW t \in Tabs, RefreshSucceeds(t)
         PROVE  TokensKnown'
    <2>1. stored' = refresh[t].got /\ refresh[t] # NoRefresh
      BY <1>11, ExchangeKinds DEF RefreshSucceeds, Store
    <2>2. \A c \in Calls : call'[c] # NoCall => call[c] # NoCall /\ call'[c].body = call[c].body
      <3>1. ASSUME NEW c \in Calls, c \in Waiting(t)
            PROVE  call[c] # NoCall /\ call'[c].body = call[c].body
        <4>1. call[c] \in Call /\ call[c] # NoCall
          BY <3>1 DEF Waiting, CallsOf, TypeOK, NoCall
        <4>2. QED
          BY <1>11, <3>1, <4>1 DEF RefreshSucceeds, Resumed, Call
      <3>2. \A c \in Calls : c \notin Waiting(t) => call'[c] = call[c]
        BY <1>11 DEF RefreshSucceeds, Resumed
      <3>3. QED
        BY <3>1, <3>2
    <2>3. \A u \in Tabs : refresh'[u] \in {refresh[u], NoRefresh}
      BY <1>11 DEF RefreshSucceeds, TypeOK
    <2>4. QED
      BY <1>1, <1>2, <1>3, <1>4, <2>1, <2>2, <2>3 DEF TokensKnown
  <1>12. ASSUME NEW t \in Tabs, RefreshFails(t)
         PROVE  TokensKnown'
    <2>1. stored' = None /\ \A u \in Tabs : refresh'[u] \in {refresh[u], NoRefresh}
      BY <1>12 DEF RefreshFails, Abandon, Expire, Clear, TypeOK
    <2>2. \A c \in Calls : call'[c] \in {call[c], NoCall}
      BY <1>12 DEF RefreshFails, Abandon, Abandoned
    <2>3. QED
      BY <1>1, <1>3, <1>4, <2>1, <2>2 DEF TokensKnown, None
  <1>13. ASSUME NEW c \in Calls, Served(c) \/ Lost(c) \/ GiveUp(c)
         PROVE  TokensKnown'
    <2>1. stored' \in {stored, None} /\ UNCHANGED refresh
      BY <1>13 DEF Served, Lost, Return, GiveUp, Expire, Clear
    <2>2. \A d \in Calls : call'[d] \in {call[d], NoCall}
      BY <1>13 DEF Served, Lost, Return, GiveUp, TypeOK
    <2>3. QED
      BY <1>1, <1>3, <1>4, <1>5, <2>1, <2>2 DEF TokensKnown, None
  <1>14. ASSUME NEW c \in Calls, AskForRefresh(c)
         PROVE  TokensKnown'
    <2>1. call[c] # NoCall
      BY <1>14 DEF AskForRefresh, NoCall
    <2>2. \A d \in Calls : call'[d] # NoCall => call[d] # NoCall /\ call'[d].body = call[d].body
      BY <1>14, <2>1 DEF AskForRefresh, TypeOK, Call
    <2>3. \A u \in Tabs : \/ refresh'[u] = refresh[u]
                          \/ refresh'[u] = [at |-> "sent", token |-> stored, got |-> None]
      BY <1>14 DEF AskForRefresh, TypeOK
    <2>4. \A u \in Tabs : refresh'[u] # NoRefresh =>
            /\ refresh'[u].token <= issued' /\ refresh'[u].got <= issued'
            /\ refresh'[u].at # "answered" => refresh'[u].got = None
      BY <1>1, <1>2, <1>5, <2>3 DEF TokensKnown, None
    <2>5. QED
      BY <1>4, <1>5, <1>14, <2>2, <2>4 DEF AskForRefresh, TokensKnown
  <1>15. ASSUME NEW c \in Calls, Answer(c)
         PROVE  TokensKnown'
    <2>1. call[c] # NoCall
      BY <1>15 DEF Answer, NoCall
    <2>2. \A d \in Calls : call'[d] # NoCall => call[d] # NoCall /\ call'[d].body = call[d].body
      BY <1>15, <2>1 DEF Answer, TypeOK, Call
    <2>3. QED
      BY <1>3, <1>4, <1>5, <1>15, <2>2 DEF Answer, TokensKnown
  <1>16. ASSUME NEW k \in Tokens, AccessExpires(k) \/ SessionEnds(k)
         PROVE  UNCHANGED <<stored, refresh, call>>
    BY <1>16 DEF AccessExpires, SessionEnds
  <1>17. QED
    BY <1>6, <1>7, <1>8, <1>9, <1>10, <1>11, <1>12, <1>13, <1>14, <1>15, <1>16, <1>18
       DEF Next, ComeBack, RefreshComesBack, vars

LEMMA TypeStep ==
  ASSUME TypeOK, TokensKnown, [Next]_vars, issued' \in issued..MaxTokens
  PROVE  TypeOK'
  <1> USE DEF AnyToken, Tokens, None
  <1>1. issued \in Nat /\ issued' \in 0..MaxTokens /\ issued <= issued' /\ MaxTokens \in Nat
    BY ClientAssumption DEF TypeOK
  <1>2. 1..issued \subseteq 1..issued' /\ 1..issued' \subseteq 1..MaxTokens
    BY <1>1
  <1>3. \A c \in Calls : TabOf[c] \in Tabs /\ (call[c] # NoCall => call[c] \in Call)
    BY ClientAssumption DEF TypeOK
  <1>4. CASE UNCHANGED vars
    BY <1>4 DEF vars, serverVars, TypeOK
  <1>5. ASSUME NEW t \in Tabs, SignIn(t)
        PROVE  TypeOK'
    <2>1. issued' = issued + 1 /\ issued' \in 1..issued' /\ issued' \in AnyToken
      BY <1>1, <1>5 DEF SignIn
    <2>2. live' \subseteq 1..issued' /\ fresh' \subseteq 1..issued' /\ gone' \subseteq 1..issued'
      BY <1>2, <1>5, <2>1 DEF SignIn, TypeOK
    <2>3. /\ stored' \in AnyToken /\ memory' \in [Tabs -> AnyToken]
          /\ signedIn' \in [Tabs -> BOOLEAN]
      BY <1>5, <2>1 DEF SignIn, Store, TypeOK
    <2>4. QED
      BY <1>1, <1>5, <2>2, <2>3 DEF SignIn, TypeOK
  <1>6. ASSUME NEW c \in Calls, NEW kind \in {"api", "sign_out"}, Start(c, kind)
        PROVE  TypeOK'
    <2>1. Access(TabOf[c]) \in AnyToken
      BY <1>3 DEF Access, TypeOK
    <2>2. call' \in [Calls -> Call \cup {NoCall}]
      BY <1>6, <2>1 DEF Start, TypeOK, Call
    <2>3. \A d \in Calls : call'[d].at = "waiting" => call[d].at = "waiting"
      BY <1>6 DEF Start, TypeOK
    <2>4. QED
      BY <1>6, <2>1, <2>2, <2>3 DEF Start, serverVars, TypeOK
  <1>7. ASSUME NEW t \in Tabs, Reload(t)
        PROVE  TypeOK'
    <2>1. \A k \in Tokens : refresh[t].at = "answered" /\ refresh[t].token = k => k \in 1..issued
      BY <1>1, ExchangeKinds DEF TokensKnown
    <2>2. \A k \in Tokens, c \in Active : call[c].body = k => k \in 1..issued
      BY <1>1 DEF TokensKnown
    <2>3. gone' \subseteq 1..issued
      BY <1>7, <2>1, <2>2 DEF Reload, TypeOK
    <2>4. refresh' \in [Tabs -> Refresh \cup {NoRefresh}] /\ call' \in [Calls -> Call \cup {NoCall}]
      BY <1>7 DEF Reload, TypeOK
    <2>5. \A c \in Calls : call'[c].at = "waiting" => refresh'[TabOf[c]] # NoRefresh
      BY <1>3, <1>7 DEF Reload, TypeOK, NoCall
    <2>6. memory' \in [Tabs -> AnyToken] /\ signedIn' \in [Tabs -> BOOLEAN]
      BY <1>7 DEF Reload, TypeOK
    <2>7. QED
      BY <1>7, <2>3, <2>4, <2>5, <2>6 DEF Reload, serverVars, TypeOK
  <1>8. ASSUME NEW t \in Tabs, AnswerRefresh(t)
        PROVE  TypeOK'
    <2>1. issued' = issued + 1 /\ issued' \in 1..issued' /\ issued' \in Tokens
      BY <1>1, <1>8 DEF AnswerRefresh
    <2>2. refresh'[t] \in Refresh
      BY <1>8, <2>1, AnswerChanges DEF Refresh
    <2>3. refresh' \in [Tabs -> Refresh \cup {NoRefresh}]
      BY <1>8, <2>2 DEF AnswerRefresh, TypeOK
    <2>4. \A u \in Tabs : refresh[u] # NoRefresh => refresh'[u] # NoRefresh
      BY <1>8, AnswerChanges
    <2>5. live' \subseteq 1..issued' /\ fresh' \subseteq 1..issued' /\ gone' \subseteq 1..issued'
      BY <1>2, <1>8, <2>1 DEF AnswerRefresh, TypeOK
    <2>6. QED
      BY <1>1, <1>3, <1>8, <2>3, <2>4, <2>5 DEF AnswerRefresh, TypeOK
  <1>16. ASSUME NEW t \in Tabs, CheckRefresh(t)
         PROVE  TypeOK'
    <2>1. /\ refresh' \in [Tabs -> Refresh \cup {NoRefresh}]
          /\ \A u \in Tabs : refresh[u] # NoRefresh => refresh'[u] # NoRefresh
          /\ UNCHANGED <<stored, memory, signedIn, call, issued, live, fresh, gone, signedOut>>
      BY <1>16, CheckChanges DEF Refresh, NoRefresh
    <2>2. QED
      BY <1>3, <2>1 DEF TypeOK
  <1>9. ASSUME NEW t \in Tabs, RefreshSucceeds(t)
        PROVE  TypeOK'
    <2>1. refresh[t] \in Refresh /\ refresh[t].got \in Tokens
      BY <1>9, ExchangeKinds DEF RefreshSucceeds, Refresh
    <2>2. \A c \in Waiting(t) : call[c] \in Call
      BY <1>3 DEF Waiting, CallsOf, NoCall
    <2>3. call' \in [Calls -> Call \cup {NoCall}]
      BY <1>9, <2>1, <2>2 DEF RefreshSucceeds, Resumed, TypeOK, Call
    <2>4. \A c \in Calls : call'[c].at = "waiting" => TabOf[c] # t /\ call'[c] = call[c]
      <3>1. \A c \in Waiting(t) : call'[c].at = "sent" /\ c \in Calls
        BY <1>9, <2>2 DEF RefreshSucceeds, Resumed, Waiting, CallsOf, Call
      <3>2. \A c \in Calls : c \notin Waiting(t) =>
              call'[c] = call[c] /\ (call[c].at = "waiting" => TabOf[c] # t)
        BY <1>9 DEF RefreshSucceeds, Resumed, Waiting, CallsOf
      <3>3. QED
        BY <3>1, <3>2
    <2>5. refresh' \in [Tabs -> Refresh \cup {NoRefresh}] /\ \A u \in Tabs \ {t} : refresh'[u] = refresh[u]
      BY <1>9 DEF RefreshSucceeds, TypeOK
    <2>6. stored' \in AnyToken /\ memory' \in [Tabs -> AnyToken]
      BY <1>9, <2>1 DEF RefreshSucceeds, Store, TypeOK
    <2>7. QED
      BY <1>3, <1>9, <2>3, <2>4, <2>5, <2>6 DEF RefreshSucceeds, serverVars, TypeOK
  <1>10. ASSUME NEW t \in Tabs, RefreshFails(t)
         PROVE  TypeOK'
    <2>1. call' \in [Calls -> Call \cup {NoCall}]
      BY <1>10 DEF RefreshFails, Abandon, Abandoned, TypeOK
    <2>2. \A c \in Calls : call'[c].at = "waiting" => TabOf[c] # t /\ call'[c] = call[c]
      BY <1>10 DEF RefreshFails, Abandon, Abandoned, Waiting, CallsOf, NoCall
    <2>3. refresh' \in [Tabs -> Refresh \cup {NoRefresh}] /\ \A u \in Tabs \ {t} : refresh'[u] = refresh[u]
      BY <1>10 DEF RefreshFails, Abandon, TypeOK
    <2>4. /\ stored' \in AnyToken /\ memory' \in [Tabs -> AnyToken]
          /\ signedIn' \in [Tabs -> BOOLEAN] /\ signedOut' \in BOOLEAN
      BY <1>10 DEF RefreshFails, Abandon, Expire, Clear, TypeOK
    <2>5. QED
      BY <1>3, <1>10, <2>1, <2>2, <2>3, <2>4 DEF RefreshFails, Abandon, serverVars, TypeOK
  <1>11. ASSUME NEW c \in Calls, Served(c) \/ Lost(c) \/ GiveUp(c)
         PROVE  TypeOK'
    <2>1. call' \in [Calls -> Call \cup {NoCall}] /\ \A d \in Calls : call'[d] \in {call[d], NoCall}
      BY <1>11 DEF Served, Lost, Return, GiveUp, TypeOK
    <2>2. /\ stored' \in AnyToken /\ memory' \in [Tabs -> AnyToken]
          /\ signedIn' \in [Tabs -> BOOLEAN] /\ signedOut' \in BOOLEAN
      BY <1>11 DEF Served, Lost, Return, GiveUp, Expire, Clear, TypeOK
    <2>3. \A d \in Calls : call'[d].at = "waiting" => call[d].at = "waiting"
      BY <2>1 DEF NoCall
    <2>4. UNCHANGED <<refresh, issued, live, fresh, gone>>
      BY <1>11 DEF Served, Lost, Return, GiveUp, serverVars
    <2>5. QED
      BY <2>1, <2>2, <2>3, <2>4 DEF TypeOK
  <1>12. ASSUME NEW c \in Calls, AskForRefresh(c)
         PROVE  TypeOK'
    <2>1. call[c] \in Call /\ TabOf[c] \in Tabs
      BY <1>3, <1>12 DEF AskForRefresh, NoCall
    <2>2. call' \in [Calls -> Call \cup {NoCall}] /\ \A d \in Calls \ {c} : call'[d] = call[d]
      BY <1>12, <2>1 DEF AskForRefresh, TypeOK, Call
    <2>3. /\ refresh' \in [Tabs -> Refresh \cup {NoRefresh}] /\ refresh'[TabOf[c]] # NoRefresh
          /\ \A u \in Tabs \ {TabOf[c]} : refresh'[u] = refresh[u]
      BY <1>12, <2>1 DEF AskForRefresh, TypeOK, Refresh, NoRefresh
    <2>4. QED
      BY <1>3, <1>12, <2>2, <2>3 DEF AskForRefresh, serverVars, TypeOK
  <1>13. ASSUME NEW c \in Calls, Answer(c)
         PROVE  TypeOK'
    <2>1. call[c] \in Call
      BY <1>3, <1>13 DEF Answer, NoCall
    <2>2. call' \in [Calls -> Call \cup {NoCall}] /\ call'[c].at # "waiting" /\ \A d \in Calls \ {c} : call'[d] = call[d]
      BY <1>13, <2>1 DEF Answer, TypeOK, Call
    <2>3. live' \subseteq live /\ gone' \subseteq gone \cup live
      BY <1>13 DEF Answer
    <2>4. QED
      BY <1>13, <2>2, <2>3 DEF Answer, TypeOK
  <1>14. ASSUME NEW k \in Tokens, AccessExpires(k) \/ SessionEnds(k)
         PROVE  TypeOK'
    BY <1>14 DEF AccessExpires, SessionEnds, TypeOK
  <1>15. QED
    BY <1>4, <1>5, <1>6, <1>7, <1>8, <1>9, <1>10, <1>11, <1>12, <1>13, <1>14, <1>16
       DEF Next, ComeBack, RefreshComesBack

-----------------------------------------------------------------------------
Known == TypeOK /\ TokensKnown /\ WaitingOnce /\ SomebodyWaits /\ TokensSuffice

LEMMA KnownInductive == Spec => []Known
  <1>1. Init => Known
    <2>1. ASSUME Init
          PROVE  TypeOK /\ TokensKnown /\ WaitingOnce /\ SomebodyWaits
      <3>1. Active = {} /\ \A t \in Tabs : refresh[t] = NoRefresh
        BY <2>1 DEF Init, Active
      <3>2. TokensKnown /\ WaitingOnce /\ SomebodyWaits
        BY <2>1, <3>1 DEF Init, TokensKnown, WaitingOnce, SomebodyWaits, None
      <3>3. issued \in 0..MaxTokens
        BY <2>1, ClientAssumption DEF Init
      <3>4. \A c \in Calls : call[c].at # "waiting"
        BY <2>1 DEF Init, NoCall
      <3>5. TypeOK
        BY <2>1, <3>3, <3>4 DEF Init, TypeOK, AnyToken, None
      <3>6. QED
        BY <3>2, <3>5
    <2>2. ASSUME Init
          PROVE  TokensSuffice
      <3>1. Entitled = {}
        BY <2>2 DEF Init, Entitled, Active
      <3>2. QED
        BY <2>2, <3>1, FS_EmptySet, ClientAssumption DEF Init, TokensSuffice
    <2>3. QED
      BY <2>1, <2>2 DEF Known
  <1>2. Known /\ [Next]_vars => Known'
    BY WaitingStep, TokensStep, KnownStep, TypeStep DEF Known
  <1>3. QED
    BY <1>1, <1>2, PTL DEF Spec

\* Whatever is lost, refused or forgotten by a reload, and in whatever order it comes back: the
\* tabs hold tokens the server issued, a call waits only for a refresh that is under way, and one
\* exchange for each call is enough (apiClient.ts:80, refreshOnUnauthorized.ts:8).
THEOREM TypeCorrect == Spec => []TypeOK
  BY KnownInductive, PTL DEF Known

\* After a sign-out with no exchange under way storage stays empty until somebody signs in: only
\* an exchange or a sign-in stores a pair (tokenStorage.ts:14).
THEOREM SignedOutHolds == Spec => []SignedOutStaysOut
  <1>1. Init => SignedOutQuiet
    BY DEF Init, SignedOutQuiet
  <1>2. SignedOutQuiet => SignedOutStaysOut
    BY DEF SignedOutQuiet, SignedOutStaysOut
  <1>3. QED
    BY <1>1, <1>2, QuietStep, TypeCorrect, PTL DEF Spec

-----------------------------------------------------------------------------
(***************************************************************************)
(* What is stored can be used.                                             *)
(***************************************************************************)
\* Only an exchange and a sign-out that names it end a token without a trace.
LEMMA UsableShrinks ==
  ASSUME TypeOK, [Next]_vars, NEW k \in live \cup gone, k \notin live' \cup gone'
  PROVE  \/ \E t \in Tabs : AnswerRefresh(t) /\ refresh[t].token = k
         \/ \E c \in Calls : Answer(c) /\ call[c].kind = "sign_out" /\ call[c].body = k
  <1>1. CASE live \subseteq live' /\ gone \subseteq gone'
    BY <1>1
  <1>2. ASSUME NEW t \in Tabs, AnswerRefresh(t)
        PROVE  refresh[t].token = k
    BY <1>2 DEF AnswerRefresh, serverVars
  <1>3. ASSUME NEW c \in Calls, Answer(c)
        PROVE  call[c].kind = "sign_out" /\ call[c].body = k
    <2>1. call[c] \in Call
      BY <1>3 DEF Answer, TypeOK, NoCall
    <2>2. gone \subseteq gone'
      BY <1>3 DEF Answer
    <2>3. CASE live' = live
      BY <2>2, <2>3
    <2>4. CASE live' # live
      <3>1. call[c].kind = "sign_out"
        BY <1>3, <2>1, <2>4 DEF Answer, Call
      <3>2. CASE call[c].body = None
        BY <1>3, <2>4, <3>1, <3>2 DEF Answer
      <3>3. CASE call[c].body # None
        BY <1>3, <2>2, <2>4, <3>1, <3>3 DEF Answer
      <3>4. QED
        BY <3>1, <3>2, <3>3
    <2>5. QED
      BY <2>3, <2>4
  <1>4. ASSUME NEW t \in Tabs, SignIn(t) \/ Reload(t) \/ CheckRefresh(t) \/ RefreshComesBack(t)
        PROVE  live \subseteq live' /\ gone \subseteq gone'
    BY <1>4 DEF SignIn, CheckRefresh, Reload, RefreshComesBack, RefreshSucceeds, RefreshFails, Abandon, serverVars
  <1>5. ASSUME NEW c \in Calls, ComeBack(c) \/ Lost(c) \/ \E kind \in {"api", "sign_out"} : Start(c, kind)
        PROVE  live \subseteq live' /\ gone \subseteq gone'
    BY <1>5 DEF ComeBack, Served, GiveUp, AskForRefresh, Lost, Return, Start, serverVars
  <1>6. ASSUME NEW j \in Tokens, AccessExpires(j) \/ SessionEnds(j)
        PROVE  live \cup gone \subseteq live' \cup gone'
    BY <1>6 DEF AccessExpires, SessionEnds
  <1>7. QED
    BY <1>1, <1>2, <1>3, <1>4, <1>5, <1>6 DEF Next, vars, serverVars

\* Storage changes by a sign-in, by the answer to an exchange, or to nothing.
LEMMA StoredChanges ==
  ASSUME TypeOK, [Next]_vars
  PROVE  \/ stored' \in {stored, None}
         \/ \E t \in Tabs : SignIn(t) /\ stored' = issued'
         \/ \E t \in Tabs : RefreshSucceeds(t) /\ stored' = refresh[t].got
  BY DEF Next, vars, serverVars, SignIn, Store, Start, Reload, Answer, AnswerRefresh, AccessExpires, SessionEnds,
         ComeBack, RefreshComesBack, RefreshSucceeds, RefreshFails, Abandon, Expire, Clear, Served, Lost, Return,
         GiveUp, AskForRefresh, CheckRefresh

\* What a call names was stored when it started.
LEMMA BodiesKnown ==
  ASSUME TypeOK, [Next]_vars, NEW c \in Calls, call'[c] # NoCall
  PROVE  \/ call[c] # NoCall /\ call'[c].body = call[c].body /\ call'[c].kind = call[c].kind
         \/ call[c] = NoCall /\ call'[c].body \in {stored, None}
  <1>1. CASE call'[c] = call[c]
    BY <1>1
  <1>2. ASSUME NEW d \in Calls, NEW kind \in {"api", "sign_out"}, Start(d, kind), d = c
        PROVE  call[c] = NoCall /\ call'[c].body \in {stored, None}
    BY <1>2 DEF Start, TypeOK
  <1>3. ASSUME NEW d \in Calls, NEW kind \in {"api", "sign_out"}, Start(d, kind), d # c
        PROVE  call'[c] = call[c]
    BY <1>3 DEF Start, TypeOK
  <1>4. ASSUME NEW d \in Calls, Answer(d) \/ AskForRefresh(d)
        PROVE  call[c] # NoCall /\ call'[c].body = call[c].body /\ call'[c].kind = call[c].kind
    <2>1. call[d] \in Call
      BY <1>4 DEF Answer, AskForRefresh, TypeOK, NoCall
    <2>2. CASE d = c
      <3>1. \E where : call' = [call EXCEPT ![c].at = where]
        BY <1>4, <2>2 DEF Answer, AskForRefresh
      <3>2. QED
        BY <2>1, <2>2, <3>1 DEF TypeOK, Call, NoCall
    <2>3. CASE d # c
      BY <1>4, <2>3 DEF Answer, AskForRefresh, TypeOK
    <2>4. QED
      BY <2>2, <2>3
  <1>5. ASSUME NEW d \in Calls, Served(d) \/ Lost(d) \/ GiveUp(d)
        PROVE  call'[c] = call[c]
    BY <1>5 DEF Served, Lost, Return, GiveUp, TypeOK
  <1>6. ASSUME NEW t \in Tabs, Reload(t) \/ RefreshFails(t)
        PROVE  call'[c] = call[c]
    BY <1>6 DEF Reload, RefreshFails, Abandon, Abandoned
  <1>7. ASSUME NEW t \in Tabs, RefreshSucceeds(t)
        PROVE  call[c] # NoCall /\ call'[c].body = call[c].body /\ call'[c].kind = call[c].kind
    <2>1. CASE c \in Waiting(t)
      <3>1. call[c] \in Call /\ call[c] # NoCall
        BY <2>1 DEF Waiting, CallsOf, TypeOK, NoCall
      <3>2. QED
        BY <1>7, <2>1, <3>1 DEF RefreshSucceeds, Resumed, Call
    <2>2. CASE c \notin Waiting(t)
      BY <1>7, <2>2 DEF RefreshSucceeds, Resumed
    <2>3. QED
      BY <2>1, <2>2
  <1>8. ASSUME NEW t \in Tabs, SignIn(t) \/ CheckRefresh(t) \/ AnswerRefresh(t)
        PROVE  UNCHANGED call
    BY <1>8 DEF SignIn, CheckRefresh, AnswerRefresh
  <1>9. ASSUME NEW k \in Tokens, AccessExpires(k) \/ SessionEnds(k)
        PROVE  UNCHANGED call
    BY <1>9 DEF AccessExpires, SessionEnds
  <1>10. QED
    BY <1>1, <1>2, <1>3, <1>4, <1>5, <1>6, <1>7, <1>8, <1>9 DEF Next, ComeBack, RefreshComesBack, vars

\* An exchange asks with what is stored, and its answer is a token nobody has seen.
LEMMA ExchangesChange ==
  ASSUME TypeOK, TokensKnown, [Next]_vars, NEW t \in Tabs, refresh'[t] # NoRefresh
  PROVE  \/ /\ refresh[t] # NoRefresh
            /\ refresh'[t].token = refresh[t].token /\ refresh'[t].got = refresh[t].got
         \/ refresh'[t].token = stored /\ refresh'[t].got = None
         \/ /\ AnswerRefresh(t) /\ refresh[t] # NoRefresh /\ refresh'[t].token = refresh[t].token
            /\ refresh'[t].got = issued + 1 /\ issued' = issued + 1 /\ issued' \in live'
  <1>1. ASSUME NEW u \in Tabs, AnswerRefresh(u)
        PROVE  refresh'[t] = refresh[t] \/
               (/\ t = u /\ refresh[t] # NoRefresh /\ refresh'[t].token = refresh[t].token
                /\ refresh'[t].got = issued + 1 /\ issued' = issued + 1 /\ issued' \in live')
    BY <1>1, AnswerChanges, ExchangeKinds
  <1>7. ASSUME NEW u \in Tabs, CheckRefresh(u)
        PROVE  refresh'[t] = refresh[t] \/
               (/\ refresh[t] # NoRefresh
                /\ refresh'[t].token = refresh[t].token /\ refresh'[t].got = refresh[t].got)
    BY <1>7, CheckChanges, ExchangeKinds
  <1>2. ASSUME NEW c \in Calls, AskForRefresh(c)
        PROVE  refresh'[t] = refresh[t] \/ (refresh'[t].token = stored /\ refresh'[t].got = None)
    BY <1>2 DEF AskForRefresh, TypeOK
  <1>3. ASSUME NEW u \in Tabs, SignIn(u) \/ Reload(u) \/ RefreshComesBack(u)
        PROVE  refresh'[t] = refresh[t]
    BY <1>3 DEF SignIn, Reload, RefreshComesBack, RefreshSucceeds, RefreshFails, Abandon, TypeOK
  <1>4. ASSUME NEW c \in Calls,
               Served(c) \/ GiveUp(c) \/ Lost(c) \/ Answer(c) \/ \E kind \in {"api", "sign_out"} : Start(c, kind)
        PROVE  UNCHANGED refresh
    BY <1>4 DEF Served, GiveUp, Lost, Return, Answer, Start
  <1>5. ASSUME NEW k \in Tokens, AccessExpires(k) \/ SessionEnds(k)
        PROVE  UNCHANGED refresh
    BY <1>5 DEF AccessExpires, SessionEnds
  <1>6. QED
    BY <1>1, <1>2, <1>3, <1>4, <1>5, <1>7 DEF Next, ComeBack, vars

LEMMA UnseenStep ==
  ASSUME TypeOK, TokensKnown, AnswersUnseen, [Next]_vars
  PROVE  AnswersUnseen'
  <1>1. SUFFICES ASSUME NEW t \in Tabs, refresh'[t] # NoRefresh, refresh'[t].got # None
                 PROVE  /\ refresh'[t].got \in live' \cup gone'
                        /\ refresh'[t].got # stored'
                        /\ \A u \in Tabs : refresh'[u] # NoRefresh =>
                             refresh'[u].token # refresh'[t].got /\ (u # t => refresh'[u].got # refresh'[t].got)
                        /\ \A c \in Calls : call'[c] # NoCall => call'[c].body # refresh'[t].got
    BY DEF AnswersUnseen, Active
  <1>2. issued \in Nat
    BY DEF TypeOK
  <1>3. /\ stored \in Nat /\ stored <= issued
        /\ \A u \in Tabs : refresh[u] # NoRefresh =>
             /\ refresh[u].token \in Nat /\ refresh[u].got \in Nat
             /\ refresh[u].token <= issued /\ refresh[u].got <= issued
        /\ \A c \in Calls : call[c] # NoCall => call[c].body \in Nat /\ call[c].body <= issued
    BY ClientAssumption DEF TypeOK, TokensKnown, Refresh, Call, AnyToken, Tokens, None, Active
  <1>4. CASE refresh[t] # NoRefresh /\ refresh'[t].got = refresh[t].got
    <2> DEFINE g == refresh[t].got
    <2>1. /\ refresh[t] # NoRefresh /\ g # None /\ g \in Nat /\ g <= issued
          /\ g \in live \cup gone /\ g # stored
          /\ \A u \in Tabs : refresh[u] # NoRefresh => refresh[u].token # g /\ (u # t => refresh[u].got # g)
          /\ \A c \in Calls : call[c] # NoCall => call[c].body # g
      BY <1>1, <1>3, <1>4 DEF AnswersUnseen, Active
    <2>2. g \in live' \cup gone'
      <3>1. \A u \in Tabs : AnswerRefresh(u) => refresh[u] # NoRefresh
        BY AnswerChanges, ExchangeKinds
      <3>2. \A c \in Calls : Answer(c) => call[c] # NoCall
        BY DEF Answer, NoCall
      <3>3. QED
        BY <2>1, <3>1, <3>2, UsableShrinks
    <2>3. g # stored'
      <3>1. ASSUME NEW u \in Tabs, SignIn(u), stored' = issued'
            PROVE  g # stored'
        BY <1>2, <2>1, <3>1 DEF SignIn
      <3>2. ASSUME NEW u \in Tabs, RefreshSucceeds(u), stored' = refresh[u].got
            PROVE  g # stored'
        <4>1. u # t /\ refresh[u] # NoRefresh
          BY <1>1, <3>2, ExchangeKinds DEF RefreshSucceeds, TypeOK
        <4>2. QED
          BY <2>1, <3>2, <4>1
      <3>3. QED
        BY <2>1, <3>1, <3>2, StoredChanges
    <2>4. ASSUME NEW u \in Tabs, refresh'[u] # NoRefresh
          PROVE  refresh'[u].token # g /\ (u # t => refresh'[u].got # g)
      BY <1>2, <2>1, <2>4, ExchangesChange
    <2>5. ASSUME NEW c \in Calls, call'[c] # NoCall
          PROVE  call'[c].body # g
      BY <2>1, <2>5, BodiesKnown
    <2>6. QED
      BY <1>4, <2>2, <2>3, <2>4, <2>5
  <1>5. CASE ~(refresh[t] # NoRefresh /\ refresh'[t].got = refresh[t].got)
    <2>1. /\ AnswerRefresh(t) /\ refresh[t] # NoRefresh /\ refresh'[t].token = refresh[t].token
          /\ refresh'[t].got = issued + 1 /\ issued' = issued + 1 /\ issued' \in live'
      BY <1>1, <1>5, ExchangesChange
    <2>2. stored' = stored /\ call' = call /\ \A u \in Tabs \ {t} : refresh'[u] = refresh[u]
      BY <2>1, AnswerChanges
    <2>3. QED
      BY <1>2, <1>3, <2>1, <2>2
  <1>6. QED
    BY <1>4, <1>5

LEMMA AccountedStep ==
  ASSUME TypeOK, TokensKnown, AnswersUnseen, StoredAccounted, [Next]_vars
  PROVE  StoredAccounted'
  <1> DEFINE Answered(k) == \E t \in Tabs : refresh[t] # NoRefresh /\ refresh[t].at = "answered" /\ refresh[t].token = k
             Named(k) == \E c \in Calls : call[c] # NoCall /\ call[c].kind = "sign_out" /\ call[c].body = k
             Answered1(k) == \E t \in Tabs :
                               refresh'[t] # NoRefresh /\ refresh'[t].at = "answered" /\ refresh'[t].token = k
             Named1(k) == \E c \in Calls : call'[c] # NoCall /\ call'[c].kind = "sign_out" /\ call'[c].body = k
  <1>1. SUFFICES ASSUME stored' # None
                 PROVE  stored' \in live' \cup gone' \/ Answered1(stored') \/ Named1(stored')
    BY DEF StoredAccounted, Active
  <1>2. ASSUME NEW t \in Tabs, SignIn(t), stored' = issued'
        PROVE  stored' \in live'
    BY <1>2 DEF SignIn
  <1>3. ASSUME NEW t \in Tabs, RefreshSucceeds(t), stored' = refresh[t].got
        PROVE  stored' \in live' \cup gone'
    <2>1. refresh[t] # NoRefresh /\ refresh[t].got # None /\ UNCHANGED <<live, gone>>
      BY <1>3, ExchangeKinds DEF RefreshSucceeds, serverVars
    <2>2. QED
      BY <1>3, <2>1 DEF AnswersUnseen
  <1>4. CASE stored' = stored /\ stored \in live \cup gone
    <2>1. ASSUME NEW t \in Tabs, AnswerRefresh(t), refresh[t].token = stored
          PROVE  Answered1(stored)
      BY <2>1, AnswerChanges
    <2>2. ASSUME NEW c \in Calls, Answer(c), call[c].kind = "sign_out", call[c].body = stored
          PROVE  Named1(stored)
      <3>1. call[c] \in Call
        BY <2>2 DEF Answer, TypeOK, NoCall
      <3>2. call'[c].kind = "sign_out" /\ call'[c].body = stored /\ call'[c] # NoCall
        BY <2>2, <3>1 DEF Answer, TypeOK, Call, NoCall
      <3>3. QED
        BY <3>2
    <2>3. QED
      BY <1>4, <2>1, <2>2, UsableShrinks
  <1>5. ASSUME stored' = stored, NEW t \in Tabs,
               refresh[t] # NoRefresh, refresh[t].at = "answered", refresh[t].token = stored
        PROVE  stored \in gone' \/ Answered1(stored)
    <2>1. CASE refresh'[t] = refresh[t]
      BY <1>5, <2>1
    <2>2. ASSUME NEW u \in Tabs, Reload(u), u = t
          PROVE  stored \in gone'
      <3>1. stored \in Tokens
        BY <1>1, <1>5 DEF TypeOK, AnyToken
      <3>2. QED
        BY <1>5, <2>2, <3>1 DEF Reload
    <2>3. ASSUME NEW u \in Tabs, Reload(u), u # t
          PROVE  refresh'[t] = refresh[t]
      BY <2>3 DEF Reload, TypeOK
    <2>4. ASSUME NEW u \in Tabs, RefreshSucceeds(u)
          PROVE  refresh'[t] = refresh[t]
      <3>1. CASE u = t
        <4>1. stored' # stored
          BY <1>5, <2>4, <3>1 DEF RefreshSucceeds, Store, AnswersUnseen
        <4>2. QED
          BY <1>5, <4>1
      <3>2. CASE u # t
        BY <2>4, <3>2 DEF RefreshSucceeds, TypeOK
      <3>3. QED
        BY <3>1, <3>2
    <2>5. ASSUME NEW u \in Tabs, RefreshFails(u)
          PROVE  FALSE
      BY <1>1, <2>5 DEF RefreshFails, Abandon, Expire, Clear
    <2>6. ASSUME NEW u \in Tabs, SignIn(u) \/ CheckRefresh(u) \/ AnswerRefresh(u)
          PROVE  refresh'[t] = refresh[t]
      BY <1>5, <2>6, CheckChanges, AnswerChanges DEF SignIn
    <2>7. ASSUME NEW c \in Calls, AskForRefresh(c)
          PROVE  refresh'[t] = refresh[t]
      BY <1>5, <2>7 DEF AskForRefresh, TypeOK
    <2>8. ASSUME NEW c \in Calls,
                 Served(c) \/ GiveUp(c) \/ Lost(c) \/ Answer(c) \/ \E kind \in {"api", "sign_out"} : Start(c, kind)
          PROVE  refresh'[t] = refresh[t]
      BY <2>8 DEF Served, GiveUp, Lost, Return, Answer, Start
    <2>9. ASSUME NEW k \in Tokens, AccessExpires(k) \/ SessionEnds(k)
          PROVE  refresh'[t] = refresh[t]
      BY <2>9 DEF AccessExpires, SessionEnds
    <2>10. QED
      BY <2>1, <2>2, <2>3, <2>4, <2>5, <2>6, <2>7, <2>8, <2>9 DEF Next, ComeBack, RefreshComesBack, vars
  <1>6. ASSUME stored' = stored, NEW c \in Calls,
               call[c] # NoCall, call[c].kind = "sign_out", call[c].body = stored
        PROVE  stored \in gone' \/ Named1(stored)
    <2>1. CASE call'[c] # NoCall
      BY <1>6, <2>1, BodiesKnown
    <2>2. CASE call'[c] = NoCall
      <3>1. ASSUME NEW u \in Tabs, Reload(u)
            PROVE  stored \in gone'
        <4>1. stored \in Tokens /\ c \in CallsOf(u) \cap Active
          BY <1>1, <1>6, <2>2, <3>1 DEF Reload, TypeOK, AnyToken, CallsOf, Active
        <4>2. QED
          BY <1>6, <3>1, <4>1 DEF Reload
      <3>2. ASSUME NEW u \in Tabs, RefreshFails(u)
            PROVE  FALSE
        BY <1>1, <3>2 DEF RefreshFails, Abandon, Expire, Clear
      <3>3. ASSUME NEW u \in Tabs, RefreshSucceeds(u)
            PROVE  FALSE
        <4>1. CASE c \in Waiting(u)
          <5>1. call[c] \in Call
            BY <1>6 DEF TypeOK
          <5>2. call'[c].at = "sent"
            BY <3>3, <4>1, <5>1 DEF RefreshSucceeds, Resumed, Call
          <5>3. QED
            BY <2>2, <5>2 DEF NoCall
        <4>2. CASE c \notin Waiting(u)
          BY <1>6, <2>2, <3>3, <4>2 DEF RefreshSucceeds, Resumed
        <4>3. QED
          BY <4>1, <4>2
      <3>4. ASSUME NEW d \in Calls, Served(d) \/ Lost(d) \/ GiveUp(d)
            PROVE  FALSE
        <4>1. d = c
          BY <1>6, <2>2, <3>4 DEF Served, Lost, Return, GiveUp, TypeOK
        <4>2. QED
          BY <1>1, <1>6, <3>4, <4>1 DEF Served, Lost, Return, GiveUp, Expire, Clear
      <3>5. ASSUME NEW d \in Calls, Answer(d) \/ AskForRefresh(d)
            PROVE  FALSE
        <4>1. CASE d = c
          <5>1. call'[c].at \in {"served", "refused", "waiting"}
            BY <1>6, <3>5, <4>1 DEF Answer, AskForRefresh, TypeOK, Call
          <5>2. QED
            BY <2>2, <5>1 DEF NoCall
        <4>2. CASE d # c
          BY <1>6, <2>2, <3>5, <4>2 DEF Answer, AskForRefresh, TypeOK
        <4>3. QED
          BY <4>1, <4>2
      <3>6. ASSUME NEW d \in Calls, NEW kind \in {"api", "sign_out"}, Start(d, kind)
            PROVE  FALSE
        BY <1>6, <2>2, <3>6 DEF Start, TypeOK
      <3>7. ASSUME NEW u \in Tabs, SignIn(u) \/ CheckRefresh(u) \/ AnswerRefresh(u)
            PROVE  FALSE
        BY <1>6, <2>2, <3>7 DEF SignIn, CheckRefresh, AnswerRefresh
      <3>8. ASSUME NEW k \in Tokens, AccessExpires(k) \/ SessionEnds(k)
            PROVE  FALSE
        BY <1>6, <2>2, <3>8 DEF AccessExpires, SessionEnds
      <3>9. QED
        BY <1>6, <2>2, <3>1, <3>2, <3>3, <3>4, <3>5, <3>6, <3>7, <3>8 DEF Next, ComeBack, RefreshComesBack, vars
    <2>3. QED
      BY <2>1, <2>2
  <1>7. CASE stored' = stored
    BY <1>1, <1>4, <1>5, <1>6, <1>7 DEF StoredAccounted, Active
  <1>8. QED
    BY <1>1, <1>2, <1>3, <1>7, StoredChanges

\* However the answers to several tabs come in: what is stored was not exchanged or signed out
\* behind the tabs' backs, or the tab that did it is about to replace or drop it
\* (refreshOnUnauthorized.ts:8, tokenStorage.ts:14).
THEOREM StoredStaysUsable == Spec => []StoredIsUsable
  <1> DEFINE Accounted == AnswersUnseen /\ StoredAccounted
  <1>1. Init => Accounted
    BY DEF Init, AnswersUnseen, StoredAccounted
  <1>2. Known /\ Accounted /\ [Next]_vars => Accounted'
    BY UnseenStep, AccountedStep DEF Known
  <1>3. Accounted => StoredIsUsable
    BY DEF StoredAccounted, StoredIsUsable
  <1>4. QED
    BY <1>1, <1>2, <1>3, KnownInductive, PTL DEF Spec
=============================================================================
