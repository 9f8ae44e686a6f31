---------------------------- MODULE CodesProofs -----------------------------
(***************************************************************************)
(* Safety of VerificationCodes for every number of requests, codes,        *)
(* mailboxes and purposes.                                                 *)
(***************************************************************************)
EXTENDS VerificationCodes, TLAPS, FiniteSetTheorems

Issuing == {r \in Requests : request[r].op \in {"issue", "invalidated"}}
Redeeming(c) == {r \in Requests : request[r].op = "redeem" /\ request[r].code = c}

\* A number is given to one request, and to none once its code is in the table.
NumbersFresh ==
  /\ \A r \in Issuing : request[r].code \notin Issued
  /\ \A r, q \in Issuing : request[r].code = request[q].code => r = q

\* What a request read is still in the table when it commits.
ReadsStay ==
  \A r \in Requests :
    /\ request[r].op = "redeem" => request[r].code \in Issued
    /\ request[r].op = "invalidated" => request[r].stale \subseteq Issued

Safe == TypeOK /\ NumbersFresh /\ ReadsStay

\* The outstanding codes of a mailbox come from different requests: a request that
\* is about to insert one has invalidated its own earlier ones.
OnePerRequest ==
  /\ \A u \in Accounts, p \in Purposes : \A c, d \in Outstanding(u, p) :
       code[c].by = code[d].by => c = d
  /\ \A r \in Requests, u \in Accounts, p \in Purposes :
       request[r].op = "invalidated" /\ request[r].user = u /\ request[r].purpose = p =>
         \A c \in Outstanding(u, p) : code[c].by = r => c \in request[r].stale

\* Uses of a code, made or about to be made; none begins once one is committed.
RedemptionsCounted ==
  \A c \in Codes :
    /\ redeemed[c] + Cardinality(Redeeming(c)) <= Cardinality(Requests)
    /\ redeemed[c] > 0 => c \in Issued /\ code[c].consumed

-----------------------------------------------------------------------------
(***************************************************************************)
(* Types.                                                                  *)
(***************************************************************************)
LEMMA RequestTypes ==
  ASSUME TypeOK, NEW r \in Requests
  PROVE  /\ request[r].op = "issue" =>
              /\ request[r].user \in Accounts /\ request[r].purpose \in Purposes
              /\ request[r].code \in Codes
         /\ request[r].op = "invalidated" =>
              /\ request[r].user \in Accounts /\ request[r].purpose \in Purposes
              /\ request[r].code \in Codes /\ request[r].stale \in SUBSET Codes
              /\ request[r].rivals \in SUBSET Codes
         /\ request[r].op = "redeem" => request[r].code \in Codes
  <1>1. request[r] \in CodeRequest \cup {Idle}
    BY DEF TypeOK
  <1>2. QED
    BY <1>1 DEF CodeRequest, Idle

LEMMA RunningCodes ==
  ASSUME TypeOK
  PROVE  Running \subseteq Codes
  BY RequestTypes DEF Running

\* Every step is one of the operations, of some request.
LEMMA CodeNextCases ==
  ASSUME CodeNext
  PROVE  \/ \E r \in Requests, u \in Accounts, p \in Purposes : IssueRead(r, u, p) \/ RedeemRead(r, u, p)
         \/ \E r \in Requests : IssueInvalidate(r) \/ IssueCommit(r) \/ RedeemCommit(r) \/ Abort(r)
         \/ \E u \in Accounts, p \in Purposes : RedeemWrong(u, p)
         \/ \E c \in Codes : CodeAges(c)
  BY DEF CodeNext

LEMMA SafeInit == CodeInit => Safe
  <1> SUFFICES ASSUME CodeInit PROVE Safe
    OBVIOUS
  <1>1. TypeOK
    BY CodesAssumption DEF CodeInit, TypeOK
  <1>2. Issuing = {} /\ ReadsStay
    BY DEF CodeInit, Issuing, ReadsStay, Idle
  <1>3. QED
    BY <1>1, <1>2 DEF Safe, NumbersFresh

LEMMA NewCodeType ==
  ASSUME NEW u \in Accounts, NEW p \in Purposes, NEW r \in Requests, NEW rivals \in SUBSET Codes
  PROVE  NewCode(u, p, r, rivals) \in CodeRow
  BY CodesAssumption DEF NewCode, CodeRow

LEMMA ConsumedType ==
  ASSUME NEW row \in CodeRow
  PROVE  [row EXCEPT !.consumed = TRUE] \in CodeRow
  BY DEF CodeRow

\* The table after a commit that inserts: the new row, and the stale ones consumed.
LEMMA CommitTable ==
  ASSUME Safe, NEW r \in Requests, IssueCommit(r)
  PROVE  /\ request[r].code \in Codes /\ request[r].code \notin Issued
         /\ request[r].stale \subseteq Issued /\ r \in Issuing
         /\ code'[request[r].code] = NewCode(request[r].user, request[r].purpose, r, request[r].rivals)
         /\ \A c \in request[r].stale : code'[c] = [code[c] EXCEPT !.consumed = TRUE]
         /\ \A c \in Codes : c # request[r].code /\ c \notin request[r].stale => code'[c] = code[c]
         /\ request' = [request EXCEPT ![r] = Idle]
         /\ code' \in [Codes -> CodeRow \cup {NoRow}]
         /\ Issued' = Issued \cup {request[r].code}
         /\ UNCHANGED <<guesses, redeemed>>
  <1> DEFINE q == request[r]
  <1>1. /\ q.op = "invalidated" /\ q.user \in Accounts /\ q.purpose \in Purposes
        /\ q.code \in Codes /\ q.stale \in SUBSET Codes /\ q.rivals \in SUBSET Codes
    BY RequestTypes DEF Safe, IssueCommit
  <1>2. r \in Issuing /\ q.code \notin Issued /\ q.stale \subseteq Issued
    BY <1>1 DEF Issuing, Safe, NumbersFresh, ReadsStay
  <1>3. /\ code'[q.code] = NewCode(q.user, q.purpose, r, q.rivals)
        /\ \A c \in q.stale : code'[c] = [code[c] EXCEPT !.consumed = TRUE]
        /\ \A c \in Codes : c # q.code /\ c \notin q.stale => code'[c] = code[c]
        /\ request' = [request EXCEPT ![r] = Idle]
        /\ UNCHANGED <<guesses, redeemed>>
    BY <1>1, <1>2 DEF IssueCommit, Proceed
  <1>4. NewCode(q.user, q.purpose, r, q.rivals) \in CodeRow
    BY <1>1, NewCodeType
  <1>5. \A c \in Issued : code[c] \in CodeRow
    BY DEF Issued, Safe, TypeOK
  <1>6. \A c \in q.stale : code'[c] \in CodeRow
    BY <1>2, <1>3, <1>5, ConsumedType
  <1>7. \A c \in Codes : code'[c] \in CodeRow \cup {NoRow}
    BY <1>3, <1>4, <1>6 DEF Safe, TypeOK
  <1>8. code' \in [Codes -> CodeRow \cup {NoRow}]
    <2>1. code' = [c \in Codes |-> code'[c]]
      BY DEF IssueCommit
    <2>2. QED
      BY <1>7, <2>1
  <1>9. Issued' = Issued \cup {q.code}
    BY <1>1, <1>2, <1>3, <1>4, <1>6, NoRowAssumption DEF Issued
  <1>10. QED
    BY <1>1, <1>2, <1>3, <1>8, <1>9

\* What a read action knows of the row it found, and what a commit leaves.
LEMMA CandidateIssued ==
  ASSUME NEW u, NEW p, NEW c, Candidate(u, p, c)
  PROVE  c \in Issued /\ c \in Outstanding(u, p) /\ ~code[c].consumed
  BY DEF Candidate, Latest, Outstanding, IssuedTo

LEMMA ConsumedTable ==
  ASSUME Safe, NEW r \in Requests, RedeemCommit(r)
  PROVE  /\ request[r].code \in Issued
         /\ code'[request[r].code] = [code[request[r].code] EXCEPT !.consumed = TRUE]
         /\ \A c \in Codes : c # request[r].code => code'[c] = code[c]
         /\ code' \in [Codes -> CodeRow \cup {NoRow}]
         /\ Issued' = Issued
         /\ request' = [request EXCEPT ![r] = Idle]
         /\ redeemed' = [redeemed EXCEPT ![request[r].code] = @ + 1]
         /\ UNCHANGED guesses
  <1> DEFINE k == request[r].code
  <1>1. k \in Issued /\ k \in Codes
    BY DEF RedeemCommit, Safe, ReadsStay, Issued
  <1>2. code \in [Codes -> CodeRow \cup {NoRow}] /\ code[k] \in CodeRow
    BY <1>1 DEF Safe, TypeOK, Issued
  <1>3. code' = [code EXCEPT ![k].consumed = TRUE]
    BY DEF RedeemCommit, Consumed
  <1>4. code'[k] = [code[k] EXCEPT !.consumed = TRUE] /\ \A c \in Codes : c # k => code'[c] = code[c]
    BY <1>1, <1>2, <1>3
  <1>5. [code[k] EXCEPT !.consumed = TRUE] \in CodeRow
    BY <1>2, ConsumedType
  <1>6. code' \in [Codes -> CodeRow \cup {NoRow}]
    BY <1>2, <1>3, <1>5
  <1>7. Issued' = Issued
    BY <1>1, <1>4, <1>5, NoRowAssumption DEF Issued
  <1>8. QED
    BY <1>1, <1>4, <1>6, <1>7 DEF RedeemCommit, Proceed

\* Time changes neither who a row is for nor whether it is consumed.
LEMMA AgedTable ==
  ASSUME TypeOK, NEW c \in Codes, CodeAges(c)
  PROVE  /\ code' \in [Codes -> CodeRow \cup {NoRow}]
         /\ Issued' = Issued
         /\ \A d \in Issued : /\ code'[d].user = code[d].user
                               /\ code'[d].purpose = code[d].purpose
                               /\ code'[d].consumed = code[d].consumed
                               /\ code'[d].by = code[d].by
                               /\ code'[d].rivals = code[d].rivals
         /\ UNCHANGED <<request, guesses, redeemed>>
  <1>1. code \in [Codes -> CodeRow \cup {NoRow}] /\ code[c] \in CodeRow
    BY DEF TypeOK, CodeAges, Issued
  <1> DEFINE row == IF code[c].cooling THEN [code[c] EXCEPT !.cooling = FALSE]
                    ELSE [code[c] EXCEPT !.expired = TRUE]
  <1>2. /\ row \in CodeRow /\ row.user = code[c].user /\ row.purpose = code[c].purpose
        /\ row.consumed = code[c].consumed /\ row.by = code[c].by
        /\ row.rivals = code[c].rivals
    BY <1>1 DEF CodeRow
  <1>3. code' = [code EXCEPT ![c] = row] /\ c \in Issued /\ UNCHANGED <<request, guesses, redeemed>>
    BY DEF CodeAges
  <1>4. code' \in [Codes -> CodeRow \cup {NoRow}]
    BY <1>1, <1>2, <1>3
  <1>5. Issued' = Issued
    BY <1>1, <1>2, <1>3, NoRowAssumption DEF Issued
  <1>6. QED
    BY <1>1, <1>2, <1>3, <1>4, <1>5 DEF Issued

LEMMA SafeStep == Safe /\ [CodeNext]_codeVars => Safe'
  <1> SUFFICES ASSUME Safe, [CodeNext]_codeVars PROVE Safe'
    OBVIOUS
  <1> USE DEF Safe
  <1>1. CASE UNCHANGED codeVars
    BY <1>1 DEF codeVars, TypeOK, NumbersFresh, ReadsStay, Issuing, Issued
  <1>2. CASE \E r \in Requests, u \in Accounts, p \in Purposes : IssueRead(r, u, p)
    <2>1. PICK r \in Requests, u \in Accounts, p \in Purposes : IssueRead(r, u, p)
      BY <1>2
    <2>2. PICK n \in Codes :
            /\ NextNumber(n)
            /\ request' = [request EXCEPT ![r] = [op |-> "issue", user |-> u, purpose |-> p, code |-> n]]
      BY <2>1 DEF IssueRead, Proceed
    <2>3. UNCHANGED <<code, guesses, redeemed>> /\ Issued' = Issued
      BY <2>1 DEF IssueRead, Issued
    <2>4. n \notin Issued /\ \A q \in Issuing : request[q].code # n
      <3>1. n \notin Numbered
        <4>1. \A k \in Numbered \cup {0} : k <= n - 1
          BY <2>2 DEF NextNumber, Latest
        <4>2. n \in Nat
          BY CodesAssumption DEF Codes
        <4>3. QED
          BY <4>1, <4>2
      <3>2. QED
        BY <3>1 DEF Numbered, Running, Issuing
    <2>5. [op |-> "issue", user |-> u, purpose |-> p, code |-> n] \in CodeRequest
      BY DEF CodeRequest
    <2>6. TypeOK'
      BY <2>2, <2>3, <2>5 DEF TypeOK
    <2>7. NumbersFresh'
      BY <2>2, <2>3, <2>4 DEF NumbersFresh, Issuing, TypeOK
    <2>8. ReadsStay'
      BY <2>2, <2>3 DEF ReadsStay, TypeOK
    <2>9. QED
      BY <2>6, <2>7, <2>8
  <1>3. CASE \E r \in Requests, u \in Accounts, p \in Purposes : RedeemRead(r, u, p)
    <2>1. PICK r \in Requests, u \in Accounts, p \in Purposes : RedeemRead(r, u, p)
      BY <1>3
    <2>2. PICK c \in Codes : /\ Candidate(u, p, c)
                             /\ request' = [request EXCEPT ![r] = [op |-> "redeem", code |-> c]]
      BY <2>1 DEF RedeemRead, Proceed
    <2>3. UNCHANGED <<code, guesses, redeemed>> /\ Issued' = Issued /\ c \in Issued
      BY <2>1, <2>2, CandidateIssued DEF RedeemRead, Issued
    <2>4. [op |-> "redeem", code |-> c] \in CodeRequest
      BY DEF CodeRequest
    <2>5. TypeOK'
      BY <2>2, <2>3, <2>4 DEF TypeOK
    <2>6. NumbersFresh' /\ ReadsStay'
      BY <2>2, <2>3 DEF NumbersFresh, ReadsStay, Issuing, TypeOK
    <2>7. QED
      BY <2>5, <2>6
  <1>4. CASE \E r \in Requests : IssueInvalidate(r)
    <2>1. PICK r \in Requests : IssueInvalidate(r)
      BY <1>4
    <2> DEFINE q == request[r]
               next == [op |-> "invalidated", user |-> q.user, purpose |-> q.purpose,
                        code |-> q.code, stale |-> Outstanding(q.user, q.purpose),
                        rivals |-> Running]
    <2>2. /\ q.op = "issue" /\ request' = [request EXCEPT ![r] = next]
          /\ UNCHANGED <<code, guesses, redeemed>> /\ Issued' = Issued
      BY <2>1 DEF IssueInvalidate, Proceed, Issued
    <2>3. Outstanding(q.user, q.purpose) \subseteq Issued /\ Issued \subseteq Codes
      BY DEF Outstanding, IssuedTo, Issued
    <2>4. next \in CodeRequest
      BY <2>2, <2>3, RequestTypes, RunningCodes DEF CodeRequest
    <2>5. TypeOK'
      BY <2>2, <2>4 DEF TypeOK
    <2>6. NumbersFresh' /\ ReadsStay'
      BY <2>2, <2>3 DEF NumbersFresh, ReadsStay, Issuing, TypeOK
    <2>7. QED
      BY <2>5, <2>6
  <1>5. CASE \E r \in Requests : IssueCommit(r)
    <2>1. PICK r \in Requests : IssueCommit(r)
      BY <1>5
    <2>2. TypeOK'
      BY <2>1, CommitTable DEF TypeOK
    <2>3. Issuing' = Issuing \ {r} /\ \A q \in Requests \ {r} : request'[q] = request[q]
      BY <2>1, CommitTable DEF Issuing, TypeOK, Idle
    <2>4. NumbersFresh'
      BY <2>1, <2>3, CommitTable DEF NumbersFresh, Issuing
    <2>5. request'[r] = Idle
      BY <2>1, CommitTable DEF TypeOK
    <2>6. ReadsStay'
      BY <2>1, <2>3, <2>5, CommitTable DEF ReadsStay, Idle
    <2>7. QED
      BY <2>2, <2>4, <2>6
  <1>6. CASE \E r \in Requests : RedeemCommit(r)
    <2>1. PICK r \in Requests : RedeemCommit(r)
      BY <1>6
    <2>2. /\ code' \in [Codes -> CodeRow \cup {NoRow}]
          /\ Issued' = Issued
          /\ request' = [request EXCEPT ![r] = Idle]
          /\ redeemed' = [redeemed EXCEPT ![request[r].code] = @ + 1]
          /\ UNCHANGED guesses
      BY <2>1, ConsumedTable
    <2>3. TypeOK'
      <3>1. request' \in [Requests -> CodeRequest \cup {Idle}]
        BY <2>2 DEF TypeOK
      <3>2. redeemed' \in [Codes -> Nat]
        <4>1. request[r].code \in Codes /\ redeemed \in [Codes -> Nat]
          BY <2>1, RequestTypes DEF RedeemCommit, TypeOK
        <4>2. redeemed[request[r].code] + 1 \in Nat
          BY <4>1
        <4>3. QED
          BY <2>2, <4>1, <4>2
      <3>3. QED
        BY <2>2, <3>1, <3>2 DEF TypeOK
    <2>4. NumbersFresh'
      BY <2>2 DEF NumbersFresh, Issuing, TypeOK, Idle
    <2>5. ReadsStay'
      BY <2>2 DEF ReadsStay, TypeOK, Idle
    <2>6. QED
      BY <2>3, <2>4, <2>5
  <1>7. CASE \E r \in Requests : Abort(r)
    BY <1>7 DEF Abort, Proceed, TypeOK, NumbersFresh, ReadsStay, Issuing, Issued, Idle
  <1>8. CASE \E u \in Accounts, p \in Purposes : RedeemWrong(u, p)
    BY <1>8, CodesAssumption DEF RedeemWrong, TypeOK, NumbersFresh, ReadsStay, Issuing, Issued
  <1>9. CASE \E c \in Codes : CodeAges(c)
    BY <1>9, AgedTable DEF TypeOK, NumbersFresh, ReadsStay, Issuing
  <1>10. QED
    BY <1>1, <1>2, <1>3, <1>4, <1>5, <1>6, <1>7, <1>8, <1>9, CodeNextCases

\* Types, and what the other proofs need of them.
THEOREM CodesTypeCorrect == CodeSpec => []TypeOK
  <1>1. Safe => TypeOK
    BY DEF Safe
  <1>2. QED
    BY <1>1, SafeInit, SafeStep, PTL DEF CodeSpec

-----------------------------------------------------------------------------
(***************************************************************************)
(* Consumed rows stay.                                                     *)
(***************************************************************************)
LEMMA ConsumedStays ==
  Safe /\ [CodeNext]_codeVars =>
    \A c \in Issued : code[c].consumed => code'[c] # NoRow /\ code'[c].consumed
  <1> SUFFICES ASSUME Safe, CodeNext \/ UNCHANGED codeVars, NEW c \in Issued, code[c].consumed
               PROVE  code'[c] # NoRow /\ code'[c].consumed
    OBVIOUS
  <1>0. c \in Codes /\ code[c] # NoRow /\ code[c] \in CodeRow
    BY DEF Issued, Safe, TypeOK
  <1>1. CASE UNCHANGED code
    BY <1>0, <1>1
  <1>2. CASE \E r \in Requests : IssueCommit(r)
    <2>1. PICK r \in Requests : IssueCommit(r)
      BY <1>2
    <2>2. /\ request[r].code \notin Issued /\ c \in Issued'
          /\ \A d \in request[r].stale : code'[d] = [code[d] EXCEPT !.consumed = TRUE]
          /\ \A d \in Codes : d # request[r].code /\ d \notin request[r].stale => code'[d] = code[d]
      BY <2>1, CommitTable
    <2>3. CASE c \in request[r].stale
      BY <1>0, <2>2, <2>3 DEF CodeRow, Issued
    <2>4. CASE c \notin request[r].stale
      BY <1>0, <2>2, <2>4 DEF Issued
    <2>5. QED
      BY <2>3, <2>4
  <1>3. CASE \E r \in Requests : RedeemCommit(r)
    <2>1. PICK r \in Requests : RedeemCommit(r)
      BY <1>3
    <2>2. /\ c \in Issued'
          /\ code'[request[r].code] = [code[request[r].code] EXCEPT !.consumed = TRUE]
          /\ \A d \in Codes : d # request[r].code => code'[d] = code[d]
      BY <2>1, ConsumedTable
    <2>3. CASE c = request[r].code
      BY <1>0, <2>2, <2>3 DEF CodeRow, Issued
    <2>4. CASE c # request[r].code
      BY <1>0, <2>2, <2>4
    <2>5. QED
      BY <2>3, <2>4
  <1>4. CASE \E d \in Codes : CodeAges(d)
    <2>1. PICK d \in Codes : CodeAges(d)
      BY <1>4
    <2>2. c \in Issued' /\ code'[c].consumed = code[c].consumed
      BY <2>1, AgedTable DEF Safe
    <2>3. QED
      BY <2>2 DEF Issued
  <1>5. QED
    BY <1>1, <1>2, <1>3, <1>4, CodeNextCases
       DEF codeVars, IssueRead, RedeemRead, IssueInvalidate, Abort, RedeemWrong

\* A consumed code never becomes acceptable again, however requests overlap.
THEOREM ConsumedForeverHolds == CodeSpec => ConsumedForever
  <1>1. Safe /\ [CodeNext]_codeVars =>
          [\A c \in Issued : code[c].consumed => code'[c] # NoRow /\ code'[c].consumed]_codeVars
    BY ConsumedStays
  <1>2. QED
    BY <1>1, SafeInit, SafeStep, PTL DEF CodeSpec, ConsumedForever

-----------------------------------------------------------------------------
(***************************************************************************)
(* Outstanding codes.                                                      *)
(***************************************************************************)

\* Where nothing is inserted, what is outstanding was so before.
LEMMA OutstandingShrinks ==
  ASSUME Issued' = Issued,
         \A c \in Issued : /\ code'[c].user = code[c].user
                            /\ code'[c].purpose = code[c].purpose
                            /\ code'[c].by = code[c].by,
         \A c \in Issued : code[c].consumed => code'[c].consumed,
         NEW u, NEW p
  PROVE  /\ Outstanding(u, p)' \subseteq Outstanding(u, p)
         /\ \A c \in Outstanding(u, p)' : code'[c].by = code[c].by
  <1>1. ASSUME NEW c \in Outstanding(u, p)'
        PROVE  c \in Outstanding(u, p) /\ code'[c].by = code[c].by
    <2>1. c \in Issued' /\ code'[c].user = u /\ code'[c].purpose = p /\ ~code'[c].consumed
      BY DEF Outstanding, IssuedTo
    <2>2. c \in Issued /\ code[c].user = u /\ code[c].purpose = p /\ code'[c].by = code[c].by
      BY <2>1
    <2>3. ~code[c].consumed
      BY <2>1, <2>2, Zenon
    <2>4. QED
      BY <2>2, <2>3 DEF Outstanding, IssuedTo
  <1>2. QED
    BY <1>1

LEMMA OnePerRequestStep == Safe /\ OnePerRequest /\ [CodeNext]_codeVars => OnePerRequest'
  <1> SUFFICES ASSUME Safe, OnePerRequest, CodeNext \/ UNCHANGED codeVars PROVE OnePerRequest'
    OBVIOUS
  <1>1. ASSUME UNCHANGED code,
               \A r \in Requests : request'[r].op = "invalidated" => request'[r] = request[r]
        PROVE  OnePerRequest'
    BY <1>1 DEF OnePerRequest, Outstanding, IssuedTo, Issued
  <1>2. CASE UNCHANGED codeVars
    BY <1>1, <1>2 DEF codeVars
  <1>3. CASE \E r \in Requests, u \in Accounts, p \in Purposes : IssueRead(r, u, p) \/ RedeemRead(r, u, p)
    <2>1. PICK r \in Requests, u \in Accounts, p \in Purposes : IssueRead(r, u, p) \/ RedeemRead(r, u, p)
      BY <1>3
    <2>2. UNCHANGED code
      BY <2>1 DEF IssueRead, RedeemRead
    <2>3. \A q \in Requests : request'[q].op = "invalidated" => request'[q] = request[q]
      BY <2>1 DEF IssueRead, RedeemRead, Proceed, Safe, TypeOK
    <2>4. QED
      BY <1>1, <2>2, <2>3
  <1>4. CASE \E r \in Requests : IssueInvalidate(r)
    <2>1. PICK r \in Requests : IssueInvalidate(r)
      BY <1>4
    <2> DEFINE q == request[r]
    <2>2. /\ UNCHANGED code
          /\ request'[r] = [op |-> "invalidated", user |-> q.user, purpose |-> q.purpose,
                            code |-> q.code, stale |-> Outstanding(q.user, q.purpose),
                            rivals |-> Running]
          /\ \A t \in Requests \ {r} : request'[t] = request[t]
      BY <2>1 DEF IssueInvalidate, Proceed, Safe, TypeOK
    <2>3. ASSUME NEW u \in Accounts, NEW p \in Purposes PROVE Outstanding(u, p)' = Outstanding(u, p)
      BY <2>2 DEF Outstanding, IssuedTo, Issued
    <2>4. QED
      BY <2>2, <2>3 DEF OnePerRequest
  <1>5. CASE \E r \in Requests : IssueCommit(r)
    <2>1. PICK r \in Requests : IssueCommit(r)
      BY <1>5
    <2> DEFINE q == request[r]
    <2>2. /\ q.code \in Codes /\ q.code \notin Issued /\ q.stale \subseteq Issued
          /\ code'[q.code] = NewCode(q.user, q.purpose, r, q.rivals)
          /\ \A c \in q.stale : code'[c] = [code[c] EXCEPT !.consumed = TRUE]
          /\ \A c \in Codes : c # q.code /\ c \notin q.stale => code'[c] = code[c]
          /\ request' = [request EXCEPT ![r] = Idle]
          /\ Issued' = Issued \cup {q.code}
      BY <2>1, CommitTable
    <2>3. q.op = "invalidated" /\ q.user \in Accounts /\ q.purpose \in Purposes
      BY <2>1, RequestTypes DEF IssueCommit, Safe
    <2>4. /\ code'[q.code].user = q.user /\ code'[q.code].purpose = q.purpose /\ code'[q.code].by = r
      BY <2>2 DEF NewCode
    <2>5. \A c \in q.stale : code'[c].consumed
      BY <2>2 DEF Issued, Safe, TypeOK, CodeRow
    <2>6. ASSUME NEW u \in Accounts, NEW p \in Purposes, NEW c \in Outstanding(u, p)'
          PROVE  \/ c = q.code /\ u = q.user /\ p = q.purpose
                 \/ c \in Outstanding(u, p) /\ c \notin q.stale /\ code'[c] = code[c]
      <3>1. c \in Issued' /\ code'[c].user = u /\ code'[c].purpose = p /\ ~code'[c].consumed
        BY DEF Outstanding, IssuedTo
      <3>2. CASE c = q.code
        BY <2>4, <3>1, <3>2
      <3>3. CASE c # q.code
        <4>1. c \in Issued /\ c \notin q.stale /\ c \in Codes
          BY <2>2, <2>5, <3>1, <3>3 DEF Issued
        <4>2. QED
          BY <2>2, <3>1, <3>3, <4>1 DEF Outstanding, IssuedTo
      <3>4. QED
        BY <3>2, <3>3
    <2>7. ASSUME NEW u \in Accounts, NEW p \in Purposes,
                 NEW c \in Outstanding(u, p)', NEW d \in Outstanding(u, p)', code'[c].by = code'[d].by
          PROVE  c = d
      <3>1. ASSUME NEW e \in Outstanding(u, p), e \notin q.stale, u = q.user, p = q.purpose
            PROVE  code[e].by # r
        BY <2>3, <3>1 DEF OnePerRequest
      <3>2. QED
        BY <2>4, <2>6, <2>7, <3>1 DEF OnePerRequest
    <2>8. ASSUME NEW t \in Requests, NEW u \in Accounts, NEW p \in Purposes,
                 request'[t].op = "invalidated", request'[t].user = u, request'[t].purpose = p,
                 NEW c \in Outstanding(u, p)', code'[c].by = t
          PROVE  c \in request'[t].stale
      <3>1. t # r /\ request'[t] = request[t]
        BY <2>2, <2>8 DEF Idle, Safe, TypeOK
      <3>2. c # q.code
        BY <2>4, <2>8, <3>1
      <3>3. QED
        BY <2>6, <2>8, <3>1, <3>2 DEF OnePerRequest
    <2>9. QED
      BY <2>7, <2>8 DEF OnePerRequest
  <1>6. ASSUME Issued' = Issued,
               \A c \in Issued : /\ code'[c].user = code[c].user
                                  /\ code'[c].purpose = code[c].purpose
                                  /\ code'[c].by = code[c].by,
               \A c \in Issued : code[c].consumed => code'[c].consumed,
               \A r \in Requests : request'[r].op = "invalidated" => request'[r] = request[r]
        PROVE  OnePerRequest'
    BY <1>6, OutstandingShrinks DEF OnePerRequest
  <1>7. CASE \E r \in Requests : RedeemCommit(r)
    <2>1. PICK r \in Requests : RedeemCommit(r)
      BY <1>7
    <2>2. /\ Issued' = Issued /\ request' = [request EXCEPT ![r] = Idle]
          /\ code'[request[r].code] = [code[request[r].code] EXCEPT !.consumed = TRUE]
          /\ \A c \in Codes : c # request[r].code => code'[c] = code[c]
      BY <2>1, ConsumedTable
    <2>3. \A c \in Issued : c \in Codes /\ code[c] \in CodeRow
      BY DEF Issued, Safe, TypeOK
    <2>4. \A c \in Issued : /\ code'[c].user = code[c].user
                             /\ code'[c].purpose = code[c].purpose
                             /\ code'[c].by = code[c].by
      BY <2>2, <2>3 DEF CodeRow
    <2>5. \A c \in Issued : code[c].consumed => code'[c].consumed
      BY ConsumedStays
    <2>6. \A q \in Requests : request'[q].op = "invalidated" => request'[q] = request[q]
      BY <2>2 DEF Idle, Safe, TypeOK
    <2>7. QED
      BY <1>6, <2>2, <2>4, <2>5, <2>6
  <1>8. CASE \E r \in Requests : Abort(r)
    BY <1>1, <1>8 DEF Abort, Proceed, Idle, Safe, TypeOK
  <1>9. CASE \E u \in Accounts, p \in Purposes : RedeemWrong(u, p)
    BY <1>1, <1>9 DEF RedeemWrong
  <1>10. CASE \E c \in Codes : CodeAges(c)
    <2>1. PICK c \in Codes : CodeAges(c)
      BY <1>10
    <2>2. /\ Issued' = Issued /\ UNCHANGED request
          /\ \A d \in Issued : /\ code'[d].user = code[d].user
                                /\ code'[d].purpose = code[d].purpose
                                /\ code'[d].consumed = code[d].consumed
                                /\ code'[d].by = code[d].by
      BY <2>1, AgedTable DEF Safe
    <2>3. \A d \in Issued : code[d].consumed => code'[d].consumed
      BY ConsumedStays
    <2>4. QED
      BY <1>6, <2>2, <2>3
  <1>11. QED
    BY <1>2, <1>3, <1>4, <1>5, <1>7, <1>8, <1>9, <1>10, CodeNextCases

LEMMA OnePerRequestInit == CodeInit => OnePerRequest
  BY DEF CodeInit, OnePerRequest, Outstanding, IssuedTo, Issued, Idle

LEMMA OnePerRequestBounds == Safe /\ OnePerRequest => OutstandingBounded
  <1> SUFFICES ASSUME Safe, OnePerRequest, NEW u \in Accounts, NEW p \in Purposes
               PROVE  Cardinality(Outstanding(u, p)) <= Cardinality(Requests)
    BY DEF OutstandingBounded
  <1> DEFINE f == [c \in Outstanding(u, p) |-> code[c].by]
  <1>1. f \in Injection(Outstanding(u, p), Requests)
    <2>1. \A c \in Outstanding(u, p) : code[c].by \in Requests
      BY DEF Safe, TypeOK, Outstanding, IssuedTo, Issued, CodeRow
    <2>2. QED
      BY <2>1 DEF OnePerRequest, Injection, IsInjective
  <1>2. QED
    BY <1>1, FS_Injection, CodesAssumption

\* No more codes of a mailbox are acceptable at once than requests overlap.
THEOREM OutstandingBoundedHolds == CodeSpec => []OutstandingBounded
  BY SafeInit, SafeStep, OnePerRequestInit, OnePerRequestStep, OnePerRequestBounds, PTL DEF CodeSpec

-----------------------------------------------------------------------------
(***************************************************************************)
(* Uses of a code.                                                         *)
(***************************************************************************)
LEMMA RedeemingFinite ==
  ASSUME NEW c
  PROVE  /\ IsFiniteSet(Redeeming(c)) /\ Cardinality(Redeeming(c)) \in Nat
         /\ Cardinality(Requests) \in Nat
         /\ Cardinality(Redeeming(c)) <= Cardinality(Requests)
  <1>1. Redeeming(c) \in SUBSET Requests
    BY DEF Redeeming
  <1>2. QED
    BY <1>1, FS_Subset, FS_CardinalityType, CodesAssumption

\* A step that commits no use of c leaves its count, and adds to the requests about
\* to use it only while it is unconsumed.
LEMMA CountKept ==
  ASSUME Safe, RedemptionsCounted, NEW c \in Codes,
         redeemed'[c] = redeemed[c],
         c \in Issued /\ code[c].consumed => c \in Issued' /\ code'[c].consumed,
         Redeeming(c)' \subseteq Redeeming(c) \/ (c \in Issued /\ ~code[c].consumed)
  PROVE  /\ redeemed'[c] + Cardinality(Redeeming(c)') <= Cardinality(Requests)
         /\ redeemed'[c] > 0 => c \in Issued' /\ code'[c].consumed
  <1>1. redeemed[c] \in Nat
    BY DEF Safe, TypeOK
  <1>2. /\ redeemed[c] + Cardinality(Redeeming(c)) <= Cardinality(Requests)
        /\ redeemed[c] > 0 => c \in Issued /\ code[c].consumed
    BY DEF RedemptionsCounted
  <1>3. CASE Redeeming(c)' \subseteq Redeeming(c)
    <2>1. Cardinality(Redeeming(c)') <= Cardinality(Redeeming(c)) /\ Cardinality(Redeeming(c)') \in Nat
      BY <1>3, RedeemingFinite, FS_Subset, FS_CardinalityType
    <2>2. QED
      BY <1>1, <1>2, <2>1, RedeemingFinite
  <1>4. CASE c \in Issued /\ ~code[c].consumed
    <2>1. redeemed[c] = 0
      BY <1>1, <1>2, <1>4
    <2>2. Redeeming(c)' \in SUBSET Requests
      BY DEF Redeeming
    <2>3. Cardinality(Redeeming(c)') <= Cardinality(Requests) /\ Cardinality(Redeeming(c)') \in Nat
      BY <2>2, FS_Subset, FS_CardinalityType, CodesAssumption
    <2>4. QED
      BY <2>1, <2>3
  <1>5. QED
    BY <1>3, <1>4

LEMMA RedemptionsCountedStep ==
  Safe /\ RedemptionsCounted /\ [CodeNext]_codeVars => RedemptionsCounted'
  <1> SUFFICES ASSUME Safe, RedemptionsCounted, CodeNext \/ UNCHANGED codeVars, NEW c \in Codes
               PROVE  /\ redeemed'[c] + Cardinality(Redeeming(c)') <= Cardinality(Requests)
                      /\ redeemed'[c] > 0 => c \in Issued' /\ code'[c].consumed
    BY DEF RedemptionsCounted
  <1>1. c \in Issued /\ code[c].consumed => c \in Issued' /\ code'[c].consumed
    BY ConsumedStays DEF Issued
  <1>2. CASE \E r \in Requests : RedeemCommit(r)
    <2>1. PICK r \in Requests : RedeemCommit(r)
      BY <1>2
    <2> DEFINE k == request[r].code
    <2>2. /\ k \in Issued /\ Issued' = Issued
          /\ code'[k] = [code[k] EXCEPT !.consumed = TRUE]
          /\ request' = [request EXCEPT ![r] = Idle]
          /\ redeemed' = [redeemed EXCEPT ![k] = @ + 1]
      BY <2>1, ConsumedTable
    <2>3. Redeeming(c)' = Redeeming(c) \ {r} /\ r \in Redeeming(k)
      BY <2>1, <2>2 DEF Redeeming, RedeemCommit, Idle, Safe, TypeOK
    <2>4. CASE c # k
      <3>1. redeemed'[c] = redeemed[c] /\ Redeeming(c)' \subseteq Redeeming(c)
        BY <2>2, <2>3, <2>4 DEF Safe, TypeOK
      <3>2. QED
        BY <1>1, <3>1, CountKept
    <2>5. CASE c = k
      <3>1. redeemed[c] \in Nat /\ redeemed'[c] = redeemed[c] + 1
        BY <2>2, <2>5 DEF Safe, TypeOK
      <3>2. Cardinality(Redeeming(c)') = Cardinality(Redeeming(c)) - 1
        BY <2>3, <2>5, RedeemingFinite, FS_RemoveElement
      <3>3. redeemed[c] + Cardinality(Redeeming(c)) <= Cardinality(Requests)
        BY DEF RedemptionsCounted
      <3>4. c \in Issued' /\ code'[c].consumed
        BY <2>2, <2>5 DEF Issued, Safe, TypeOK, CodeRow
      <3>5. QED
        BY <3>1, <3>2, <3>3, <3>4, RedeemingFinite
    <2>6. QED
      BY <2>4, <2>5
  <1>3. ASSUME redeemed' = redeemed,
               Redeeming(c)' \subseteq Redeeming(c) \/ (c \in Issued /\ ~code[c].consumed)
        PROVE  /\ redeemed'[c] + Cardinality(Redeeming(c)') <= Cardinality(Requests)
               /\ redeemed'[c] > 0 => c \in Issued' /\ code'[c].consumed
    BY <1>1, <1>3, CountKept
  <1>4. CASE \E r \in Requests, u \in Accounts, p \in Purposes : RedeemRead(r, u, p)
    <2>1. PICK r \in Requests, u \in Accounts, p \in Purposes : RedeemRead(r, u, p)
      BY <1>4
    <2>2. PICK d \in Codes : /\ Candidate(u, p, d)
                             /\ request' = [request EXCEPT ![r] = [op |-> "redeem", code |-> d]]
      BY <2>1 DEF RedeemRead, Proceed
    <2>3. d \in Issued /\ ~code[d].consumed
      BY <2>2, CandidateIssued
    <2>4. c # d => Redeeming(c)' \subseteq Redeeming(c)
      BY <2>2 DEF Redeeming, Safe, TypeOK
    <2>5. redeemed' = redeemed
      BY <2>1 DEF RedeemRead
    <2>6. QED
      BY <1>3, <2>3, <2>4, <2>5
  <1>5. CASE \E r \in Requests, u \in Accounts, p \in Purposes : IssueRead(r, u, p)
    <2>1. PICK r \in Requests, u \in Accounts, p \in Purposes : IssueRead(r, u, p)
      BY <1>5
    <2>2. Redeeming(c)' \subseteq Redeeming(c) /\ redeemed' = redeemed
      BY <2>1 DEF IssueRead, Proceed, Redeeming, Safe, TypeOK
    <2>3. QED
      BY <1>3, <2>2
  <1>6. CASE \E r \in Requests : IssueInvalidate(r)
    <2>1. Redeeming(c)' \subseteq Redeeming(c) /\ redeemed' = redeemed
      BY <1>6 DEF IssueInvalidate, Proceed, Redeeming, Safe, TypeOK
    <2>2. QED
      BY <1>3, <2>1
  <1>7. CASE \E r \in Requests : IssueCommit(r)
    <2>1. PICK r \in Requests : IssueCommit(r)
      BY <1>7
    <2>2. request' = [request EXCEPT ![r] = Idle] /\ redeemed' = redeemed
      BY <2>1, CommitTable
    <2>3. Redeeming(c)' \subseteq Redeeming(c)
      BY <2>2 DEF Redeeming, Safe, TypeOK, Idle
    <2>4. QED
      BY <1>3, <2>2, <2>3
  <1>8. CASE \E r \in Requests : Abort(r)
    <2>1. Redeeming(c)' \subseteq Redeeming(c) /\ redeemed' = redeemed
      BY <1>8 DEF Abort, Proceed, Redeeming, Safe, TypeOK, Idle
    <2>2. QED
      BY <1>3, <2>1
  <1>9. CASE UNCHANGED <<request, redeemed>>
    BY <1>3, <1>9 DEF Redeeming
  <1>10. CASE UNCHANGED codeVars \/ (\E u \in Accounts, p \in Purposes : RedeemWrong(u, p))
              \/ (\E d \in Codes : CodeAges(d))
    BY <1>9, <1>10 DEF codeVars, RedeemWrong, CodeAges
  <1>11. QED
    BY <1>2, <1>4, <1>5, <1>6, <1>7, <1>8, <1>10, CodeNextCases

LEMMA RedemptionsCountedInit == CodeInit => RedemptionsCounted
  <1> SUFFICES ASSUME CodeInit, NEW c \in Codes
               PROVE  /\ redeemed[c] + Cardinality(Redeeming(c)) <= Cardinality(Requests)
                      /\ redeemed[c] > 0 => c \in Issued /\ code[c].consumed
    BY DEF RedemptionsCounted
  <1>1. redeemed[c] = 0
    BY DEF CodeInit
  <1>2. QED
    BY <1>1, RedeemingFinite

LEMMA CountBounds == Safe /\ RedemptionsCounted => RedemptionsBounded
  <1> SUFFICES ASSUME Safe, RedemptionsCounted, NEW c \in Codes
               PROVE  redeemed[c] <= Cardinality(Requests)
    BY DEF RedemptionsBounded
  <1>1. redeemed[c] \in Nat /\ redeemed[c] + Cardinality(Redeeming(c)) <= Cardinality(Requests)
    BY DEF Safe, TypeOK, RedemptionsCounted
  <1>2. QED
    BY <1>1, RedeemingFinite

\* A code lets through no more requests than overlap.
THEOREM RedemptionsBoundedHolds == CodeSpec => []RedemptionsBounded
  BY SafeInit, SafeStep, RedemptionsCountedInit, RedemptionsCountedStep, CountBounds, PTL DEF CodeSpec

-----------------------------------------------------------------------------
(***************************************************************************)
(* The newest code.  A code committed since a request invalidated was      *)
(* being issued when it did, if its number is the lower one.               *)
(***************************************************************************)
RunningKnown ==
  \A r \in Issuing :
    /\ \A q \in Issuing : request[q].op = "invalidated" /\ request[r].code < request[q].code =>
         request[r].code \in request[q].rivals
    /\ \A d \in Issued : request[r].code < d => request[r].code \in code[d].rivals

OlderKnown ==
  \A r \in Requests :
    request[r].op = "invalidated" =>
      \A c \in Outstanding(request[r].user, request[r].purpose) :
        c < request[r].code => c \in request[r].stale \cup request[r].rivals

RivalsKnown == RunningKnown /\ OlderKnown /\ NewestOnly

LEMMA CodesAreNumbers == Codes \subseteq Nat
  BY CodesAssumption DEF Codes

\* Steps that leave the table and take no request to the stage after invalidating.
LEMMA RivalsKept ==
  ASSUME RivalsKnown, UNCHANGED code,
         \A r \in Requests : request'[r].op \in {"issue", "invalidated"} => request'[r] = request[r]
  PROVE  RivalsKnown'
  <1>1. Issued' = Issued /\ \A u, p : Outstanding(u, p)' = Outstanding(u, p)
    BY DEF Issued, Outstanding, IssuedTo
  <1>2. \A r \in Issuing' : r \in Issuing /\ request'[r] = request[r]
    BY DEF Issuing
  <1>3. RunningKnown'
    BY <1>1, <1>2 DEF RivalsKnown, RunningKnown
  <1>4. OlderKnown' /\ NewestOnly'
    BY <1>1 DEF RivalsKnown, OlderKnown, NewestOnly
  <1>5. QED
    BY <1>3, <1>4 DEF RivalsKnown

\* Steps that insert nothing and make no code acceptable again.
LEMMA RivalsOutlast ==
  ASSUME Safe, RivalsKnown, Issued' = Issued,
         \A c \in Issued : /\ code'[c].user = code[c].user
                            /\ code'[c].purpose = code[c].purpose
                            /\ code'[c].by = code[c].by,
         \A c \in Issued : code'[c].rivals = code[c].rivals,
         \A c \in Issued : code[c].consumed => code'[c].consumed,
         \A r \in Requests : request'[r].op \in {"issue", "invalidated"} => request'[r] = request[r]
  PROVE  RivalsKnown'
  <1>1. \A u, p : Outstanding(u, p)' \subseteq Outstanding(u, p)
    BY OutstandingShrinks
  <1>2. \A r \in Issuing' : r \in Issuing /\ request'[r] = request[r]
    BY DEF Issuing
  <1>3. \A u, p : Outstanding(u, p) \subseteq Issued
    BY DEF Outstanding, IssuedTo
  <1>4. RunningKnown'
    BY <1>2 DEF RivalsKnown, RunningKnown
  <1>5. OlderKnown'
    BY <1>1 DEF RivalsKnown, OlderKnown
  <1>6. NewestOnly'
    <2>1. ASSUME NEW u \in Accounts, NEW p \in Purposes,
                 NEW c \in Outstanding(u, p)', NEW d \in Outstanding(u, p)', c < d
          PROVE  c \in code'[d].rivals
      <3>1. c \in Outstanding(u, p) /\ d \in Outstanding(u, p) /\ d \in Issued
        BY <1>1, <1>3
      <3>2. c \in code[d].rivals
        BY <2>1, <3>1 DEF RivalsKnown, NewestOnly
      <3>3. QED
        BY <3>1, <3>2
    <2>2. QED
      BY <2>1 DEF NewestOnly
  <1>7. QED
    BY <1>4, <1>5, <1>6 DEF RivalsKnown

LEMMA RivalsRead ==
  ASSUME Safe, RivalsKnown, NEW r \in Requests, NEW u \in Accounts, NEW p \in Purposes, IssueRead(r, u, p)
  PROVE  RivalsKnown'
  <1>1. PICK n \in Codes :
          /\ NextNumber(n)
          /\ request' = [request EXCEPT ![r] = [op |-> "issue", user |-> u, purpose |-> p, code |-> n]]
    BY DEF IssueRead, Proceed
  <1>2. UNCHANGED code /\ Issued' = Issued /\ \A v, w : Outstanding(v, w)' = Outstanding(v, w)
    BY DEF IssueRead, Issued, Outstanding, IssuedTo
  <1>3. \A k \in Numbered : k \in Nat /\ k < n
    <2>1. \A k \in Numbered : k <= n - 1
      BY <1>1 DEF NextNumber, Latest
    <2>2. Numbered \subseteq Codes
      BY RunningCodes DEF Numbered, Issued, Safe
    <2>3. QED
      BY <2>1, <2>2, CodesAreNumbers
  <1>4. /\ request'[r].op = "issue" /\ request'[r].code = n
        /\ \A q \in Requests \ {r} : request'[q] = request[q]
    BY <1>1 DEF Safe, TypeOK
  <1>5. ASSUME NEW q \in Issuing, q # r PROVE request[q].code \in Numbered
    BY DEF Issuing, Numbered, Running
  <1>6. RunningKnown'
    <2>1. ASSUME NEW s \in Issuing', NEW q \in Issuing', request'[q].op = "invalidated",
                 request'[s].code < request'[q].code
          PROVE  request'[s].code \in request'[q].rivals
      <3>1. q # r /\ q \in Issuing /\ request'[q] = request[q] /\ request[q].code < n
        BY <1>3, <1>4, <1>5, <2>1 DEF Issuing
      <3>2. s # r
        BY <1>1, <1>3, <1>4, <1>5, <2>1, <3>1, CodesAreNumbers
      <3>3. s \in Issuing /\ request'[s] = request[s]
        BY <1>4, <3>2 DEF Issuing
      <3>4. QED
        BY <2>1, <3>1, <3>3 DEF RivalsKnown, RunningKnown
    <2>2. ASSUME NEW s \in Issuing', NEW d \in Issued, request'[s].code < d
          PROVE  request'[s].code \in code[d].rivals
      <3>1. s # r
        <4>1. d \in Nat /\ d < n /\ n \in Nat
          BY <1>3, CodesAreNumbers DEF Numbered
        <4>2. QED
          BY <1>4, <2>2, <4>1
      <3>2. s \in Issuing /\ request'[s] = request[s]
        BY <1>4, <3>1 DEF Issuing
      <3>3. QED
        BY <2>2, <3>2 DEF RivalsKnown, RunningKnown
    <2>3. QED
      BY <1>2, <2>1, <2>2 DEF RunningKnown
  <1>7. OlderKnown' /\ NewestOnly'
    BY <1>2, <1>4 DEF RivalsKnown, OlderKnown, NewestOnly
  <1>8. QED
    BY <1>6, <1>7 DEF RivalsKnown

LEMMA RivalsInvalidate ==
  ASSUME Safe, RivalsKnown, NEW r \in Requests, IssueInvalidate(r)
  PROVE  RivalsKnown'
  <1> DEFINE q == request[r]
  <1>1. /\ UNCHANGED code /\ q.op = "issue"
        /\ request'[r] = [op |-> "invalidated", user |-> q.user, purpose |-> q.purpose,
                          code |-> q.code, stale |-> Outstanding(q.user, q.purpose),
                          rivals |-> Running]
        /\ \A t \in Requests \ {r} : request'[t] = request[t]
    BY DEF IssueInvalidate, Proceed, Safe, TypeOK
  <1>2. Issued' = Issued /\ \A u, p : Outstanding(u, p)' = Outstanding(u, p)
    BY <1>1 DEF Issued, Outstanding, IssuedTo
  <1>3. Issuing' = Issuing /\ \A t \in Issuing : request'[t].code = request[t].code
    BY <1>1 DEF Issuing
  <1>4. \A t \in Issuing : request[t].code \in Running
    BY DEF Running, Issuing
  <1>5. RunningKnown'
    <2>1. ASSUME NEW s \in Issuing, NEW t \in Issuing, request'[t].op = "invalidated",
                 request[s].code < request[t].code
          PROVE  request[s].code \in request'[t].rivals
      <3>1. CASE t = r
        BY <1>1, <1>4, <3>1
      <3>2. CASE t # r
        BY <1>1, <2>1, <3>2 DEF RivalsKnown, RunningKnown, Issuing
      <3>3. QED
        BY <3>1, <3>2
    <2>2. QED
      BY <1>1, <1>2, <1>3, <2>1 DEF RivalsKnown, RunningKnown
  <1>6. OlderKnown' /\ NewestOnly'
    BY <1>1, <1>2 DEF RivalsKnown, OlderKnown, NewestOnly
  <1>7. QED
    BY <1>5, <1>6 DEF RivalsKnown

LEMMA RivalsCommit ==
  ASSUME Safe, RivalsKnown, NEW r \in Requests, IssueCommit(r)
  PROVE  RivalsKnown'
  <1> DEFINE q == request[r]
  <1>1. /\ q.code \in Codes /\ q.code \notin Issued /\ q.stale \subseteq Issued /\ r \in Issuing
        /\ code'[q.code] = NewCode(q.user, q.purpose, r, q.rivals)
        /\ \A c \in q.stale : code'[c] = [code[c] EXCEPT !.consumed = TRUE]
        /\ \A c \in Codes : c # q.code /\ c \notin q.stale => code'[c] = code[c]
        /\ request' = [request EXCEPT ![r] = Idle]
        /\ Issued' = Issued \cup {q.code}
    BY CommitTable
  <1>2. q.op = "invalidated" /\ q.user \in Accounts /\ q.purpose \in Purposes
    BY RequestTypes DEF IssueCommit, Safe
  <1>3. /\ code'[q.code].user = q.user /\ code'[q.code].purpose = q.purpose
        /\ code'[q.code].rivals = q.rivals
    BY <1>1 DEF NewCode
  <1>4. /\ \A t \in Requests \ {r} : request'[t] = request[t]
        /\ \A t \in Requests : request'[t].op \in {"issue", "invalidated"} => t # r
    BY <1>1 DEF Idle, Safe, TypeOK
  <1>5. \A s \in Issuing' : s \in Issuing /\ s # r /\ request'[s] = request[s]
    BY <1>4 DEF Issuing
  <1>6. \A c \in Issued : c \in Codes /\ code[c] \in CodeRow /\ c # q.code
    BY <1>1 DEF Issued, Safe, TypeOK
  <1>7. \A c \in q.stale : code'[c].consumed /\ code'[c].rivals = code[c].rivals
    <2>1. ASSUME NEW c \in q.stale PROVE code'[c].consumed /\ code'[c].rivals = code[c].rivals
      <3>1. code[c] \in CodeRow /\ code'[c] = [code[c] EXCEPT !.consumed = TRUE]
        BY <1>1, <1>6
      <3>2. QED
        BY <3>1 DEF CodeRow
    <2>2. QED
      BY <2>1
  <1>8. \A c \in Issued : code'[c].rivals = code[c].rivals
    BY <1>1, <1>6, <1>7
  <1>9. ASSUME NEW u \in Accounts, NEW p \in Purposes, NEW c \in Outstanding(u, p)'
        PROVE  \/ c = q.code /\ u = q.user /\ p = q.purpose
               \/ c \in Outstanding(u, p) /\ c \in Issued /\ c \notin q.stale
    <2>1. c \in Issued' /\ code'[c].user = u /\ code'[c].purpose = p /\ ~code'[c].consumed
      BY DEF Outstanding, IssuedTo
    <2>2. CASE c = q.code
      BY <1>3, <2>1, <2>2
    <2>3. CASE c # q.code
      <3>1. c \in Issued
        BY <1>1, <2>1, <2>3
      <3>2. c \notin q.stale
        BY <1>7, <2>1, Zenon
      <3>3. code'[c] = code[c]
        BY <1>1, <1>6, <3>1, <3>2
      <3>4. QED
        BY <2>1, <3>1, <3>2, <3>3 DEF Outstanding, IssuedTo
    <2>4. QED
      BY <2>2, <2>3
  <1>10. RunningKnown'
    <2>1. ASSUME NEW s \in Issuing', NEW t \in Issuing', request'[t].op = "invalidated",
                 request'[s].code < request'[t].code
          PROVE  request'[s].code \in request'[t].rivals
      BY <1>5, <2>1 DEF RivalsKnown, RunningKnown
    <2>2. ASSUME NEW s \in Issuing', NEW d \in Issued', request'[s].code < d
          PROVE  request'[s].code \in code'[d].rivals
      <3>1. s \in Issuing /\ s # r /\ request'[s] = request[s]
        BY <1>5
      <3>2. CASE d = q.code
        BY <1>1, <1>2, <1>3, <2>2, <3>1, <3>2 DEF RivalsKnown, RunningKnown
      <3>3. CASE d \in Issued
        BY <1>8, <2>2, <3>1, <3>3 DEF RivalsKnown, RunningKnown
      <3>4. QED
        BY <1>1, <3>2, <3>3
    <2>3. QED
      BY <2>1, <2>2 DEF RunningKnown
  <1>11. OlderKnown'
    <2>1. ASSUME NEW t \in Requests, request'[t].op = "invalidated", NEW u, NEW p,
                 u = request'[t].user, p = request'[t].purpose,
                 NEW c \in Outstanding(u, p)', c < request'[t].code
          PROVE  c \in request'[t].stale \cup request'[t].rivals
      <3>1. t # r /\ request'[t] = request[t] /\ t \in Issuing
        BY <1>4, <2>1 DEF Issuing
      <3>2. u = request[t].user /\ p = request[t].purpose /\ u \in Accounts /\ p \in Purposes
        BY <2>1, <3>1, RequestTypes DEF Safe
      <3>3. CASE c = q.code
        BY <1>1, <2>1, <3>1, <3>3 DEF RivalsKnown, RunningKnown
      <3>4. CASE c \in Outstanding(u, p)
        BY <2>1, <3>1, <3>2, <3>4 DEF RivalsKnown, OlderKnown
      <3>5. QED
        BY <1>9, <3>1, <3>2, <3>3, <3>4
    <2>2. QED
      BY <2>1 DEF OlderKnown
  <1>12. NewestOnly'
    <2>1. ASSUME NEW u \in Accounts, NEW p \in Purposes,
                 NEW c \in Outstanding(u, p)', NEW d \in Outstanding(u, p)', c < d
          PROVE  c \in code'[d].rivals
      <3>1. c \in Nat /\ d \in Nat
        BY <1>1, <1>6, <1>9, CodesAreNumbers
      <3>2. CASE d = q.code
        <4>1. u = q.user /\ p = q.purpose
          BY <1>6, <1>9, <3>2
        <4>2. c \in Outstanding(u, p) /\ c \notin q.stale
          BY <1>9, <2>1, <3>1, <3>2
        <4>3. c \in q.rivals
          BY <1>2, <2>1, <3>2, <4>1, <4>2 DEF RivalsKnown, OlderKnown
        <4>4. QED
          BY <1>3, <3>2, <4>3
      <3>3. CASE d # q.code /\ c = q.code
        <4>1. d \in Issued
          BY <1>9, <3>3
        <4>2. c \in code[d].rivals
          BY <1>1, <2>1, <3>3, <4>1 DEF RivalsKnown, RunningKnown
        <4>3. QED
          BY <1>8, <4>1, <4>2
      <3>4. CASE d # q.code /\ c # q.code
        <4>1. c \in Outstanding(u, p) /\ d \in Outstanding(u, p) /\ d \in Issued
          BY <1>9, <3>4
        <4>2. QED
          BY <1>8, <2>1, <4>1 DEF RivalsKnown, NewestOnly
      <3>5. QED
        BY <3>2, <3>3, <3>4
    <2>2. QED
      BY <2>1 DEF NewestOnly
  <1>13. QED
    BY <1>10, <1>11, <1>12 DEF RivalsKnown

LEMMA RivalsStep == Safe /\ RivalsKnown /\ [CodeNext]_codeVars => RivalsKnown'
  <1> SUFFICES ASSUME Safe, RivalsKnown, CodeNext \/ UNCHANGED codeVars PROVE RivalsKnown'
    OBVIOUS
  <1>1. CASE UNCHANGED codeVars
    BY <1>1, RivalsKept DEF codeVars
  <1>2. ASSUME NEW r \in Requests, NEW u \in Accounts, NEW p \in Purposes, RedeemRead(r, u, p)
        PROVE  RivalsKnown'
    <2>1. UNCHANGED code
      BY <1>2 DEF RedeemRead
    <2>2. \A q \in Requests : request'[q].op \in {"issue", "invalidated"} => request'[q] = request[q]
      BY <1>2 DEF RedeemRead, Proceed, Safe, TypeOK
    <2>3. QED
      BY <2>1, <2>2, RivalsKept
  <1>3. ASSUME NEW r \in Requests, RedeemCommit(r) PROVE RivalsKnown'
    <2>1. /\ Issued' = Issued /\ request' = [request EXCEPT ![r] = Idle]
          /\ code'[request[r].code] = [code[request[r].code] EXCEPT !.consumed = TRUE]
          /\ \A c \in Codes : c # request[r].code => code'[c] = code[c]
      BY <1>3, ConsumedTable
    <2>2. \A c \in Issued : c \in Codes /\ code[c] \in CodeRow
      BY DEF Issued, Safe, TypeOK
    <2>3. \A c \in Issued : /\ code'[c].user = code[c].user
                             /\ code'[c].purpose = code[c].purpose
                             /\ code'[c].by = code[c].by
      BY <2>1, <2>2 DEF CodeRow
    <2>4. \A c \in Issued : code'[c].rivals = code[c].rivals
      BY <2>1, <2>2 DEF CodeRow
    <2>5. \A c \in Issued : code[c].consumed => code'[c].consumed
      BY ConsumedStays
    <2>6. \A q \in Requests : request'[q].op \in {"issue", "invalidated"} => request'[q] = request[q]
      BY <2>1 DEF Idle, Safe, TypeOK
    <2>7. QED
      BY <2>1, <2>3, <2>4, <2>5, <2>6, RivalsOutlast
  <1>4. ASSUME NEW r \in Requests, Abort(r) PROVE RivalsKnown'
    <2>1. UNCHANGED code
      BY <1>4 DEF Abort
    <2>2. \A q \in Requests : request'[q].op \in {"issue", "invalidated"} => request'[q] = request[q]
      BY <1>4 DEF Abort, Proceed, Idle, Safe, TypeOK
    <2>3. QED
      BY <2>1, <2>2, RivalsKept
  <1>5. ASSUME NEW u \in Accounts, NEW p \in Purposes, RedeemWrong(u, p) PROVE RivalsKnown'
    BY <1>5, RivalsKept DEF RedeemWrong
  <1>6. ASSUME NEW c \in Codes, CodeAges(c) PROVE RivalsKnown'
    <2>1. /\ Issued' = Issued /\ UNCHANGED request
          /\ \A d \in Issued : /\ code'[d].user = code[d].user
                                /\ code'[d].purpose = code[d].purpose
                                /\ code'[d].consumed = code[d].consumed
                                /\ code'[d].by = code[d].by
                                /\ code'[d].rivals = code[d].rivals
      BY <1>6, AgedTable DEF Safe
    <2>2. \A d \in Issued : code[d].consumed => code'[d].consumed
      BY ConsumedStays
    <2>3. QED
      BY <2>1, <2>2, RivalsOutlast
  <1>7. QED
    BY <1>1, <1>2, <1>3, <1>4, <1>5, <1>6, RivalsRead, RivalsInvalidate, RivalsCommit, CodeNextCases

LEMMA RivalsInit == CodeInit => RivalsKnown
  BY DEF CodeInit, RivalsKnown, RunningKnown, OlderKnown, NewestOnly, Outstanding, IssuedTo, Issued,
         Issuing, Idle

\* Of two codes of a mailbox that are acceptable at once, the older was still being issued when the
\* request that issued the newer one invalidated the earlier ones: asking again retires every mail
\* that had been committed.
THEOREM NewestCodeOnly == CodeSpec => []NewestOnly
  <1>1. RivalsKnown => NewestOnly
    BY DEF RivalsKnown
  <1>2. QED
    BY <1>1, SafeInit, SafeStep, RivalsInit, RivalsStep, PTL DEF CodeSpec
=============================================================================
