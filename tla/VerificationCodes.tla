------------------------- MODULE VerificationCodes -------------------------
(***************************************************************************)
(* The one-time codes mailed to prove control of a mailbox.                *)
(*                                                                         *)
(* Requests run concurrently, each in a READ COMMITTED transaction, so an  *)
(* operation is as many actions as it has statements whose answers matter: *)
(* what it read earlier may be stale when it writes.  A transaction's      *)
(* writes become visible together, at its commit; one that raises, or      *)
(* whose process dies, leaves nothing (Abort, and the refusals, which are  *)
(* disabled reads).                                                        *)
(*                                                                         *)
(* A code's number is its created_at order: the column defaults to the     *)
(* database's now(), the start of the issuing transaction.  Time is not    *)
(* counted: a row stops cooling down (60 s) and then expires (15 min).     *)
(*                                                                         *)
(* A definition marked "Slip" is a plausible mistake in the definition     *)
(* after it, kept to show which property would notice.                     *)
(***************************************************************************)
EXTENDS Naturals, FiniteSets

CONSTANTS
  Accounts,
  Purposes,      \* what a code is for: registration, password_reset
  Requests,      \* requests that can be in flight together
  MaxCodes,      \* bound: codes issued in a behaviour
  MaxAttempts,   \* email_verification_max_attempts
  NoRow

ASSUME CodesAssumption ==
  /\ IsFiniteSet(Requests) /\ Requests # {}
  /\ MaxCodes \in Nat /\ MaxAttempts \in Nat \ {0}

VARIABLES
  code,       \* the email_verification_code table
  request,    \* what each request in flight has read and is about to write
  guesses,    \* history: wrong submissions against each code
  redeemed    \* history: requests that each code let through

codeVars == <<code, request, guesses, redeemed>>

Codes == 1..MaxCodes

\* by and rivals are history, not columns: the request that issued the code, and the
\* codes that were being issued when that request invalidated the earlier ones.
CodeRow == [user : Accounts, purpose : Purposes, consumed : BOOLEAN, attempts : 0..MaxAttempts,
            cooling : BOOLEAN, expired : BOOLEAN, by : Requests, rivals : SUBSET Codes]

ASSUME NoRowAssumption == NoRow \notin CodeRow

Idle == [op |-> "idle"]

CodeRequest ==
  [op : {"issue"}, user : Accounts, purpose : Purposes, code : Codes]
  \cup [op : {"invalidated"}, user : Accounts, purpose : Purposes, code : Codes,
        stale : SUBSET Codes, rivals : SUBSET Codes]
  \cup [op : {"redeem"}, code : Codes]

TypeOK ==
  /\ code \in [Codes -> CodeRow \cup {NoRow}]
  /\ request \in [Requests -> CodeRequest \cup {Idle}]
  /\ guesses \in [Codes -> 0..MaxAttempts]
  /\ redeemed \in [Codes -> Nat]

CodeInit ==
  /\ code = [c \in Codes |-> NoRow]
  /\ request = [r \in Requests |-> Idle]
  /\ guesses = [c \in Codes |-> 0]
  /\ redeemed = [c \in Codes |-> 0]

Issued == {c \in Codes : code[c] # NoRow}
IssuedTo(u, p) == {c \in Issued : code[c].user = u /\ code[c].purpose = p}
Outstanding(u, p) == {c \in IssuedTo(u, p) : ~code[c].consumed}

\* Code numbers handed out so far, to requests still running and to committed ones.
Running == {request[r].code : r \in {q \in Requests : request[q].op \in {"issue", "invalidated"}}}
Numbered == Issued \cup Running
Latest(S, c) == c \in S /\ \A d \in S : d <= c
NextNumber(n) == Latest(Numbered \cup {0}, n - 1)

Proceed(r, step) == request' = [request EXCEPT ![r] = step]
-----------------------------------------------------------------------------
(***************************************************************************)
(* issue_code: check the cooldown, invalidate what is outstanding, insert. *)
(***************************************************************************)
CoolingDown(u, p) == \E c \in Issued : Latest(IssuedTo(u, p), c) /\ code[c].cooling

IssueRead(r, u, p) ==
  /\ request[r] = Idle
  /\ ~CoolingDown(u, p)
  /\ \E n \in Codes :
       /\ NextNumber(n)
       /\ Proceed(r, [op |-> "issue", user |-> u, purpose |-> p, code |-> n])
  /\ UNCHANGED <<code, guesses, redeemed>>

\* Slip: earlier codes are left to expire by themselves.
IssueWithoutInvalidating(r) ==
  LET q == request[r] IN
  /\ q.op = "issue"
  /\ Proceed(r, [op |-> "invalidated", user |-> q.user, purpose |-> q.purpose,
                 code |-> q.code, stale |-> {}, rivals |-> Running])
  /\ UNCHANGED <<code, guesses, redeemed>>

IssueInvalidate(r) ==
  LET q == request[r] IN
  /\ q.op = "issue"
  /\ Proceed(r, [op |-> "invalidated", user |-> q.user, purpose |-> q.purpose,
                 code |-> q.code, stale |-> Outstanding(q.user, q.purpose),
                 rivals |-> Running])
  /\ UNCHANGED <<code, guesses, redeemed>>

NewCode(u, p, r, rivals) ==
  [user |-> u, purpose |-> p, consumed |-> FALSE,
   attempts |-> 0, cooling |-> TRUE, expired |-> FALSE, by |-> r, rivals |-> rivals]

IssueCommit(r) ==
  LET q == request[r] IN
  /\ q.op = "invalidated"
  /\ code' = [c \in Codes |->
       CASE c = q.code -> NewCode(q.user, q.purpose, r, q.rivals)
         [] c \in q.stale -> [code[c] EXCEPT !.consumed = TRUE]
         [] OTHER -> code[c]]
  /\ Proceed(r, Idle)
  /\ UNCHANGED <<guesses, redeemed>>
-----------------------------------------------------------------------------
(***************************************************************************)
(* redeem_code: the latest unconsumed row, if it is still usable.          *)
(***************************************************************************)
Usable(c) == ~code[c].consumed /\ ~code[c].expired /\ code[c].attempts < MaxAttempts

\* The row a submission for u and p is compared with.
Candidate(u, p, c) == Latest(Outstanding(u, p), c) /\ Usable(c)

RedeemRead(r, u, p) ==
  /\ request[r] = Idle
  /\ \E c \in Codes : Candidate(u, p, c) /\ Proceed(r, [op |-> "redeem", code |-> c])
  /\ UNCHANGED <<code, guesses, redeemed>>

\* The handler counts the attempt, flushes, and raises: the count is rolled back.
RedeemWrong(u, p) ==
  /\ \E c \in Codes :
       /\ Candidate(u, p, c)
       /\ guesses[c] < MaxAttempts
       /\ guesses' = [guesses EXCEPT ![c] = @ + 1]
  /\ UNCHANGED <<code, request, redeemed>>

\* Slip: the consumed flag is flipped instead of set.
ConsumedFlipped(c) == [code EXCEPT ![c].consumed = ~@]

\* Slip: the row is left as it was, to be consumed by the cleanup of expired rows.
ConsumedLater(c) == code

Consumed(c) == [code EXCEPT ![c].consumed = TRUE]

RedeemCommit(r) ==
  /\ request[r].op = "redeem"
  /\ code' = Consumed(request[r].code)
  /\ redeemed' = [redeemed EXCEPT ![request[r].code] = @ + 1]
  /\ Proceed(r, Idle)
  /\ UNCHANGED guesses
-----------------------------------------------------------------------------
\* The transaction is rolled back: the process died or the database went away.
Abort(r) ==
  /\ request[r] # Idle
  /\ Proceed(r, Idle)
  /\ UNCHANGED <<code, guesses, redeemed>>

\* Time passes: the cooldown ends before the code expires, an older code's first.
CodeAges(c) ==
  /\ c \in Issued
  /\ \A d \in Issued : d < c => IF code[c].cooling THEN ~code[d].cooling ELSE code[d].expired
  /\ code' = [code EXCEPT ![c] = IF @.cooling THEN [@ EXCEPT !.cooling = FALSE]
                                 ELSE [@ EXCEPT !.expired = TRUE]]
  /\ UNCHANGED <<request, guesses, redeemed>>

CodeNext ==
  \/ \E r \in Requests :
       \/ IssueInvalidate(r)
       \/ IssueCommit(r)
       \/ RedeemCommit(r)
       \/ Abort(r)
       \/ \E u \in Accounts, p \in Purposes : IssueRead(r, u, p) \/ RedeemRead(r, u, p)
  \/ \E u \in Accounts, p \in Purposes : RedeemWrong(u, p)
  \/ \E c \in Codes : CodeAges(c)

CodeSpec == CodeInit /\ [][CodeNext]_codeVars
-----------------------------------------------------------------------------
(***************************************************************************)
(* Properties.                                                             *)
(***************************************************************************)

\* However many times a member asks for another code, no more codes are acceptable
\* at once than requests overlap: issuing invalidates whatever was committed when
\* it looked.  With one request at a time, one code.
OutstandingBounded ==
  \A u \in Accounts, p \in Purposes :
    Cardinality(Outstanding(u, p)) <= Cardinality(Requests)

\* Asking again retires the earlier mail: of two acceptable codes the older was still being issued
\* when the request that issued the newer invalidated what it saw, so neither saw the other.
NewestOnly ==
  \A u \in Accounts, p \in Purposes : \A c, d \in Outstanding(u, p) :
    c < d => c \in code[d].rivals

\* A code lets through at most the requests that read it before its first use was
\* committed, each once; a later submission is never compared with it.
RedemptionsBounded == \A c \in Codes : redeemed[c] <= Cardinality(Requests)

\* A consumed code is never acceptable again, whoever writes the row last.
ConsumedForever ==
  [][\A c \in Issued : code[c].consumed => code'[c] # NoRow /\ code'[c].consumed]_codeVars

\* The table's opening sentence: repeated wrong guesses retire a code.  It does not hold, for the
\* reason Sessions!ReplayEndsEverySession does not (README, section 11).
GuessesRetire == \A c \in Issued : guesses[c] >= MaxAttempts => ~Usable(c)
=============================================================================
