----------------------------- MODULE Dispatcher -----------------------------
(***************************************************************************)
(* The single exit point for outbound mail, inside a transaction of its    *)
(* caller: a log row, the provider call, the outcome in the row.  Other    *)
(* transactions see the row when the caller commits, and never if the      *)
(* caller fails; the mail has left by then.                                *)
(***************************************************************************)
EXTENDS Naturals

CONSTANTS
  Members,   \* recipients
  Letters    \* what is mailed: one letter is one template about one thing

VARIABLES
  log,       \* committed email_delivery_log rows
  inbox      \* inbox[u][l]: copies of letter l the provider took for u

\* What one call to the provider comes to.  "unanswered": the message was taken, but the answer
\* did not arrive in time (REQUEST_TIMEOUT_SECONDS), which the transport reports as a failure.
Outcomes == {"accepted", "unanswered", "refused"}

LogRow == [to : Members, letter : Letters, status : {"sent", "failed"}]

DispatchTypeOK ==
  /\ log \subseteq LogRow
  /\ inbox \in [Members -> [Letters -> Nat]]

DispatchInit ==
  /\ log = {}
  /\ inbox = [u \in Members |-> [l \in Letters |-> 0]]

\* Slip: the row says sent before the provider has answered.
OptimisticEntry(u, l, outcome) == [to |-> u, letter |-> l, status |-> "sent"]

Entry(u, l, outcome) ==
  [to |-> u, letter |-> l, status |-> IF outcome = "accepted" THEN "sent" ELSE "failed"]

Taken(u, l, outcome) ==
  IF outcome = "refused" THEN inbox ELSE [inbox EXCEPT ![u][l] = @ + 1]

\* A committed row "sent" is about a message the provider took: the log answers whether a member
\* was notified (dispatcher.py:4).
LogIsTruthful ==
  \A e \in log : e.status = "sent" => inbox[e.to][e.letter] > 0
=============================================================================
