----------------------------- MODULE DailyMail -----------------------------
(***************************************************************************)
(* What the morning digest promises: for every day, a member gets the      *)
(* digest at most `copies' times, and not before the day has come.         *)
(***************************************************************************)
EXTENDS Naturals

CONSTANTS Members, Days

VARIABLES
  today,
  copies,   \* how many copies of one digest a member may get; fixed
  inbox     \* inbox[u][d]: copies of the digest of day d that u got

Init ==
  /\ today = 1
  /\ copies \in Nat
  /\ inbox = [u \in Members |-> [d \in Days |-> 0]]

Deliver(u, d) ==
  /\ d <= today
  /\ inbox[u][d] < copies
  /\ inbox' = [inbox EXCEPT ![u][d] = @ + 1]
  /\ UNCHANGED <<today, copies>>

Midnight ==
  /\ today + 1 \in Days
  /\ today' = today + 1
  /\ UNCHANGED <<copies, inbox>>

Next == Midnight \/ \E u \in Members, d \in Days : Deliver(u, d)

Spec == Init /\ [][Next]_<<today, copies, inbox>>
=============================================================================
