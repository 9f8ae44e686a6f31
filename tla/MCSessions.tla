----------------------------- MODULE MCSessions -----------------------------
(* Sessions on small instances: requests and accounts are interchangeable. *)
EXTENDS Sessions, TLC

CONSTANTS member, r1, r2

Symmetry == Permutations(Requests) \cup Permutations(Accounts)

\* Not continued, though checked: states with a failed attempt or a replayed token, since what
\* records them (wrong, replayed, guesses) is read by no other action; and states whose code has
\* expired, which CodesConcurrent continues.
Unfailed == /\ \A u \in Accounts : wrong[u] = 0 /\ ~replayed[u]
            /\ \A c \in Codes : guesses[c] = 0
            /\ \A c \in Issued : ~code[c].expired
=============================================================================
