------------------------- MODULE MCVerificationCodes ------------------------
(* VerificationCodes on small instances.  Requests, accounts and purposes  *)
(* are each interchangeable.                                               *)
EXTENDS VerificationCodes, TLC

Symmetry == Permutations(Requests) \cup Permutations(Accounts) \cup Permutations(Purposes)
=============================================================================
