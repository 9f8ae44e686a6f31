------------------------------ MODULE MCRoles ------------------------------
EXTENDS Roles, TLC

CONSTANTS r1, r2, p1, own

\* The president edits; a director might, once the president has granted it.
OfficeHeld == [e \in Editors |-> IF e = "president" THEN President ELSE Director]

Symmetry == Permutations(Requests)
=============================================================================
