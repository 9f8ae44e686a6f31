------------------------------ MODULE MCDigest ------------------------------
(* The digest on small instances; names for the model values.  No symmetry: one property is about *)
(* what happens eventually.                                                                       *)
EXTENDS Digest

CONSTANTS u, v, p, q
=============================================================================
