---------------------------- MODULE MCPlacement ----------------------------
(* Placement on small instances.  The accounts other than the founder are  *)
(* interchangeable when they all start as applicants.                      *)
EXTENDS Placement, TLC

Symmetry == Permutations(Accounts \ {Founder})

ReviewOnly == [permissions |-> {"review_registrations"}, organization |-> FALSE]

\* Directors lose the right to place people, or somebody tries to give them the platform's settings.
DirectorsEdited ==
  [x \in Offices |-> IF x = Director
     THEN {ReviewOnly, [permissions |-> {"assign_departments", "manage_settings"}, organization |-> TRUE]}
     ELSE {}]

\* Directors, deputies or both lose the right to place people.
ReviewersEdited == [x \in Offices |-> IF x \in {Director, Deputy} THEN {ReviewOnly} ELSE {}]
=============================================================================
