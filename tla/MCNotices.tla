----------------------------- MODULE MCNotices -----------------------------
EXTENDS Notices, TLC

CONSTANTS u, v, a, n, r1, r2

Shipped(d, office) ==
  [dept |-> d, permissions |-> NoticeGrants(office), organization |-> office \in OrganizationScope]

\* The president publishes, the director of the department edits; a third account's role was edited
\* in the console: it sends to the association and sees nothing.
Officers ==
  {[user |-> "president", active |-> TRUE, held |-> {Shipped(Presidium, President)}],
   [user |-> "director", active |-> TRUE, held |-> {Shipped("media", Director)}],
   [user |-> "sender", active |-> TRUE,
    held |-> {[dept |-> "media", permissions |-> {"send_organization"}, organization |-> FALSE]}]}
MediaRuns == [x \in Activities |-> "media"]
OneInMedia == [d \in Departments |-> {u}]

Symmetry == Permutations(Requests)
=============================================================================
