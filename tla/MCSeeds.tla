------------------------------ MODULE MCSeeds ------------------------------
EXTENDS Seeds

NoRows == [c \in Categories |-> NoCategory]
OneDirector ==
  {[user |-> "director", active |-> TRUE, held |-> {Held("finance", Director, DocumentGrants(Director), FALSE)}]}
=============================================================================
