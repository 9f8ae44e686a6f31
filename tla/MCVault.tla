------------------------------ MODULE MCVault ------------------------------
EXTENDS Vault, TLC

CONSTANTS seeded, own, r1, r2, d1, k1, k2, k3, k4

\* The planning category every department starts with, and nothing else yet.
FirstCategories ==
  [c \in Categories |->
     IF c = seeded THEN [slug |-> "planning", dept |-> "finance", parent |-> NoCategory, builtin |-> TRUE]
     ELSE NoCategory]

\* A director whose role is as shipped, and a vice-president whose role was edited: it still
\* uploads and edits everywhere but views nothing beyond what the whole association may.
FinanceDirector == [user |-> "director", active |-> TRUE, held |-> {Held("finance", Director, DocumentGrants(Director), FALSE)}]
EditedVice == [user |-> "vice", active |-> TRUE,
           held |-> {Held(Presidium, InternalVP, {"upload", "edit", "delete", "manage_categories"}, TRUE),
                     Held("finance", Member, {"view"}, FALSE)}]
TwoCallers == {FinanceDirector, EditedVice}

Symmetry == Permutations(Requests) \cup Permutations(Keys)
=============================================================================
