---------------------------- MODULE MCClientTabs ----------------------------
EXTENDS ClientTabs

CONSTANTS x, y, c1, c2, c3

\* Two calls at once in tab x, one in tab y.
Owner == [c \in Calls |-> IF c = c3 THEN y ELSE x]
=============================================================================
