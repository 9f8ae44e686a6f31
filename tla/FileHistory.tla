---------------------------- MODULE FileHistory ----------------------------
(***************************************************************************)
(* What the vault promises (models/document.py): a document is the list of *)
(* everything ever uploaded to it.  Nothing in the list is overwritten or  *)
(* reordered, no content belongs to two entries, and the list disappears   *)
(* only as a whole.                                                        *)
(***************************************************************************)
EXTENDS Sequences, Naturals

CONSTANTS Documents, Keys

VARIABLE history   \* the keys uploaded to a document, oldest first; << >> for no document

Entry(k, d) == \E n \in DOMAIN history[d] : history[d][n] = k

Init == history = [d \in Documents |-> << >>]

Upload(d, k) ==
  /\ \A e \in Documents : ~Entry(k, e)
  /\ history' = [history EXCEPT ![d] = Append(@, k)]

Delete(d) == history' = [history EXCEPT ![d] = << >>]

Next == \E d \in Documents : Delete(d) \/ \E k \in Keys : Upload(d, k)

Spec == Init /\ [][Next]_history
=============================================================================
