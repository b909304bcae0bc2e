-------------------------------- MODULE Lists ---------------------------------
(***************************************************************************)
(* Singly linked lists, as sequences: what is left of one when the elements*)
(* of a set have been unlinked, and the order of elements.                 *)
(***************************************************************************)
EXTENDS Integers, Sequences, FiniteSets

\* The positions in "at" from the first to the last.
InOrder(at) == CHOOSE nth \in [1..Cardinality(at) -> at] :
                 \A i, j \in DOMAIN nth : i < j => nth[i] < nth[j]

\* The list without the elements of S, the others in the order they had.
Kept(l, S) == LET nth == InOrder({i \in DOMAIN l : l[i] \notin S}) IN
              [i \in DOMAIN nth |-> l[nth[i]]]

\* Somewhere in the list d comes before e.
Precedes(l, d, e) == \E i, j \in DOMAIN l : i < j /\ l[i] = d /\ l[j] = e
===============================================================================
