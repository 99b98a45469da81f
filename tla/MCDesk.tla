-------------------------------- MODULE MCDesk --------------------------------
(* The customers page for TLC: two customers, two identities and two versions  *)
(* of the lists.                                                               *)
EXTENDS CustomersDesk, Sequences

CONSTANTS c1, c2, n1, n2   \* two customers and two identities

\* the first customer matches the first list, the second the second, both under another name
DeskOrder == <<c1, c2>>
DeskMatched(c, n, v) == (c = c1 /\ v = 1) \/ (c = c2 /\ v = 2) \/ n = n2
=============================================================================
