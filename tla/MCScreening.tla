---------------------------- MODULE MCScreening ----------------------------
(* Screening on small instances.                                           *)
EXTENDS Screening, TLC

CONSTANTS c1, c2, i1, i2, e1, e2, A, B

OneCustomer  == {c1}
OneIdentity  == {i1}
Identities   == {i1, i2}
OneEntity    == {e1}
Entities     == {e1, e2}
OneList      == {A}
TwoLists     == {A, B}
JustA        == {{A}}
AorB         == {{A}, {B}}
Stamps12     == UNION {[S -> 1..MaxPublish] : S \in SUBSET List}

(* A identifies i1 from its second version on, and i2 only in its first    *)
(* (then an entity of its own); B identifies nobody.                       *)
Matrix == [i \in Identity |-> [l \in List |-> [n \in 1..MaxPublish |->
              IF l = B THEN {}
              ELSE IF i = i1 THEN (IF n = 1 THEN {} ELSE {e1})
              ELSE (IF n = 1 THEN {e2} ELSE {})]]]

(* As long as it is not A, nobody is found. *)
InA == [i \in Identity |-> [l \in List |-> [n \in 1..MaxPublish |->
              IF l = A THEN {e1} ELSE {}]]]
=============================================================================
