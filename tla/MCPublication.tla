--------------------------- MODULE MCPublication ---------------------------
(* Instances of Publication for TLC: the constants of each run are in its  *)
(* .cfg; one list, visitor or run name per model value.                    *)
EXTENDS Publication

CONSTANTS A, B, v1
OneList  == {A}
TwoLists == {A, B}
=============================================================================
