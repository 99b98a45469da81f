-------------------------- MODULE MCInstallKeys ---------------------------
(* The signing key on a small instance: two tabs, one of which may be      *)
(* refused OPFS and is the one that changes the key, and two keys.         *)
EXTENDS InstallKeys, TLC

CONSTANTS t1, t2, k1, k2, a, b

Keys    == {k1, k2}
TwoTabs == {t1, t2}
OneTab  == {t2}
Names   == {a, b}

Symmetry == Permutations(Names) \cup Permutations(Keys)
=============================================================================
