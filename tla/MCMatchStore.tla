---------------------------- MODULE MCMatchStore ----------------------------
(* MatchStore on small instances, with the mutants its properties must     *)
(* reject.                                                                 *)
EXTENDS MatchStore, TLC

CONSTANTS c1, c2, e1, e2, f1, f2, r1, r2, i1, i2, v1

OneCustomer  == {c1}
TwoCustomers == {c1, c2}
OneEntity    == {e1}
TwoEntities  == {e1, e2}
OneReference == {r1}
References   == {r1, r2}
OneIdentity  == {i1}
Identities   == {i1, i2}
Fingerprints == {f1, f2}
OneFingerprint == {f1}
OneVersion   == {v1}
OneDisposition == {"FALSE_POSITIVE"}
Decisions    == {"FALSE_POSITIVE", "TRUE_POSITIVE"}
=============================================================================
