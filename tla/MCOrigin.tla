------------------------------ MODULE MCOrigin ------------------------------
(* The two databases an origin keeps on OPFS, for TLC: the KYC store and the *)
(* signing key.  They share no variable, so a behaviour moves one of them,   *)
(* chosen at the start, and the run explores the sum of their state spaces.  *)
EXTENDS MCMatchStore, MCInstallKeys

VARIABLE part

originVars == <<part, vars, keysVars>>

\* the database that does not move stays in one initial state
OriginInit ==
  /\ part \in {"store", "keys"} /\ Init /\ KeysInit
  /\ part # "store" => customers = [c \in Customer |-> NoRow]
  /\ part # "keys" => row = NoKey /\ seed = NoKey

OriginNext ==
  \/ part = "store" /\ UNCHANGED <<part, keysVars>> /\ Next
  \/ part = "keys" /\ UNCHANGED <<part, vars>> /\ KeysNext

OriginSpec == OriginInit /\ [][OriginNext]_originVars
=============================================================================
