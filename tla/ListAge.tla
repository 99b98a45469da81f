------------------------------- MODULE ListAge -------------------------------
(* The rule of freshness (watchlist.ts), for a catalog entry or a list's own *)
(* meta: how old a list is, and whether a build refreshed it.                *)
EXTENDS Naturals

CONSTANTS Absent,     \* the field is not there
          Malformed,  \* it is, and is no instant
          Null        \* JSON null, and the result null

Ages == [at : Nat, from : {"fetchedAt", "generatedAt"}]

\* Three values that are no instant, no flag, no reason and no result.
ASSUME ListAgeAssumption ==
  /\ Absent # Malformed /\ Malformed # Null /\ Null # Absent
  /\ \A v \in {Absent, Malformed, Null} : v \notin Nat \cup BOOLEAN \cup {"feed"}
  /\ Null \notin Ages \cup [age : Ages, stale : BOOLEAN, source : Nat \cup {Null}]

IsListInstant(v) == v \notin {Absent, Malformed, Null}
HasFetchedAt(entry) == entry.fetchedAt # Absent
Aged(at, from) == [at |-> at, from |-> from]

\* A stamp that is there is believed or refused; only an absent one falls back.
ResolveListAge(entry, generatedAt) ==
  IF HasFetchedAt(entry)
    THEN IF IsListInstant(entry.fetchedAt) THEN Aged(entry.fetchedAt, "fetchedAt") ELSE Null
    ELSE IF IsListInstant(generatedAt) THEN Aged(generatedAt, "generatedAt") ELSE Null

ResolveSource(v) == IF v = Malformed THEN Malformed ELSE IF v = Absent THEN Null ELSE v

\* A new entry must prove its staleness; an old one is read as not stale.
StalenessProven(entry, required) ==
  /\ IF entry.stale = Absent THEN ~required ELSE entry.stale \in BOOLEAN
  /\ IF entry.reason = Absent THEN ~required ELSE entry.reason # Malformed

ResolveListFreshness(entry, generatedAt) ==
  LET age == ResolveListAge(entry, generatedAt)
  IN IF age = Null THEN Null
     ELSE IF \/ age.from = "fetchedAt" /\ entry.source = Absent
             \/ ResolveSource(entry.source) = Malformed
             \/ ~StalenessProven(entry, age.from = "fetchedAt")
       THEN Null
       ELSE [age |-> age, stale |-> entry.stale = TRUE, source |-> ResolveSource(entry.source)]
=============================================================================
