----------------------------- MODULE MatchStore -----------------------------
(***************************************************************************)
(* The KYC database: the customers, kyc_matches and match_events tables    *)
(* and the operations the worker runs on them (db/operations.ts), with the *)
(* constraints and triggers of the schema (db/schema.ts).                  *)
(*                                                                         *)
(* The worker is single-threaded and every operation but one is a single   *)
(* statement or a single transaction, so an operation is one step.  The    *)
(* exception is resolveMatch: its UPDATE and the INSERT of its event are   *)
(* two autocommit statements, and a worker that dies, or an INSERT that    *)
(* fails, between them leaves the first one durable (ResolveMatchTorn).    *)
(*                                                                         *)
(* match_events is kept as one sequence per (customer, entity) pair, the   *)
(* order its only reader, getMatchEvents, returns.  A pair has at most one *)
(* kyc_matches row (UNIQUE), so rows are keyed by the pair.                *)
(***************************************************************************)
EXTENDS Naturals, Sequences

CONSTANTS
    Customer, Reference, Identity, Version, Entity, Fingerprint,
    Disposition,    \* the resolutions a reviewer may give
    NoVersion, NoFingerprint, NoStatus, NoRow,
    MaxTrail,       \* bound: events kept per pair
    WorkerMayDie    \* whether a step may be cut between two statements

Status == {"PENDING"} \cup Disposition

(* RESOLUTION_PATTERN: anything else is rejected before the row is read.   *)
ASSUME DispositionAssumption ==
    Disposition \subseteq {"FALSE_POSITIVE", "TRUE_POSITIVE", "RESOLVED"}

ASSUME BoundsAssumption == MaxTrail \in Nat /\ WorkerMayDie \in BOOLEAN

ASSUME NullAssumption ==
    /\ NoVersion \notin Version
    /\ NoFingerprint \notin Fingerprint
    /\ NoStatus \notin Status

CustomerRow == [reference: Reference, identity: Identity,
                proof: Version \cup {NoVersion}]
MatchRow    == [status: Status, fingerprint: Fingerprint \cup {NoFingerprint},
                review: {"CURRENT", "CHANGED"}]
Event       == [type: {"DETECTED", "CHANGED", "SUPPRESSED", "DISPOSITIONED"},
                from: Status \cup {NoStatus}, to: Status \cup {NoStatus}]

ASSUME RowAssumption ==
    /\ NoRow \notin CustomerRow
    /\ NoRow \notin MatchRow
    /\ NoRow \notin [identity: Identity, proof: Version \cup {NoVersion}]

VARIABLES
    customers,  \* customers[c]: the row of c, or NoRow
    matches,    \* matches[c][e]: the row of the pair, or NoRow
    trail,      \* trail[c][e]: the pair's events, oldest first
    decidedOn   \* auxiliary: the fingerprint the last disposition was made on

vars == <<customers, matches, trail, decidedOn>>

Live(c) == customers[c] # NoRow
Held(c, e) == matches[c][e] # NoRow

TypeOK ==
    /\ customers \in [Customer -> CustomerRow \cup {NoRow}]
    /\ matches \in [Customer -> [Entity -> MatchRow \cup {NoRow}]]
    /\ trail \in [Customer -> [Entity -> Seq(Event)]]
    /\ decidedOn \in [Customer -> [Entity -> Fingerprint \cup {NoFingerprint}]]

(* What a screen hands over: the matched entities with their fingerprints. *)
Hits == UNION {[S -> Fingerprint] : S \in SUBSET Entity}
Payload == [reference: Reference, identity: Identity]
Batches == UNION {[S -> Payload] : S \in SUBSET Customer}

-----------------------------------------------------------------------------
(* The rows a schema-v1 database brings along: dispositioned by a release  *)
(* that kept no ledger and no fingerprints, backfilled CURRENT.            *)
LegacyRow == [status: Status, fingerprint: {NoFingerprint}, review: {"CURRENT"}]

Init ==
    /\ customers \in [Customer -> [reference: Reference, identity: Identity,
                                   proof: {NoVersion}] \cup {NoRow}]
    /\ \A c, d \in Customer :
          Live(c) /\ Live(d) /\ c # d =>
             customers[c].reference # customers[d].reference
    /\ matches \in [Customer -> [Entity -> LegacyRow \cup {NoRow}]]
    /\ \A c \in Customer : ~Live(c) => \A e \in Entity : ~Held(c, e)
    /\ trail = [c \in Customer |-> [e \in Entity |-> <<>>]]
    /\ decidedOn = [c \in Customer |-> [e \in Entity |-> NoFingerprint]]

Room(c) == \A e \in Entity : Len(trail[c][e]) < MaxTrail

Free(r) == \A c \in Customer : Live(c) => customers[c].reference # r

NewCustomer(p) ==
    [reference |-> p.reference, identity |-> p.identity, proof |-> NoVersion]

(* createCustomer, and createCustomers over a batch: one transaction, so a *)
(* duplicate reference anywhere rejects every row.  Ids are fresh UUIDs;   *)
(* an erased id may stand for a new customer since nothing of it is left.  *)
CreateCustomers(batch) ==
    /\ \A c \in DOMAIN batch : ~Live(c) /\ Free(batch[c].reference)
    /\ \A c, d \in DOMAIN batch :
          c # d => batch[c].reference # batch[d].reference
    /\ customers' = [c \in Customer |->
          IF c \in DOMAIN batch THEN NewCustomer(batch[c]) ELSE customers[c]]
    /\ UNCHANGED <<matches, trail, decidedOn>>

UpdateCustomer(c, r, i) ==
    /\ Live(c)
    /\ r # customers[c].reference => Free(r)
    /\ customers' = [customers EXCEPT ![c] =
          [reference |-> r, identity |-> i,
           proof |-> IF i # customers[c].identity
                       THEN NoVersion ELSE customers[c].proof]]
    /\ UNCHANGED <<matches, trail, decidedOn>>

MarkScreened(c, v) ==
    /\ Live(c)
    /\ customers' = [customers EXCEPT ![c].proof = v]
    /\ UNCHANGED <<matches, trail, decidedOn>>

(* Mutant: relies on the cascade, which match_events does not have. *)
DeleteCustomerRow(c) ==
    /\ Live(c)
    /\ customers' = [customers EXCEPT ![c] = NoRow]
    /\ matches' = [matches EXCEPT ![c] = [e \in Entity |-> NoRow]]
    /\ UNCHANGED <<trail, decidedOn>>

(* The customer goes first (the delete trigger refuses the reverse order), *)
(* its matches by ON DELETE CASCADE, its ledger last: one transaction.     *)
DeleteCustomer(c) ==
    /\ Live(c)
    /\ customers' = [customers EXCEPT ![c] = NoRow]
    /\ matches' = [matches EXCEPT ![c] = [e \in Entity |-> NoRow]]
    /\ trail' = [trail EXCEPT ![c] = [e \in Entity |-> <<>>]]
    /\ decidedOn' = [decidedOn EXCEPT ![c] = [e \in Entity |-> NoFingerprint]]

-----------------------------------------------------------------------------
FreshRow(fp) == [status |-> "PENDING", fingerprint |-> fp, review |-> "CURRENT"]

Detected == [type |-> "DETECTED", from |-> NoStatus, to |-> "PENDING"]

(* Mutant: no requireCustomer, and no foreign key to catch it. *)
RecordMatchesUnchecked(c, h) ==
    /\ Room(c)
    /\ matches' = [matches EXCEPT ![c] = [e \in Entity |->
          IF e \in DOMAIN h THEN FreshRow(h[e]) ELSE matches[c][e]]]
    /\ trail' = [trail EXCEPT ![c] = [e \in Entity |->
          IF e \in DOMAIN h THEN Append(trail[c][e], Detected) ELSE trail[c][e]]]
    /\ UNCHANGED <<customers, decidedOn>>

(* recordMatches: new pairs start PENDING and a pair already on the board  *)
(* is reset to PENDING; entities not in the screen are left alone.         *)
RecordMatches(c, h) ==
    /\ Live(c)
    /\ Room(c)
    /\ matches' = [matches EXCEPT ![c] = [e \in Entity |->
          IF e \in DOMAIN h THEN FreshRow(h[e]) ELSE matches[c][e]]]
    /\ trail' = [trail EXCEPT ![c] = [e \in Entity |->
          IF e \in DOMAIN h THEN Append(trail[c][e], Detected) ELSE trail[c][e]]]
    /\ UNCHANGED <<customers, decidedOn>>

Adopted(prior, fp) == [prior EXCEPT !.fingerprint = fp]
FlaggedSilently(prior, fp) == [prior EXCEPT !.fingerprint = fp]    \* mutant
Flagged(prior, fp) == [prior EXCEPT !.fingerprint = fp, !.review = "CHANGED"]

CarriedReset(prior, fp) == FreshRow(fp)    \* mutant: recordMatches' reset

(* planReplacement: the row a still-matching entity gets. *)
Carried(prior, fp) ==
    CASE prior = NoRow                      -> FreshRow(fp)
      [] prior # NoRow /\ prior.fingerprint = NoFingerprint
                                            -> Adopted(prior, fp)
      [] prior # NoRow /\ prior.fingerprint = fp -> prior
      [] OTHER                              -> Flagged(prior, fp)

Moved(prior, fp) ==
    /\ prior # NoRow
    /\ prior.fingerprint # NoFingerprint
    /\ prior.fingerprint # fp

Changed(prior) ==
    [type |-> "CHANGED", from |-> prior.status, to |-> prior.status]

Suppressed(prior) ==
    [type |-> "SUPPRESSED", from |-> prior.status, to |-> NoStatus]

(* Mutants: emitSuppressions forgotten; the events cascade with the rows.  *)
LedgeredSilently(t, prior, h, e) ==
    CASE e \in DOMAIN h /\ prior = NoRow         -> Append(t, Detected)
      [] e \in DOMAIN h /\ Moved(prior, h[e])    -> Append(t, Changed(prior))
      [] OTHER                                   -> t

LedgeredCascading(t, prior, h, e) ==
    CASE e \in DOMAIN h /\ prior = NoRow         -> <<Detected>>
      [] e \in DOMAIN h /\ Moved(prior, h[e])    -> <<Changed(prior)>>
      [] e \notin DOMAIN h /\ prior # NoRow      -> <<Suppressed(prior)>>
      [] OTHER                                   -> t

(* ... and the ledger after it: the event planReplacement names, or the    *)
(* suppression of an entity that dropped out.                              *)
Ledgered(t, prior, h, e) ==
    CASE e \in DOMAIN h /\ prior = NoRow         -> Append(t, Detected)
      [] e \in DOMAIN h /\ Moved(prior, h[e])    -> Append(t, Changed(prior))
      [] e \notin DOMAIN h /\ prior # NoRow      -> Append(t, Suppressed(prior))
      [] OTHER                                   -> t

(* replaceMatches: h is the customer's complete match set, in one          *)
(* transaction: snapshot, delete, re-insert, suppress.                     *)
ReplaceMatches(c, h) ==
    /\ Live(c)
    /\ Room(c)
    /\ matches' = [matches EXCEPT ![c] = [e \in Entity |->
          IF e \in DOMAIN h THEN Carried(matches[c][e], h[e]) ELSE NoRow]]
    /\ trail' = [trail EXCEPT ![c] = [e \in Entity |->
          Ledgered(trail[c][e], matches[c][e], h, e)]]
    /\ UNCHANGED <<customers, decidedOn>>

-----------------------------------------------------------------------------
(* Mutant: the prior status is read after the UPDATE. *)
DisposedLate(from, to) == [type |-> "DISPOSITIONED", from |-> to, to |-> to]
Disposed(from, to) == [type |-> "DISPOSITIONED", from |-> from, to |-> to]

DecidedRow(row, s) ==
    [status |-> s, fingerprint |-> row.fingerprint, review |-> "CURRENT"]

(* The UPDATE of resolveMatch: no transition guard, the flag is cleared.   *)
Decide(c, e, s) ==
    /\ Held(c, e)
    /\ Room(c)
    /\ matches' = [matches EXCEPT ![c][e] = DecidedRow(matches[c][e], s)]
    /\ decidedOn' = [decidedOn EXCEPT ![c][e] = matches[c][e].fingerprint]
    /\ UNCHANGED customers

ResolveMatch(c, e, s) ==
    /\ Decide(c, e, s)
    /\ trail' = [trail EXCEPT ![c][e] =
          Append(trail[c][e], Disposed(matches[c][e].status, s))]

(* The worker dies, or the event's INSERT fails, after the UPDATE.         *)
ResolveMatchTorn(c, e, s) ==
    /\ WorkerMayDie
    /\ Decide(c, e, s)
    /\ UNCHANGED trail

Next ==
    \/ \E batch \in Batches : CreateCustomers(batch)
    \/ \E c \in Customer :
          \/ \E r \in Reference, i \in Identity : UpdateCustomer(c, r, i)
          \/ \E v \in Version : MarkScreened(c, v)
          \/ DeleteCustomer(c)
          \/ \E h \in Hits : RecordMatches(c, h)
          \/ \E h \in Hits : ReplaceMatches(c, h)
          \/ \E e \in Entity, s \in Disposition :
                ResolveMatch(c, e, s) \/ ResolveMatchTorn(c, e, s)

Spec == Init /\ [][Next]_vars

-----------------------------------------------------------------------------
Newest(c, e) == trail[c][e][Len(trail[c][e])]

(* The board and the ledger agree: the newest event of a pair names the    *)
(* status its row reads, and a pair whose row is gone was suppressed.      *)
(* Every path that writes kyc_matches (record, replace, resolve) has to    *)
(* write the matching event for this to survive any sequence of them.      *)
LedgerExplainsBoard ==
    \A c \in Customer, e \in Entity :
        trail[c][e] # <<>> =>
            IF Held(c, e) THEN Newest(c, e).to = matches[c][e].status
                          ELSE Newest(c, e).type = "SUPPRESSED"

(* An event starts from where the previous one ended, so the trail reads   *)
(* as one history across any number of re-screens; only a detection starts *)
(* a new one (its from_status is NULL, even on a reset row).               *)
TrailIsAChain ==
    \A c \in Customer, e \in Entity : \A k \in 2 .. Len(trail[c][e]) :
        \/ trail[c][e][k].type = "DETECTED"
        \/ trail[c][e][k].from = trail[c][e][k - 1].to

(* Even if the worker dies inside resolveMatch, a decision the ledger      *)
(* records never reads as an open question on the board again, unless the  *)
(* hit was detected anew.                                                  *)
RecordedDecisionSurvives ==
    \A c \in Customer, e \in Entity :
        trail[c][e] # <<>> /\ Held(c, e) /\ Newest(c, e).to # "PENDING" =>
            matches[c][e].status # "PENDING"

(* A decision is only ever shown as current for the facts it was made on:  *)
(* once the customer's or the entity's identity moved, the hit is flagged  *)
(* CHANGED until somebody decides again (planReplacement).                 *)
DecisionFitsFacts ==
    \A c \in Customer, e \in Entity :
        /\ Held(c, e)
        /\ matches[c][e].status # "PENDING"
        /\ matches[c][e].review = "CURRENT"
        /\ decidedOn[c][e] # NoFingerprint
        => matches[c][e].fingerprint = decidedOn[c][e]

(* Deleting a customer is the privacy boundary: no match and no event of   *)
(* it is left, whatever was written before or is attempted after.          *)
ErasureComplete ==
    \A c \in Customer : ~Live(c) =>
        \A e \in Entity : ~Held(c, e) /\ trail[c][e] = <<>>

(* customer_reference is unique across edits and whole import batches.     *)
ReferencesUnique ==
    \A c, d \in Customer :
        Live(c) /\ Live(d) /\ c # d =>
            customers[c].reference # customers[d].reference

(* The triggers of schema v4: while a customer exists its events are only  *)
(* ever appended to.                                                       *)
AppendOnlyLedger ==
    [][\A c \in Customer, e \in Entity :
          Live(c) /\ Live(c)' =>
             /\ Len(trail[c][e]) <= Len(trail'[c][e])
             /\ SubSeq(trail'[c][e], 1, Len(trail[c][e])) = trail[c][e]]_vars

-----------------------------------------------------------------------------
(* The store seen by its callers.                                          *)
bookOf == [c \in Customer |->
              IF Live(c) THEN [identity |-> customers[c].identity,
                               proof |-> customers[c].proof]
                         ELSE NoRow]
onBoard == [c \in Customer |-> {e \in Entity : Held(c, e)}]

Book == INSTANCE HitBook WITH book <- bookOf, hits <- onBoard

(* Every operation, crash included, looks to the services above like one   *)
(* operation of the abstract book, or like nothing at all.                 *)
ImplementsBook == Book!BookSpec
=============================================================================
