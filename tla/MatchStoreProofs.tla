-------------------------- MODULE MatchStoreProofs --------------------------
(***************************************************************************)
(* Proofs about MatchStore for every set of customers, entities and        *)
(* fingerprints and every length of history.                               *)
(***************************************************************************)
EXTENDS MatchStore, TLAPS

(* What appending does to a sequence, in the form the proofs below use.    *)
LEMMA AppendFacts ==
    ASSUME NEW S, NEW t \in Seq(S), NEW x \in S
    PROVE  /\ Append(t, x) \in Seq(S)
           /\ Len(Append(t, x)) = Len(t) + 1
           /\ Append(t, x) # <<>>
           /\ Append(t, x)[Len(Append(t, x))] = x
           /\ \A k \in 1 .. Len(t) : Append(t, x)[k] = t[k]
  OBVIOUS

LEMMA FreshRowType ==
    ASSUME NEW fp \in Fingerprint
    PROVE  FreshRow(fp) \in MatchRow /\ FreshRow(fp) # NoRow
  BY RowAssumption DEF FreshRow, MatchRow, Status

LEMMA FreshEvent == Detected \in Event
  BY DEF Detected, Event, Status

LEMMA RowEvents ==
    ASSUME NEW row \in MatchRow
    PROVE  Changed(row) \in Event /\ Suppressed(row) \in Event
  BY DEF Changed, Suppressed, Event, MatchRow, Status

LEMMA EventTypes ==
    ASSUME NEW row \in MatchRow, NEW s \in Disposition
    PROVE  /\ Detected \in Event
           /\ Changed(row) \in Event
           /\ Suppressed(row) \in Event
           /\ Disposed(row.status, s) \in Event
  BY DEF Detected, Changed, Suppressed, Disposed, Event, MatchRow, Status

(* A row rewritten by a re-screen keeps its status; one rewritten by a     *)
(* reviewer gets the status given, and keeps its fingerprint.              *)
LEMMA RewrittenRow ==
    ASSUME NEW row \in MatchRow, NEW fp \in Fingerprint
    PROVE  /\ Adopted(row, fp) \in MatchRow
           /\ Adopted(row, fp).status = row.status
           /\ Adopted(row, fp).review = row.review
           /\ Adopted(row, fp).fingerprint = fp
           /\ Flagged(row, fp) \in MatchRow
           /\ Flagged(row, fp).status = row.status
           /\ Flagged(row, fp).review = "CHANGED"
  BY DEF Adopted, Flagged, MatchRow

LEMMA SettledRow ==
    ASSUME NEW row \in MatchRow, NEW s \in Disposition
    PROVE  /\ DecidedRow(row, s) \in MatchRow
           /\ DecidedRow(row, s).status = s
           /\ DecidedRow(row, s).fingerprint = row.fingerprint
  BY DEF DecidedRow, MatchRow, Status

(* planReplacement always yields a row. *)
LEMMA CarriedRow ==
    ASSUME NEW prior \in MatchRow \cup {NoRow}, NEW fp \in Fingerprint
    PROVE  /\ Carried(prior, fp) \in MatchRow
           /\ Carried(prior, fp) # NoRow
<1>1. CASE prior = NoRow
  BY <1>1, FreshRowType DEF Carried
<1>2. CASE prior # NoRow
  <2>1. prior \in MatchRow
    BY <1>2
  <2>2. Carried(prior, fp) \in {prior, Adopted(prior, fp), Flagged(prior, fp)}
    BY <1>2 DEF Carried
  <2>3. QED
    BY <2>1, <2>2, RewrittenRow, RowAssumption
<1>3. QED
  BY <1>1, <1>2

(* The ledger of one pair across replaceMatches stays a ledger. *)
LEMMA LedgeredType ==
    ASSUME NEW t \in Seq(Event), NEW prior \in MatchRow \cup {NoRow},
           NEW h \in Hits, NEW e \in Entity
    PROVE  Ledgered(t, prior, h, e) \in Seq(Event)
<1>1. CASE prior = NoRow
  <2>1. Ledgered(t, prior, h, e) \in {t, Append(t, Detected)}
    BY <1>1 DEF Ledgered, Moved
  <2>2. Detected \in Event
    BY DEF Detected, Event, Status
  <2>3. QED
    BY <2>1, <2>2
<1>2. CASE prior # NoRow
  <2>1. prior \in MatchRow
    BY <1>2
  <2>2. Changed(prior) \in Event /\ Suppressed(prior) \in Event
    BY <2>1 DEF Changed, Suppressed, Event, MatchRow, Status
  <2>3. Ledgered(t, prior, h, e) \in
           {t, Append(t, Changed(prior)), Append(t, Suppressed(prior))}
    BY <1>2 DEF Ledgered
  <2>4. QED
    BY <2>2, <2>3
<1>3. QED
  BY <1>1, <1>2

LEMMA HitsType ==
    ASSUME NEW h \in Hits, NEW e \in DOMAIN h
    PROVE  h[e] \in Fingerprint
  BY DEF Hits

-----------------------------------------------------------------------------
LEMMA InitType == Init => TypeOK
<1> SUFFICES ASSUME Init PROVE TypeOK
  OBVIOUS
<1>1. customers \in [Customer -> CustomerRow \cup {NoRow}]
  BY DEF Init, CustomerRow
<1>2. matches \in [Customer -> [Entity -> MatchRow \cup {NoRow}]]
  BY DEF Init, LegacyRow, MatchRow
<1>3. QED
  BY <1>1, <1>2 DEF Init, TypeOK

LEMMA NewRow ==
    ASSUME NEW batch \in Batches, NEW c \in DOMAIN batch
    PROVE  /\ NewCustomer(batch[c]) \in CustomerRow
           /\ NewCustomer(batch[c]) # NoRow
<1>1. batch[c] \in Payload
  BY DEF Batches
<1>2. NewCustomer(batch[c]) \in CustomerRow
  BY <1>1 DEF Payload, NewCustomer, CustomerRow
<1>3. QED
  BY <1>2, RowAssumption

LEMMA CreateCustomersType ==
    ASSUME TypeOK, NEW batch \in Batches, CreateCustomers(batch)
    PROVE  TypeOK'
<1>1. \A c \in DOMAIN batch : NewCustomer(batch[c]) \in CustomerRow
  BY NewRow
<1>2. customers' \in [Customer -> CustomerRow \cup {NoRow}]
  BY <1>1 DEF CreateCustomers, TypeOK
<1>3. QED
  BY <1>2 DEF CreateCustomers, TypeOK

LEMMA UpdateCustomerType ==
    ASSUME TypeOK, NEW c \in Customer, NEW r \in Reference, NEW i \in Identity,
           UpdateCustomer(c, r, i)
    PROVE  TypeOK'
<1>1. customers[c] \in CustomerRow
  BY DEF TypeOK, UpdateCustomer, Live
<1>2. customers' \in [Customer -> CustomerRow \cup {NoRow}]
  BY <1>1 DEF TypeOK, UpdateCustomer, CustomerRow
<1>3. QED
  BY <1>2 DEF TypeOK, UpdateCustomer

LEMMA MarkScreenedType ==
    ASSUME TypeOK, NEW c \in Customer, NEW v \in Version, MarkScreened(c, v)
    PROVE  TypeOK'
<1>1. customers[c] \in CustomerRow
  BY DEF TypeOK, MarkScreened, Live
<1>2. customers' \in [Customer -> CustomerRow \cup {NoRow}]
  BY <1>1 DEF TypeOK, MarkScreened, CustomerRow
<1>3. QED
  BY <1>2 DEF TypeOK, MarkScreened

LEMMA DeleteCustomerType ==
    ASSUME TypeOK, NEW c \in Customer, DeleteCustomer(c)
    PROVE  TypeOK'
<1>1. [e \in Entity |-> NoRow] \in [Entity -> MatchRow \cup {NoRow}]
  OBVIOUS
<1>2. [e \in Entity |-> <<>>] \in [Entity -> Seq(Event)]
  OBVIOUS
<1>3. [e \in Entity |-> NoFingerprint]
         \in [Entity -> Fingerprint \cup {NoFingerprint}]
  OBVIOUS
<1>4. QED
  BY <1>1, <1>2, <1>3 DEF TypeOK, DeleteCustomer

LEMMA RecordMatchesType ==
    ASSUME TypeOK, NEW c \in Customer, NEW h \in Hits, RecordMatches(c, h)
    PROVE  TypeOK'
<1>1. \A e \in DOMAIN h : FreshRow(h[e]) \in MatchRow
  BY HitsType, FreshRowType
<1>2. Detected \in Event
  BY DEF Detected, Event, Status
<1>3. matches' \in [Customer -> [Entity -> MatchRow \cup {NoRow}]]
  BY <1>1 DEF TypeOK, RecordMatches
<1>4. trail' \in [Customer -> [Entity -> Seq(Event)]]
  BY <1>2 DEF TypeOK, RecordMatches
<1>5. QED
  BY <1>3, <1>4 DEF TypeOK, RecordMatches

LEMMA ReplaceMatchesType ==
    ASSUME TypeOK, NEW c \in Customer, NEW h \in Hits, ReplaceMatches(c, h)
    PROVE  TypeOK'
<1>1. \A e \in Entity : e \in DOMAIN h => Carried(matches[c][e], h[e]) \in MatchRow
  BY HitsType, CarriedRow, ZenonT(40) DEF TypeOK
<1>2. \A e \in Entity :
         Ledgered(trail[c][e], matches[c][e], h, e) \in Seq(Event)
  BY LedgeredType DEF TypeOK
<1>3. matches' \in [Customer -> [Entity -> MatchRow \cup {NoRow}]]
  BY <1>1 DEF TypeOK, ReplaceMatches
<1>4. trail' \in [Customer -> [Entity -> Seq(Event)]]
  BY <1>2 DEF TypeOK, ReplaceMatches
<1>5. QED
  BY <1>3, <1>4 DEF TypeOK, ReplaceMatches

(* What a disposition does to the rows, whether or not its event follows. *)
LEMMA DecideType ==
    ASSUME TypeOK, NEW c \in Customer, NEW e \in Entity, NEW s \in Disposition,
           Decide(c, e, s)
    PROVE  /\ matches[c][e] \in MatchRow
           /\ customers' \in [Customer -> CustomerRow \cup {NoRow}]
           /\ matches' \in [Customer -> [Entity -> MatchRow \cup {NoRow}]]
           /\ decidedOn' \in
                 [Customer -> [Entity -> Fingerprint \cup {NoFingerprint}]]
<1>1. matches[c][e] \in MatchRow
  BY DEF TypeOK, Decide, Held
<1>2. DecidedRow(matches[c][e], s) \in MatchRow
  BY <1>1, SettledRow
<1>3. matches[c][e].fingerprint \in Fingerprint \cup {NoFingerprint}
  BY <1>1 DEF MatchRow
<1>4. QED
  BY <1>1, <1>2, <1>3 DEF TypeOK, Decide

LEMMA ResolveMatchType ==
    ASSUME TypeOK, NEW c \in Customer, NEW e \in Entity, NEW s \in Disposition,
           ResolveMatch(c, e, s) \/ ResolveMatchTorn(c, e, s)
    PROVE  TypeOK'
<1>1. Decide(c, e, s)
  BY DEF ResolveMatch, ResolveMatchTorn
<1>2. Disposed(matches[c][e].status, s) \in Event
  BY <1>1, DecideType, EventTypes
<1>3. trail' \in [Customer -> [Entity -> Seq(Event)]]
  <2>1. CASE ResolveMatch(c, e, s)
    <3>1. Append(trail[c][e], Disposed(matches[c][e].status, s)) \in Seq(Event)
      BY <1>2 DEF TypeOK
    <3>2. QED
      BY <2>1, <3>1 DEF ResolveMatch, TypeOK
  <2>2. CASE ResolveMatchTorn(c, e, s)
    BY <2>2 DEF ResolveMatchTorn, TypeOK
  <2>3. QED
    BY <2>1, <2>2
<1>4. QED
  BY <1>1, <1>3, DecideType DEF TypeOK

LEMMA NextType == TypeOK /\ [Next]_vars => TypeOK'
<1> SUFFICES ASSUME TypeOK, [Next]_vars PROVE TypeOK'
  OBVIOUS
<1>1. CASE UNCHANGED vars
  BY <1>1 DEF vars, TypeOK
<1>2. CASE Next
  BY <1>2, CreateCustomersType, UpdateCustomerType, MarkScreenedType,
     DeleteCustomerType, RecordMatchesType, ReplaceMatchesType,
     ResolveMatchType DEF Next
<1>3. QED
  BY <1>1, <1>2

(* The tables keep their shape through every operation, cut short or not.  *)
THEOREM TypeCorrect == Spec => []TypeOK
<1>1. QED
  BY InitType, NextType, PTL DEF Spec

-----------------------------------------------------------------------------
(* An edit and a mark change what a row says, never which rows there are.  *)
LEMMA UpdateKeepsRows ==
    ASSUME TypeOK, NEW c \in Customer, NEW r \in Reference, NEW i \in Identity,
           UpdateCustomer(c, r, i)
    PROVE  \A d \in Customer : customers'[d] # NoRow <=> customers[d] # NoRow
<1>1. /\ customers[c] # NoRow
      /\ \A d \in Customer : d # c => customers'[d] = customers[d]
  BY DEF UpdateCustomer, TypeOK, Live
<1>2. customers'[c] \in CustomerRow
  <2>1. customers[c] \in CustomerRow
    BY <1>1 DEF TypeOK
  <2>2. customers'[c] =
           [reference |-> r, identity |-> i,
            proof |-> IF i # customers[c].identity
                        THEN NoVersion ELSE customers[c].proof]
    BY DEF UpdateCustomer, TypeOK
  <2>3. QED
    BY <2>1, <2>2 DEF CustomerRow
<1>3. QED
  BY <1>1, <1>2, RowAssumption

LEMMA MarkKeepsRows ==
    ASSUME TypeOK, NEW c \in Customer, NEW v \in Version, MarkScreened(c, v)
    PROVE  \A d \in Customer : customers'[d] # NoRow <=> customers[d] # NoRow
<1>1. /\ customers[c] # NoRow
      /\ \A d \in Customer : d # c => customers'[d] = customers[d]
  BY DEF MarkScreened, TypeOK, Live
<1>2. customers'[c] \in CustomerRow
  <2>1. customers[c] \in CustomerRow
    BY <1>1 DEF TypeOK
  <2>2. customers'[c] = [customers[c] EXCEPT !.proof = v]
    BY DEF MarkScreened, TypeOK
  <2>3. QED
    BY <2>1, <2>2 DEF CustomerRow
<1>3. QED
  BY <1>1, <1>2, RowAssumption

(* Erasure: only a live customer gets rows or events, and deleting it takes *)
(* all of them.                                                             *)
LEMMA ErasureStep ==
    TypeOK /\ ErasureComplete /\ [Next]_vars => ErasureComplete'
<1> SUFFICES ASSUME TypeOK, ErasureComplete, [Next]_vars
             PROVE  ErasureComplete'
  OBVIOUS
<1>1. ASSUME NEW batch \in Batches, CreateCustomers(batch)
      PROVE  ErasureComplete'
  <2>1. \A c \in DOMAIN batch : NewCustomer(batch[c]) # NoRow
    BY NewRow
  <2>2. \A c \in Customer : customers[c] # NoRow => customers'[c] # NoRow
    BY <1>1, <2>1 DEF CreateCustomers
  <2>3. QED
    BY <1>1, <2>2 DEF CreateCustomers, ErasureComplete, Held, Live
<1>2. ASSUME NEW c \in Customer, NEW r \in Reference, NEW i \in Identity,
             UpdateCustomer(c, r, i)
      PROVE  ErasureComplete'
  BY <1>2, UpdateKeepsRows DEF UpdateCustomer, ErasureComplete, Held, Live
<1>3. ASSUME NEW c \in Customer, NEW v \in Version, MarkScreened(c, v)
      PROVE  ErasureComplete'
  BY <1>3, MarkKeepsRows DEF MarkScreened, ErasureComplete, Held, Live
<1>4. ASSUME NEW c \in Customer, DeleteCustomer(c)
      PROVE  ErasureComplete'
  BY <1>4 DEF DeleteCustomer, TypeOK, ErasureComplete, Held, Live
<1>5. ASSUME NEW c \in Customer, NEW h \in Hits, RecordMatches(c, h)
      PROVE  ErasureComplete'
  BY <1>5 DEF RecordMatches, TypeOK, ErasureComplete, Held, Live
<1>6. ASSUME NEW c \in Customer, NEW h \in Hits, ReplaceMatches(c, h)
      PROVE  ErasureComplete'
  BY <1>6 DEF ReplaceMatches, TypeOK, ErasureComplete, Held, Live
<1>7. ASSUME NEW c \in Customer, NEW e \in Entity, NEW s \in Disposition,
             ResolveMatch(c, e, s) \/ ResolveMatchTorn(c, e, s)
      PROVE  ErasureComplete'
  <2>1. Live(c)
    BY <1>7 DEF ResolveMatch, ResolveMatchTorn, Decide, ErasureComplete
  <2>2. \A d \in Customer : d # c =>
           matches'[d] = matches[d] /\ trail'[d] = trail[d]
    BY <1>7 DEF ResolveMatch, ResolveMatchTorn, Decide, TypeOK
  <2>3. customers' = customers
    BY <1>7 DEF ResolveMatch, ResolveMatchTorn, Decide
  <2>4. QED
    BY <2>1, <2>2, <2>3 DEF ErasureComplete, Held, Live
<1>8. CASE UNCHANGED vars
  BY <1>8 DEF vars, ErasureComplete, Held, Live
<1>9. QED
  BY <1>1, <1>2, <1>3, <1>4, <1>5, <1>6, <1>7, <1>8 DEF Next

(* Deleting a customer leaves nothing of it, whatever ran before and        *)
(* whatever is attempted after, the worker's death included.                *)
THEOREM ErasureSafe == Spec => []ErasureComplete
<1>1. Init => ErasureComplete
  BY DEF Init, ErasureComplete, Live, Held
<1>2. QED
  BY <1>1, InitType, NextType, ErasureStep, PTL DEF Spec

-----------------------------------------------------------------------------
(* What a step does to one (customer, entity) pair, one operator per kind. *)
Kept(d, e) ==
    /\ matches'[d][e] = matches[d][e]
    /\ trail'[d][e] = trail[d][e]
    /\ decidedOn'[d][e] = decidedOn[d][e]

Erased(d, e) ==
    /\ customers'[d] = NoRow
    /\ matches'[d][e] = NoRow
    /\ trail'[d][e] = <<>>

Found(d, e, fp) ==
    /\ matches'[d][e] = FreshRow(fp)
    /\ trail'[d][e] = Append(trail[d][e], Detected)

Dropped(d, e) ==
    /\ Held(d, e)
    /\ matches'[d][e] = NoRow
    /\ trail'[d][e] = Append(trail[d][e], Suppressed(matches[d][e]))

Adopts(d, e, fp) ==
    /\ Held(d, e)
    /\ matches[d][e].fingerprint = NoFingerprint
    /\ matches'[d][e] = Adopted(matches[d][e], fp)
    /\ trail'[d][e] = trail[d][e]
    /\ decidedOn'[d][e] = decidedOn[d][e]

Flags(d, e, fp) ==
    /\ Held(d, e)
    /\ matches'[d][e] = Flagged(matches[d][e], fp)
    /\ trail'[d][e] = Append(trail[d][e], Changed(matches[d][e]))

Settles(d, e, s) ==
    /\ Held(d, e)
    /\ matches'[d][e] = DecidedRow(matches[d][e], s)
    /\ decidedOn'[d][e] = matches[d][e].fingerprint
    /\ \/ trail'[d][e] = Append(trail[d][e], Disposed(matches[d][e].status, s))
       \/ WorkerMayDie /\ trail'[d][e] = trail[d][e]

Moves(d, e) ==
    \/ Kept(d, e) \/ Erased(d, e) \/ Dropped(d, e)
    \/ \E fp \in Fingerprint : Found(d, e, fp) \/ Adopts(d, e, fp) \/ Flags(d, e, fp)
    \/ \E s \in Disposition : Settles(d, e, s)

LEMMA RecordedPair ==
    ASSUME TypeOK, NEW c \in Customer, NEW h \in Hits, RecordMatches(c, h),
           NEW d \in Customer, NEW e \in Entity
    PROVE  Moves(d, e)
<1>1. CASE d = c /\ e \in DOMAIN h
  <2>1. Found(d, e, h[e])
    BY <1>1 DEF RecordMatches, TypeOK, Found
  <2>2. QED
    BY <1>1, <2>1, HitsType DEF Moves
<1>2. CASE ~(d = c /\ e \in DOMAIN h)
  <2>1. Kept(d, e)
    BY <1>2 DEF RecordMatches, TypeOK, Kept
  <2>2. QED
    BY <2>1 DEF Moves
<1>3. QED
  BY <1>1, <1>2

LEMMA ReplacedPair ==
    ASSUME TypeOK, NEW c \in Customer, NEW h \in Hits, ReplaceMatches(c, h),
           NEW d \in Customer, NEW e \in Entity
    PROVE  Moves(d, e)
<1>1. CASE d # c
  <2>1. Kept(d, e)
    BY <1>1 DEF ReplaceMatches, TypeOK, Kept
  <2>2. QED
    BY <2>1 DEF Moves
<1>2. CASE d = c
  <2>1. /\ matches'[d][e] = IF e \in DOMAIN h THEN Carried(matches[d][e], h[e])
                                             ELSE NoRow
        /\ trail'[d][e] = Ledgered(trail[d][e], matches[d][e], h, e)
        /\ decidedOn'[d][e] = decidedOn[d][e]
    BY <1>2 DEF ReplaceMatches, TypeOK
  <2>2. CASE e \notin DOMAIN h /\ ~Held(d, e)
    <3>1. Kept(d, e)
      BY <2>1, <2>2 DEF Ledgered, Held, Kept
    <3>2. QED
      BY <3>1 DEF Moves
  <2>3. CASE e \notin DOMAIN h /\ Held(d, e)
    <3>1. Dropped(d, e)
      BY <2>1, <2>3 DEF Ledgered, Held, Dropped
    <3>2. QED
      BY <3>1 DEF Moves
  <2>4. CASE e \in DOMAIN h /\ ~Held(d, e)
    <3>1. Carried(matches[d][e], h[e]) = FreshRow(h[e])
      BY <2>4 DEF Carried, Held
    <3>2. Found(d, e, h[e])
      BY <2>1, <2>4, <3>1 DEF Ledgered, Moved, Held, Found
    <3>3. QED
      BY <2>4, <3>2, HitsType DEF Moves
  <2>5. CASE e \in DOMAIN h /\ Held(d, e)
    <3> DEFINE prior == matches[d][e]
    <3>1. prior # NoRow
      BY <2>5 DEF Held
    <3>2. CASE prior.fingerprint = NoFingerprint
      <4>0. h[e] # NoFingerprint
        BY <2>5, HitsType, NullAssumption
      <4>1. Carried(prior, h[e]) = Adopted(prior, h[e])
        BY <3>1, <3>2, <4>0 DEF Carried
      <4>2. Ledgered(trail[d][e], prior, h, e) = trail[d][e]
        BY <2>5, <3>1, <3>2 DEF Ledgered, Moved
      <4>3. Adopts(d, e, h[e])
        BY <2>1, <2>5, <3>2, <4>1, <4>2 DEF Adopts
      <4>4. QED
        BY <2>5, <4>3, HitsType DEF Moves
    <3>3. CASE prior.fingerprint # NoFingerprint /\ prior.fingerprint = h[e]
      <4>1. Carried(prior, h[e]) = prior
        BY <3>1, <3>3 DEF Carried
      <4>2. Ledgered(trail[d][e], prior, h, e) = trail[d][e]
        BY <2>5, <3>1, <3>3 DEF Ledgered, Moved
      <4>3. Kept(d, e)
        BY <2>1, <2>5, <4>1, <4>2 DEF Kept
      <4>4. QED
        BY <4>3 DEF Moves
    <3>4. CASE prior.fingerprint # NoFingerprint /\ prior.fingerprint # h[e]
      <4>1. Carried(prior, h[e]) = Flagged(prior, h[e])
        BY <3>1, <3>4 DEF Carried
      <4>2. Ledgered(trail[d][e], prior, h, e) = Append(trail[d][e], Changed(prior))
        BY <2>5, <3>1, <3>4 DEF Ledgered, Moved
      <4>3. Flags(d, e, h[e])
        BY <2>1, <2>5, <4>1, <4>2 DEF Flags
      <4>4. QED
        BY <2>5, <4>3, HitsType DEF Moves
    <3>5. QED
      BY <3>2, <3>3, <3>4
  <2>6. QED
    BY <2>2, <2>3, <2>4, <2>5
<1>3. QED
  BY <1>1, <1>2

LEMMA ResolvedPair ==
    ASSUME TypeOK, NEW c \in Customer, NEW f \in Entity, NEW s \in Disposition,
           ResolveMatch(c, f, s) \/ ResolveMatchTorn(c, f, s),
           NEW d \in Customer, NEW e \in Entity
    PROVE  Moves(d, e)
<1>1. CASE d = c /\ e = f
  <2>1. Settles(d, e, s)
    BY <1>1 DEF ResolveMatch, ResolveMatchTorn, Decide, TypeOK, Settles
  <2>2. QED
    BY <2>1 DEF Moves
<1>2. CASE ~(d = c /\ e = f)
  <2>1. Kept(d, e)
    BY <1>2 DEF ResolveMatch, ResolveMatchTorn, Decide, TypeOK, Kept
  <2>2. QED
    BY <2>1 DEF Moves
<1>3. QED
  BY <1>1, <1>2

(* Every step moves every pair in one of these ways: the step invariants    *)
(* below are proved once per move instead of once per operation.            *)
LEMMA PairStep ==
    ASSUME TypeOK, [Next]_vars, NEW d \in Customer, NEW e \in Entity
    PROVE  Moves(d, e)
<1>1. ASSUME NEW c \in Customer, DeleteCustomer(c)
      PROVE  Moves(d, e)
  <2>1. CASE d = c
    BY <1>1, <2>1 DEF DeleteCustomer, TypeOK, Erased, Moves
  <2>2. CASE d # c
    BY <1>1, <2>2 DEF DeleteCustomer, TypeOK, Kept, Moves
  <2>3. QED
    BY <2>1, <2>2
<1>2. ASSUME UNCHANGED <<matches, trail, decidedOn>>
      PROVE  Moves(d, e)
  BY <1>2 DEF Kept, Moves
<1>3. QED
  BY <1>1, <1>2, RecordedPair, ReplacedPair, ResolvedPair
  DEF Next, vars, CreateCustomers, UpdateCustomer, MarkScreened

(* The event a move appends is the newest one afterwards.                   *)
LEMMA NewestAfter ==
    ASSUME TypeOK, NEW d \in Customer, NEW e \in Entity, NEW x \in Event,
           trail'[d][e] = Append(trail[d][e], x)
    PROVE  Newest(d, e)' = x /\ trail'[d][e] # <<>>
<1>1. trail[d][e] \in Seq(Event)
  BY DEF TypeOK
<1>2. QED
  BY <1>1, AppendFacts DEF Newest

LEMMA HeldRow ==
    ASSUME TypeOK, NEW d \in Customer, NEW e \in Entity, Held(d, e)
    PROVE  matches[d][e] \in MatchRow
  BY DEF TypeOK, Held

-----------------------------------------------------------------------------
(* A recorded decision survives: every write of the board that could return *)
(* a decided row to PENDING appends a DETECTED event in the same            *)
(* transaction, so the invariant needs no strengthening beyond the types.   *)
LEMMA DecisionSurvivesStep ==
    TypeOK /\ RecordedDecisionSurvives /\ [Next]_vars
       => RecordedDecisionSurvives'
<1> DEFINE Survives(d, e) ==
       trail[d][e] # <<>> /\ Held(d, e) /\ Newest(d, e).to # "PENDING" =>
          matches[d][e].status # "PENDING"
<1> SUFFICES ASSUME TypeOK, RecordedDecisionSurvives, [Next]_vars,
                    NEW d \in Customer, NEW e \in Entity
             PROVE  Survives(d, e)'
  BY DEF RecordedDecisionSurvives
<1>1. CASE Kept(d, e)
  BY <1>1 DEF RecordedDecisionSurvives, Kept, Held, Newest
<1>2. CASE Erased(d, e) \/ Dropped(d, e)
  BY <1>2 DEF Erased, Dropped, Held
<1>3. ASSUME NEW fp \in Fingerprint, Found(d, e, fp)
      PROVE  Survives(d, e)'
  <2>1. Newest(d, e)' = Detected
    BY <1>3, NewestAfter, FreshEvent DEF Found
  <2>2. QED
    BY <2>1 DEF Detected
<1>4. ASSUME NEW fp \in Fingerprint, Adopts(d, e, fp)
      PROVE  Survives(d, e)'
  <2>1. matches'[d][e].status = matches[d][e].status
    BY <1>4, HeldRow, RewrittenRow DEF Adopts
  <2>2. QED
    BY <1>4, <2>1 DEF RecordedDecisionSurvives, Adopts, Held, Newest
<1>5. ASSUME NEW fp \in Fingerprint, Flags(d, e, fp)
      PROVE  Survives(d, e)'
  <2>1. matches'[d][e].status = matches[d][e].status
    BY <1>5, HeldRow, RewrittenRow DEF Flags
  <2>2. Newest(d, e)' = Changed(matches[d][e])
    BY <1>5, HeldRow, RowEvents, NewestAfter DEF Flags
  <2>3. Newest(d, e)'.to = matches[d][e].status
    BY <2>2 DEF Changed
  <2>4. QED
    BY <2>1, <2>3
<1>6. ASSUME NEW s \in Disposition, Settles(d, e, s)
      PROVE  Survives(d, e)'
  <2>1. matches'[d][e].status = s
    BY <1>6, HeldRow, SettledRow DEF Settles
  <2>2. QED
    BY <2>1, DispositionAssumption
<1> HIDE DEF Survives
<1>7. QED
  BY <1>1, <1>2, <1>3, <1>4, <1>5, <1>6, PairStep DEF Moves

(* Whatever runs on the store, and wherever the worker dies, a decision the *)
(* ledger records never returns to the open questions of the board unless   *)
(* its hit is detected anew.                                                *)
THEOREM DecisionsSurvive == Spec => []RecordedDecisionSurvives
<1>1. Init => RecordedDecisionSurvives
  BY DEF Init, RecordedDecisionSurvives
<1>2. QED
  BY <1>1, InitType, NextType, DecisionSurvivesStep, PTL DEF Spec

-----------------------------------------------------------------------------
(* While no statement is cut short, the newest event names the status on    *)
(* the board ...                                                            *)
LEMMA ExplainedStep ==
    ASSUME WorkerMayDie = FALSE
    PROVE  TypeOK /\ LedgerExplainsBoard /\ [Next]_vars => LedgerExplainsBoard'
<1> DEFINE Explained(d, e) ==
       trail[d][e] # <<>> =>
          IF Held(d, e) THEN Newest(d, e).to = matches[d][e].status
                        ELSE Newest(d, e).type = "SUPPRESSED"
<1> SUFFICES ASSUME TypeOK, LedgerExplainsBoard, [Next]_vars,
                    NEW d \in Customer, NEW e \in Entity
             PROVE  Explained(d, e)'
  BY DEF LedgerExplainsBoard
<1>1. CASE Kept(d, e)
  BY <1>1 DEF LedgerExplainsBoard, Kept, Held, Newest
<1>2. CASE Erased(d, e)
  BY <1>2 DEF Erased
<1>3. CASE Dropped(d, e)
  <2>1. Newest(d, e)' = Suppressed(matches[d][e])
    BY <1>3, HeldRow, RowEvents, NewestAfter DEF Dropped
  <2>2. QED
    BY <1>3, <2>1 DEF Dropped, Held, Suppressed
<1>4. ASSUME NEW fp \in Fingerprint, Found(d, e, fp)
      PROVE  Explained(d, e)'
  <2>1. Newest(d, e)' = Detected
    BY <1>4, NewestAfter, FreshEvent DEF Found
  <2>2. matches'[d][e].status = "PENDING" /\ matches'[d][e] # NoRow
    BY <1>4, FreshRowType DEF Found, FreshRow
  <2>3. QED
    BY <2>1, <2>2 DEF Detected, Held
<1>5. ASSUME NEW fp \in Fingerprint, Adopts(d, e, fp)
      PROVE  Explained(d, e)'
  <2>1. /\ matches'[d][e].status = matches[d][e].status
        /\ matches'[d][e] # NoRow
    BY <1>5, HeldRow, RewrittenRow, RowAssumption DEF Adopts
  <2>2. QED
    BY <1>5, <2>1 DEF LedgerExplainsBoard, Adopts, Held, Newest
<1>6. ASSUME NEW fp \in Fingerprint, Flags(d, e, fp)
      PROVE  Explained(d, e)'
  <2>1. /\ matches'[d][e].status = matches[d][e].status
        /\ matches'[d][e] # NoRow
    BY <1>6, HeldRow, RewrittenRow, RowAssumption DEF Flags
  <2>2. Newest(d, e)' = Changed(matches[d][e])
    BY <1>6, HeldRow, RowEvents, NewestAfter DEF Flags
  <2>3. QED
    BY <2>1, <2>2 DEF Changed, Held
<1>7. ASSUME NEW s \in Disposition, Settles(d, e, s)
      PROVE  Explained(d, e)'
  <2>1. matches'[d][e].status = s /\ matches'[d][e] # NoRow
    BY <1>7, HeldRow, SettledRow, RowAssumption DEF Settles
  <2>2. Newest(d, e)' = Disposed(matches[d][e].status, s)
    BY <1>7, HeldRow, EventTypes, NewestAfter DEF Settles
  <2>3. QED
    BY <2>1, <2>2 DEF Disposed, Held
<1> HIDE DEF Explained
<1>8. QED
  BY <1>1, <1>2, <1>3, <1>4, <1>5, <1>6, <1>7, PairStep DEF Moves

(* ... which is what lets the trail be read as one history: the event a     *)
(* step appends starts from the row's status, and so from where the         *)
(* previous event ended.                                                    *)
LEMMA ChainStep ==
    ASSUME WorkerMayDie = FALSE
    PROVE  TypeOK /\ LedgerExplainsBoard /\ TrailIsAChain /\ [Next]_vars
              => TrailIsAChain'
<1> DEFINE Linked(d, e) ==
       \A k \in 2 .. Len(trail[d][e]) :
          \/ trail[d][e][k].type = "DETECTED"
          \/ trail[d][e][k].from = trail[d][e][k - 1].to
<1> SUFFICES ASSUME TypeOK, LedgerExplainsBoard, TrailIsAChain, [Next]_vars,
                    NEW d \in Customer, NEW e \in Entity
             PROVE  Linked(d, e)'
  BY DEF TrailIsAChain
<1>a. Linked(d, e) /\ trail[d][e] \in Seq(Event)
  BY DEF TrailIsAChain, TypeOK
<1>b. ASSUME trail'[d][e] = trail[d][e]
      PROVE  Linked(d, e)'
  BY <1>a, <1>b
<1>c. ASSUME NEW x \in Event, trail'[d][e] = Append(trail[d][e], x),
             \/ x.type = "DETECTED"
             \/ trail[d][e] # <<>> => x.from = Newest(d, e).to
      PROVE  Linked(d, e)'
  <2> DEFINE t == trail[d][e]
  <2>1. /\ Len(Append(t, x)) = Len(t) + 1
        /\ Append(t, x)[Len(t) + 1] = x
        /\ \A k \in 1 .. Len(t) : Append(t, x)[k] = t[k]
    BY <1>a
  <2>2. SUFFICES ASSUME NEW k \in 2 .. Len(t) + 1
                 PROVE  \/ Append(t, x)[k].type = "DETECTED"
                        \/ Append(t, x)[k].from = Append(t, x)[k - 1].to
    BY <1>c, <2>1
  <2>3. CASE k = Len(t) + 1
    <3>1. k - 1 = Len(t) /\ t # <<>> /\ Len(t) \in 1 .. Len(t)
      BY <1>a, <2>3
    <3>2. Append(t, x)[k - 1] = Newest(d, e)
      BY <2>1, <3>1 DEF Newest
    <3>3. QED
      BY <1>c, <2>1, <2>3, <3>1, <3>2
  <2>4. CASE k # Len(t) + 1
    <3>1. k \in 2 .. Len(t) /\ k \in 1 .. Len(t) /\ k - 1 \in 1 .. Len(t)
      BY <1>a, <2>4
    <3>2. QED
      BY <1>a, <2>1, <3>1
  <2>5. QED
    BY <2>3, <2>4
<1>d. Held(d, e) /\ trail[d][e] # <<>> => Newest(d, e).to = matches[d][e].status
  BY DEF LedgerExplainsBoard
<1>1. CASE Kept(d, e)
  BY <1>1, <1>b DEF Kept
<1>2. CASE Erased(d, e)
  <2>1. Len(trail'[d][e]) = 0
    BY <1>2 DEF Erased
  <2>2. QED
    BY <2>1
<1> HIDE DEF Linked
<1>3. CASE Dropped(d, e)
  <2>1. Suppressed(matches[d][e]) \in Event
    BY <1>3, HeldRow, RowEvents DEF Dropped
  <2>2. Suppressed(matches[d][e]).from = matches[d][e].status
    BY DEF Suppressed
  <2>3. QED
    BY <1>3, <1>c, <1>d, <2>1, <2>2 DEF Dropped
<1>4. ASSUME NEW fp \in Fingerprint, Found(d, e, fp)
      PROVE  Linked(d, e)'
  <2>1. Detected.type = "DETECTED"
    BY DEF Detected
  <2>2. QED
    BY <1>4, <1>c, <2>1, FreshEvent DEF Found
<1>5. ASSUME NEW fp \in Fingerprint, Adopts(d, e, fp)
      PROVE  Linked(d, e)'
  BY <1>5, <1>b DEF Adopts
<1>6. ASSUME NEW fp \in Fingerprint, Flags(d, e, fp)
      PROVE  Linked(d, e)'
  <2>1. Changed(matches[d][e]) \in Event
    BY <1>6, HeldRow, RowEvents DEF Flags
  <2>2. Changed(matches[d][e]).from = matches[d][e].status
    BY DEF Changed
  <2>3. QED
    BY <1>6, <1>c, <1>d, <2>1, <2>2 DEF Flags
<1>7. ASSUME NEW s \in Disposition, Settles(d, e, s)
      PROVE  Linked(d, e)'
  <2>1. Disposed(matches[d][e].status, s) \in Event
    BY <1>7, HeldRow, EventTypes DEF Settles
  <2>2. Disposed(matches[d][e].status, s).from = matches[d][e].status
    BY DEF Disposed
  <2>3. QED
    BY <1>7, <1>c, <1>d, <2>1, <2>2 DEF Settles
<1>8. QED
  BY <1>1, <1>2, <1>3, <1>4, <1>5, <1>6, <1>7, PairStep DEF Moves

(* If no worker dies between two statements, the ledger explains the board  *)
(* and every trail is one unbroken history, for any sequence of operations. *)
(* The crash-free assumption is needed: ResolveMatchTorn breaks both.       *)
THEOREM LedgerTrue ==
    ASSUME WorkerMayDie = FALSE
    PROVE  Spec => [](LedgerExplainsBoard /\ TrailIsAChain)
<1>1. Init => LedgerExplainsBoard /\ TrailIsAChain
  BY DEF Init, LedgerExplainsBoard, TrailIsAChain
<1>2. QED
  BY <1>1, InitType, NextType, ExplainedStep, ChainStep, PTL DEF Spec

(* In particular every status change starts from where the one before it    *)
(* ended, whoever decided, re-screened or withdrew in between.              *)
THEOREM TrailsAreChains ==
    ASSUME WorkerMayDie = FALSE
    PROVE  Spec => []TrailIsAChain
BY LedgerTrue, PTL

-----------------------------------------------------------------------------
(* A settled row may be read as current only for the fingerprint it was     *)
(* settled on: a re-screen either keeps that fingerprint, adopts one where  *)
(* there was none, or flags the row.                                        *)
LEMMA DecisionFitsStep ==
    TypeOK /\ DecisionFitsFacts /\ [Next]_vars => DecisionFitsFacts'
<1> DEFINE Fits(d, e) ==
       /\ Held(d, e)
       /\ matches[d][e].status # "PENDING"
       /\ matches[d][e].review = "CURRENT"
       /\ decidedOn[d][e] # NoFingerprint
       => matches[d][e].fingerprint = decidedOn[d][e]
<1> SUFFICES ASSUME TypeOK, DecisionFitsFacts, [Next]_vars,
                    NEW d \in Customer, NEW e \in Entity
             PROVE  Fits(d, e)'
  BY DEF DecisionFitsFacts
<1>a. Fits(d, e)
  BY DEF DecisionFitsFacts
<1>1. CASE Kept(d, e)
  BY <1>1, <1>a DEF Kept, Held
<1>2. CASE Erased(d, e) \/ Dropped(d, e)
  BY <1>2 DEF Erased, Dropped, Held
<1>3. ASSUME NEW fp \in Fingerprint, Found(d, e, fp)
      PROVE  Fits(d, e)'
  <2>1. matches'[d][e].status = "PENDING"
    BY <1>3 DEF Found, FreshRow
  <2>2. QED
    BY <2>1
<1>4. ASSUME NEW fp \in Fingerprint, Adopts(d, e, fp)
      PROVE  Fits(d, e)'
  <2>1. /\ matches'[d][e].status = matches[d][e].status
        /\ matches'[d][e].review = matches[d][e].review
    BY <1>4, HeldRow, RewrittenRow DEF Adopts
  <2>2. /\ Held(d, e)
        /\ matches[d][e].fingerprint = NoFingerprint
        /\ decidedOn'[d][e] = decidedOn[d][e]
    BY <1>4 DEF Adopts
  <2>3. QED
    BY <1>a, <2>1, <2>2
<1>5. ASSUME NEW fp \in Fingerprint, Flags(d, e, fp)
      PROVE  Fits(d, e)'
  <2>1. matches'[d][e].review = "CHANGED"
    BY <1>5, HeldRow, RewrittenRow DEF Flags
  <2>2. QED
    BY <2>1
<1>6. ASSUME NEW s \in Disposition, Settles(d, e, s)
      PROVE  Fits(d, e)'
  <2>1. matches'[d][e].fingerprint = matches[d][e].fingerprint
    BY <1>6, HeldRow, SettledRow DEF Settles
  <2>2. QED
    BY <1>6, <2>1 DEF Settles
<1> HIDE DEF Fits
<1>7. QED
  BY <1>1, <1>2, <1>3, <1>4, <1>5, <1>6, PairStep DEF Moves

(* A decision is shown as current only for the facts it was made on.        *)
THEOREM DecisionsFit == Spec => []DecisionFitsFacts
<1>1. Init => DecisionFitsFacts
  BY DEF Init, DecisionFitsFacts
<1>2. QED
  BY <1>1, InitType, NextType, DecisionFitsStep, PTL DEF Spec

-----------------------------------------------------------------------------
(* An existing customer's ledger only grows: deletion, the one move that    *)
(* empties a trail, takes the customer with it.                             *)
LEMMA AppendOnlyStep ==
    ASSUME TypeOK, [Next]_vars
    PROVE  \A c \in Customer, e \in Entity :
              Live(c) /\ Live(c)' =>
                 /\ Len(trail[c][e]) <= Len(trail'[c][e])
                 /\ SubSeq(trail'[c][e], 1, Len(trail[c][e])) = trail[c][e]
<1> SUFFICES ASSUME NEW c \in Customer, NEW e \in Entity, Live(c), Live(c)'
             PROVE  /\ Len(trail[c][e]) <= Len(trail'[c][e])
                    /\ SubSeq(trail'[c][e], 1, Len(trail[c][e])) = trail[c][e]
  OBVIOUS
<1> DEFINE t == trail[c][e]
<1>1. t \in Seq(Event)
  BY DEF TypeOK
<1>2. CASE trail'[c][e] = t
  <2>1. SubSeq(t, 1, Len(t)) = t
    BY <1>1
  <2>2. QED
    BY <1>1, <1>2, <2>1
<1>3. ASSUME NEW x \in Event, trail'[c][e] = Append(t, x)
      PROVE  /\ Len(t) <= Len(trail'[c][e])
             /\ SubSeq(trail'[c][e], 1, Len(t)) = t
  <2>1. Len(Append(t, x)) = Len(t) + 1
    BY <1>1
  <2>2. SubSeq(Append(t, x), 1, Len(t)) = t
    BY <1>1
  <2>3. QED
    BY <1>1, <1>3, <2>1, <2>2
<1>4. ~Erased(c, e)
  BY DEF Erased, Live
<1>5. CASE \E fp \in Fingerprint : Found(c, e, fp)
  BY <1>3, <1>5, FreshEvent DEF Found
<1>6. CASE Dropped(c, e) \/ \E fp \in Fingerprint : Flags(c, e, fp)
  BY <1>3, <1>6, HeldRow, RowEvents DEF Dropped, Flags
<1>7. CASE Kept(c, e) \/ \E fp \in Fingerprint : Adopts(c, e, fp)
  BY <1>2, <1>7 DEF Kept, Adopts
<1>8. ASSUME NEW s \in Disposition, Settles(c, e, s)
      PROVE  \/ trail'[c][e] = t
             \/ \E x \in Event : trail'[c][e] = Append(t, x)
  BY <1>8, HeldRow, EventTypes DEF Settles
<1>9. QED
  BY <1>2, <1>3, <1>4, <1>5, <1>6, <1>7, <1>8, PairStep DEF Moves

(* The triggers' promise, from the operations alone: no operation rewrites  *)
(* or drops an event of a customer that stays.                              *)
THEOREM LedgerAppendOnly == Spec => AppendOnlyLedger
<1>1. TypeOK /\ [Next]_vars =>
         [\A c \in Customer, e \in Entity :
             Live(c) /\ Live(c)' =>
                /\ Len(trail[c][e]) <= Len(trail'[c][e])
                /\ SubSeq(trail'[c][e], 1, Len(trail[c][e])) = trail[c][e]]_vars
  BY AppendOnlyStep
<1>2. QED
  BY <1>1, InitType, NextType, PTL DEF Spec, AppendOnlyLedger

-----------------------------------------------------------------------------
(* customer_reference: every write of one checks it against all the rows it *)
(* will stand beside, those of its own batch included.                      *)
LEMMA UniqueStep ==
    TypeOK /\ ReferencesUnique /\ [Next]_vars => ReferencesUnique'
<1> SUFFICES ASSUME TypeOK, ReferencesUnique, [Next]_vars
             PROVE  ReferencesUnique'
  OBVIOUS
<1>1. ASSUME NEW batch \in Batches, CreateCustomers(batch)
      PROVE  ReferencesUnique'
  <2>1. \A c \in Customer :
           customers'[c] = IF c \in DOMAIN batch THEN NewCustomer(batch[c])
                                                 ELSE customers[c]
    BY <1>1 DEF CreateCustomers
  <2>2. \A c \in DOMAIN batch : NewCustomer(batch[c]).reference = batch[c].reference
    BY DEF NewCustomer
  <2>3. \A c \in DOMAIN batch, d \in Customer :
           customers[d] # NoRow => customers[d].reference # batch[c].reference
    BY <1>1 DEF CreateCustomers, Free, Live
  <2>4. \A c, d \in DOMAIN batch :
           c # d => batch[c].reference # batch[d].reference
    BY <1>1 DEF CreateCustomers
  <2>5. \A c, d \in Customer :
           customers[c] # NoRow /\ customers[d] # NoRow /\ c # d =>
              customers[c].reference # customers[d].reference
    BY DEF ReferencesUnique, Live
  <2>6. SUFFICES ASSUME NEW c \in Customer, NEW d \in Customer,
                        customers'[c] # NoRow, customers'[d] # NoRow, c # d
                 PROVE  customers'[c].reference # customers'[d].reference
    BY DEF ReferencesUnique, Live
  <2>7. CASE c \in DOMAIN batch /\ d \in DOMAIN batch
    BY <2>1, <2>2, <2>4, <2>6, <2>7
  <2>8. CASE c \in DOMAIN batch /\ d \notin DOMAIN batch
    BY <2>1, <2>2, <2>3, <2>6, <2>8
  <2>9. CASE c \notin DOMAIN batch /\ d \in DOMAIN batch
    BY <2>1, <2>2, <2>3, <2>6, <2>9
  <2>10. CASE c \notin DOMAIN batch /\ d \notin DOMAIN batch
    BY <2>1, <2>5, <2>6, <2>10
  <2>11. QED
    BY <2>7, <2>8, <2>9, <2>10
<1>2. ASSUME NEW c \in Customer, NEW r \in Reference, NEW i \in Identity,
             UpdateCustomer(c, r, i)
      PROVE  ReferencesUnique'
  <2>1. \A d \in Customer : d # c => customers'[d] = customers[d]
    BY <1>2 DEF UpdateCustomer, TypeOK
  <2>2. customers[c] # NoRow /\ customers'[c].reference = r
    BY <1>2 DEF UpdateCustomer, TypeOK, Live
  <2>3. \A d \in Customer : d # c /\ customers[d] # NoRow =>
           customers[d].reference # r
    BY <1>2, <2>2 DEF UpdateCustomer, Free, ReferencesUnique, Live
  <2>4. QED
    BY <2>1, <2>2, <2>3 DEF ReferencesUnique, Live
<1>3. ASSUME NEW c \in Customer, NEW v \in Version, MarkScreened(c, v)
      PROVE  ReferencesUnique'
  <2>1. \A d \in Customer : d # c => customers'[d] = customers[d]
    BY <1>3 DEF MarkScreened, TypeOK
  <2>2. customers[c] \in CustomerRow
    BY <1>3 DEF MarkScreened, TypeOK, Live
  <2>3. customers'[c] = [customers[c] EXCEPT !.proof = v]
    BY <1>3 DEF MarkScreened, TypeOK
  <2>4. customers'[c].reference = customers[c].reference
    BY <2>2, <2>3 DEF CustomerRow
  <2>5. customers[c] # NoRow
    BY <1>3 DEF MarkScreened, Live
  <2>6. QED
    BY <2>1, <2>4, <2>5 DEF ReferencesUnique, Live
<1>4. ASSUME NEW c \in Customer, DeleteCustomer(c)
      PROVE  ReferencesUnique'
  BY <1>4 DEF DeleteCustomer, TypeOK, ReferencesUnique, Live
<1>5. CASE UNCHANGED customers
  BY <1>5 DEF ReferencesUnique, Live
<1>6. QED
  BY <1>1, <1>2, <1>3, <1>4, <1>5
  DEF Next, vars, RecordMatches, ReplaceMatches, ResolveMatch,
      ResolveMatchTorn, Decide

(* No two customers ever share a reference, across single creates, import   *)
(* batches and edits.                                                       *)
THEOREM ReferencesStayUnique == Spec => []ReferencesUnique
<1>1. Init => ReferencesUnique
  BY DEF Init, ReferencesUnique
<1>2. QED
  BY <1>1, InitType, NextType, UniqueStep, PTL DEF Spec

-----------------------------------------------------------------------------
(* The store implements the hit book: seen by its callers, every operation *)
(* on the tables is one operation of HitBook, or changes nothing.          *)

(* What the callers see of one customer row. *)
LEMMA SeenRow ==
    ASSUME TypeOK, NEW c \in Customer
    PROVE  /\ Live(c) <=> bookOf[c] # NoRow
           /\ Live(c) => bookOf[c] = [identity |-> customers[c].identity,
                                      proof |-> customers[c].proof]
<1>1. CASE ~Live(c)
  BY <1>1 DEF bookOf
<1>2. CASE Live(c)
  <2>1. customers[c] \in CustomerRow
    BY <1>2 DEF TypeOK, Live
  <2>2. bookOf[c] = [identity |-> customers[c].identity,
                     proof |-> customers[c].proof]
    BY <1>2 DEF bookOf
  <2>3. bookOf[c] \in [identity: Identity, proof: Version \cup {NoVersion}]
    BY <2>1, <2>2 DEF CustomerRow
  <2>4. QED
    BY <1>2, <2>2, <2>3, RowAssumption
<1>3. QED
  BY <1>1, <1>2

(* The board follows the rows.                                             *)
LEMMA SameBoard ==
    ASSUME matches' = matches
    PROVE  onBoard' = onBoard
  BY DEF onBoard, Held

LEMMA SameBook ==
    ASSUME customers' = customers
    PROVE  bookOf' = bookOf
  BY DEF bookOf, Live

LEMMA InitBook == Init => Book!BookInit
<1> SUFFICES ASSUME Init PROVE Book!BookInit
  OBVIOUS
<1>1. TypeOK
  BY InitType
<1>2. bookOf \in [Customer -> [identity: Identity, proof: {NoVersion}]
                                \cup {NoRow}]
  <2>1. ASSUME NEW c \in Customer, Live(c)
        PROVE  bookOf[c] \in [identity: Identity, proof: {NoVersion}]
    <3>1. customers[c] \in [reference: Reference, identity: Identity,
                            proof: {NoVersion}]
      BY <2>1 DEF Init, Live
    <3>2. QED
      BY <2>1, <3>1 DEF bookOf
  <2>2. \A c \in Customer : ~Live(c) => bookOf[c] = NoRow
    BY DEF bookOf
  <2>3. bookOf = [c \in Customer |-> bookOf[c]]
    BY DEF bookOf
  <2>4. QED
    BY <2>1, <2>2, <2>3
<1>3. onBoard \in [Customer -> SUBSET Entity]
  BY DEF onBoard
<1>4. \A c \in Customer : ~Book!Known(c) => onBoard[c] = {}
  BY <1>1, SeenRow DEF Init, onBoard, Book!Known
<1>5. QED
  BY <1>2, <1>3, <1>4 DEF Book!BookInit

-----------------------------------------------------------------------------
(* One lemma per operation.                                                *)
LEMMA CreateIsEnrol ==
    ASSUME TypeOK, NEW batch \in Batches, CreateCustomers(batch)
    PROVE  Book!BookNext
<1> DEFINE seen == [c \in DOMAIN batch |-> batch[c].identity]
<1>1. DOMAIN batch \in SUBSET Customer /\ \A c \in DOMAIN batch : batch[c] \in Payload
  BY DEF Batches
<1>2. seen \in Book!Batches
  BY <1>1 DEF Book!Batches, Payload
<1>3. \A c \in DOMAIN seen : ~Book!Known(c)
  BY <1>1, SeenRow DEF CreateCustomers, Book!Known
<1>4. ASSUME NEW c \in Customer
      PROVE  bookOf'[c] = IF c \in DOMAIN seen THEN Book!Unproven(seen[c])
                                               ELSE bookOf[c]
  <2>1. CASE c \in DOMAIN batch
    <3>1. customers'[c] = NewCustomer(batch[c])
      BY <2>1 DEF CreateCustomers
    <3>2. customers'[c] # NoRow
      BY <2>1, <3>1, NewRow
    <3>3. bookOf'[c] = [identity |-> batch[c].identity, proof |-> NoVersion]
      BY <3>1, <3>2 DEF bookOf, Live, NewCustomer
    <3>4. QED
      BY <2>1, <3>3 DEF Book!Unproven
  <2>2. CASE c \notin DOMAIN batch
    <3>1. customers'[c] = customers[c]
      BY <2>2 DEF CreateCustomers
    <3>2. QED
      BY <2>2, <3>1 DEF bookOf, Live
  <2>3. QED
    BY <2>1, <2>2
<1>5. bookOf' = [c \in Customer |-> IF c \in DOMAIN seen THEN Book!Unproven(seen[c])
                                                        ELSE bookOf[c]]
  BY <1>4 DEF bookOf
<1>6. onBoard' = onBoard
  BY SameBoard DEF CreateCustomers
<1>7. Book!Enrol(seen)
  BY <1>3, <1>5, <1>6 DEF Book!Enrol
<1>8. QED
  BY <1>2, <1>7 DEF Book!BookNext

LEMMA UpdateIsAmend ==
    ASSUME TypeOK, NEW c \in Customer, NEW r \in Reference, NEW i \in Identity,
           UpdateCustomer(c, r, i)
    PROVE  Book!BookNext
<1>1. Live(c) /\ Book!Known(c)
  BY SeenRow DEF UpdateCustomer, Book!Known
<1>2. customers'[c] = [reference |-> r, identity |-> i,
                       proof |-> IF i # customers[c].identity
                                   THEN NoVersion ELSE customers[c].proof]
  BY DEF UpdateCustomer, TypeOK
<1>3. bookOf'[c] = IF i # bookOf[c].identity THEN Book!Unproven(i) ELSE bookOf[c]
  <2>1. customers'[c] # NoRow
    BY <1>1, UpdateKeepsRows DEF Live
  <2>2. bookOf'[c] = [identity |-> i,
                      proof |-> IF i # customers[c].identity
                                  THEN NoVersion ELSE customers[c].proof]
    BY <1>2, <2>1 DEF bookOf, Live
  <2>3. bookOf[c] = [identity |-> customers[c].identity,
                     proof |-> customers[c].proof]
    BY <1>1, SeenRow
  <2>4. QED
    BY <2>2, <2>3 DEF Book!Unproven
<1>4. \A d \in Customer : d # c => bookOf'[d] = bookOf[d]
  BY DEF UpdateCustomer, TypeOK, bookOf, Live
<1>5. bookOf' = [bookOf EXCEPT ![c] =
                    IF i # bookOf[c].identity THEN Book!Unproven(i) ELSE bookOf[c]]
  BY <1>3, <1>4 DEF bookOf
<1>6. onBoard' = onBoard
  BY SameBoard DEF UpdateCustomer
<1>7. Book!Amend(c, i)
  BY <1>1, <1>5, <1>6 DEF Book!Amend
<1>8. QED
  BY <1>7 DEF Book!BookNext

LEMMA MarkIsProve ==
    ASSUME TypeOK, NEW c \in Customer, NEW v \in Version, MarkScreened(c, v)
    PROVE  Book!BookNext
<1>1. Live(c) /\ Book!Known(c)
  BY SeenRow DEF MarkScreened, Book!Known
<1>2. customers'[c] = [customers[c] EXCEPT !.proof = v]
  BY DEF MarkScreened, TypeOK
<1>3. bookOf'[c] = [bookOf[c] EXCEPT !.proof = v]
  <2>1. customers[c] \in CustomerRow
    BY <1>1 DEF TypeOK, Live
  <2>2. customers'[c] # NoRow
    BY <1>1, MarkKeepsRows DEF Live
  <2>3. bookOf'[c] = [identity |-> customers'[c].identity,
                      proof |-> customers'[c].proof]
    BY <2>2 DEF bookOf, Live
  <2>4. bookOf'[c] = [identity |-> customers[c].identity, proof |-> v]
    BY <1>2, <2>1, <2>3 DEF CustomerRow
  <2>5. bookOf[c] = [identity |-> customers[c].identity,
                     proof |-> customers[c].proof]
    BY <1>1, SeenRow
  <2>6. QED
    BY <2>4, <2>5
<1>4. \A d \in Customer : d # c => bookOf'[d] = bookOf[d]
  BY DEF MarkScreened, TypeOK, bookOf, Live
<1>5. bookOf' = [bookOf EXCEPT ![c].proof = v]
  BY <1>3, <1>4 DEF bookOf
<1>6. onBoard' = onBoard
  BY SameBoard DEF MarkScreened
<1>7. Book!Prove(c, v)
  BY <1>1, <1>5, <1>6 DEF Book!Prove
<1>8. QED
  BY <1>7 DEF Book!BookNext

LEMMA DeleteIsErase ==
    ASSUME TypeOK, NEW c \in Customer, DeleteCustomer(c)
    PROVE  Book!BookNext
<1>1. Book!Known(c)
  BY SeenRow DEF DeleteCustomer, Book!Known
<1>2. bookOf' = [bookOf EXCEPT ![c] = NoRow]
  BY DEF DeleteCustomer, TypeOK, bookOf, Live
<1>3. onBoard' = [onBoard EXCEPT ![c] = {}]
  BY DEF DeleteCustomer, TypeOK, onBoard, Held
<1>4. Book!Erase(c)
  BY <1>1, <1>2, <1>3 DEF Book!Erase
<1>5. QED
  BY <1>4 DEF Book!BookNext

LEMMA RecordIsRecord ==
    ASSUME TypeOK, NEW c \in Customer, NEW h \in Hits, RecordMatches(c, h)
    PROVE  Book!BookNext
<1>1. Book!Known(c)
  BY SeenRow DEF RecordMatches, Book!Known
<1>2. DOMAIN h \in SUBSET Entity
  BY DEF Hits
<1>3. onBoard'[c] = onBoard[c] \cup DOMAIN h
  <2>1. \A e \in Entity :
           matches'[c][e] = IF e \in DOMAIN h THEN FreshRow(h[e]) ELSE matches[c][e]
    BY DEF RecordMatches, TypeOK
  <2>2. \A e \in DOMAIN h : FreshRow(h[e]) # NoRow
    BY HitsType, FreshRowType
  <2>3. QED
    BY <1>2, <2>1, <2>2 DEF onBoard, Held
<1>4. \A d \in Customer : d # c => onBoard'[d] = onBoard[d]
  BY DEF RecordMatches, TypeOK, onBoard, Held
<1>5. onBoard' = [onBoard EXCEPT ![c] = onBoard[c] \cup DOMAIN h]
  BY <1>3, <1>4 DEF onBoard
<1>6. bookOf' = bookOf
  BY SameBook DEF RecordMatches
<1>7. Book!Record(c, DOMAIN h)
  BY <1>1, <1>5, <1>6 DEF Book!Record
<1>8. QED
  BY <1>2, <1>7 DEF Book!BookNext

LEMMA ReplaceIsReplace ==
    ASSUME TypeOK, NEW c \in Customer, NEW h \in Hits, ReplaceMatches(c, h)
    PROVE  Book!BookNext
<1>1. Book!Known(c)
  BY SeenRow DEF ReplaceMatches, Book!Known
<1>2. DOMAIN h \in SUBSET Entity
  BY DEF Hits
<1>3. onBoard'[c] = DOMAIN h
  <2>1. \A e \in Entity :
           matches'[c][e] = IF e \in DOMAIN h THEN Carried(matches[c][e], h[e])
                                              ELSE NoRow
    BY DEF ReplaceMatches, TypeOK
  <2>2. \A e \in DOMAIN h : Carried(matches[c][e], h[e]) # NoRow
    BY <1>2, HitsType, CarriedRow DEF TypeOK
  <2>3. QED
    BY <1>2, <2>1, <2>2 DEF onBoard, Held
<1>4. \A d \in Customer : d # c => onBoard'[d] = onBoard[d]
  BY DEF ReplaceMatches, TypeOK, onBoard, Held
<1>5. onBoard' = [onBoard EXCEPT ![c] = DOMAIN h]
  BY <1>3, <1>4 DEF onBoard
<1>6. bookOf' = bookOf
  BY SameBook DEF ReplaceMatches
<1>7. Book!Replace(c, DOMAIN h)
  BY <1>1, <1>5, <1>6 DEF Book!Replace
<1>8. QED
  BY <1>2, <1>7 DEF Book!BookNext

(* A disposition, cut short or not, is invisible to the book.              *)
LEMMA ResolveStutters ==
    ASSUME TypeOK, NEW c \in Customer, NEW e \in Entity, NEW s \in Disposition,
           ResolveMatch(c, e, s) \/ ResolveMatchTorn(c, e, s)
    PROVE  UNCHANGED Book!bookVars
<1>1. Decide(c, e, s)
  BY DEF ResolveMatch, ResolveMatchTorn
<1>2. matches[c][e] # NoRow /\ DecidedRow(matches[c][e], s) # NoRow
  BY <1>1, HeldRow, SettledRow, RowAssumption DEF Decide, Held
<1>3. onBoard' = onBoard
  <2>1. \A d \in Customer, f \in Entity :
           (matches'[d][f] # NoRow) <=> (matches[d][f] # NoRow)
    BY <1>1, <1>2 DEF Decide, TypeOK
  <2>2. QED
    BY <2>1 DEF onBoard, Held
<1>4. bookOf' = bookOf
  BY <1>1, SameBook DEF Decide
<1>5. QED
  BY <1>3, <1>4 DEF Book!bookVars

LEMMA StepRefines ==
    TypeOK /\ [Next]_vars => [Book!BookNext]_(Book!bookVars)
<1> SUFFICES ASSUME TypeOK, [Next]_vars
             PROVE  Book!BookNext \/ UNCHANGED Book!bookVars
  OBVIOUS
<1>1. CASE UNCHANGED vars
  BY <1>1, SameBook, SameBoard DEF vars, Book!bookVars
<1>2. CASE Next
  BY <1>2, CreateIsEnrol, UpdateIsAmend, MarkIsProve, DeleteIsErase,
     RecordIsRecord, ReplaceIsReplace, ResolveStutters DEF Next
<1>3. QED
  BY <1>1, <1>2

(* Every behaviour of the tables, the worker's deaths included, is a        *)
(* behaviour of the book the services are written against.                  *)
THEOREM BookRefinement == Spec => ImplementsBook
<1>1. QED
  BY InitBook, InitType, NextType, StepRefines, PTL
  DEF Spec, ImplementsBook, Book!BookSpec

=============================================================================
