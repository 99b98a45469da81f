------------------------------ MODULE HitBook ------------------------------
(***************************************************************************)
(* What the workstation store promises to everything above it, with the    *)
(* audit ledger and the dispositions left out: which customers exist,      *)
(* which identity (name and country) each has, against which list version  *)
(* each one is proven screened, and which watchlist entities are on the    *)
(* review board for it.  MatchStore implements this book; Screening runs   *)
(* the asynchronous services on top of it.                                 *)
(*                                                                         *)
(* Every operation is one request to the database worker, which executes   *)
(* requests one at a time, so each is one atomic step.  An operation on a  *)
(* customer that is not there rejects with NotFoundError and changes       *)
(* nothing: it is simply not enabled.                                      *)
(***************************************************************************)
CONSTANTS
    Customer,   \* customer ids (fresh UUIDs: an id stands for one customer)
    Identity,   \* what a screen reads of a customer: its name and country
    Version,    \* composite list stamps ("id@version" joins)
    Entity,     \* watchlist entities
    NoVersion,  \* SQL NULL in screened_list_version: unproven
    NoRow       \* no such row

VARIABLES
    book,   \* book[c]: the customers row of c, or NoRow
    hits    \* hits[c]: the entities of c's kyc_matches rows

bookVars == <<book, hits>>

Row == [identity: Identity, proof: Version \cup {NoVersion}]

Known(c) == book[c] # NoRow

BookTypeOK ==
    /\ book \in [Customer -> Row \cup {NoRow}]
    /\ hits \in [Customer -> SUBSET Entity]

(* A database that an older release may have left: customers nobody has    *)
(* proof for, with matches found by that release.                          *)
BookInit ==
    /\ book \in [Customer -> [identity: Identity, proof: {NoVersion}] \cup {NoRow}]
    /\ hits \in [Customer -> SUBSET Entity]
    /\ \A c \in Customer : ~Known(c) => hits[c] = {}

Unproven(i) == [identity |-> i, proof |-> NoVersion]

(* createCustomers: the whole batch or nothing.  createCustomer is the     *)
(* batch of one.                                                           *)
Enrol(batch) ==
    /\ \A c \in DOMAIN batch : ~Known(c)
    /\ book' = [c \in Customer |->
                    IF c \in DOMAIN batch THEN Unproven(batch[c]) ELSE book[c]]
    /\ UNCHANGED hits

(* updateCustomer: a new identity was never screened, so its proof goes in *)
(* the same statement; any other patch keeps it.                           *)
Amend(c, i) ==
    /\ Known(c)
    /\ book' = [book EXCEPT ![c] =
                    IF i # book[c].identity THEN Unproven(i) ELSE book[c]]
    /\ UNCHANGED hits

(* markScreened *)
Prove(c, v) ==
    /\ Known(c)
    /\ book' = [book EXCEPT ![c].proof = v]
    /\ UNCHANGED hits

(* deleteCustomer: the customer and everything hanging off it. *)
Erase(c) ==
    /\ Known(c)
    /\ book' = [book EXCEPT ![c] = NoRow]
    /\ hits' = [hits EXCEPT ![c] = {}]

(* recordMatches adds to what is on the board ... *)
Record(c, es) ==
    /\ Known(c)
    /\ hits' = [hits EXCEPT ![c] = hits[c] \cup es]
    /\ UNCHANGED book

ReplaceBlindly(c, es) ==  \* mutant: without requireCustomer
    /\ hits' = [hits EXCEPT ![c] = es]
    /\ UNCHANGED book

(* ... replaceMatches makes the given set the complete one. *)
Replace(c, es) ==
    /\ Known(c)
    /\ hits' = [hits EXCEPT ![c] = es]
    /\ UNCHANGED book

Batches == UNION {[S -> Identity] : S \in SUBSET Customer}

BookNext ==
    \/ \E batch \in Batches : Enrol(batch)
    \/ \E c \in Customer :
          \/ \E i \in Identity : Amend(c, i)
          \/ \E v \in Version : Prove(c, v)
          \/ \E es \in SUBSET Entity : Record(c, es) \/ Replace(c, es)
          \/ Erase(c)

BookSpec == BookInit /\ [][BookNext]_bookVars

(* Nothing of an erased customer is left on the board, and no late write   *)
(* puts it back.                                                           *)
NoOrphanHits == \A c \in Customer : ~Known(c) => hits[c] = {}
=============================================================================
