-------------------------- MODULE CustomerTransfer --------------------------
(* Customers from and to a spreadsheet (customerTransfer.ts with the import  *)
(* and export handlers of CustomersPage.tsx and importCustomers of           *)
(* localApi.ts): a file is read in a worker, previewed against the customers *)
(* the page has listed, and imported as one transaction when the user        *)
(* confirms.  Reads overlap each other and an import under way; customers    *)
(* are onboarded and deleted meanwhile; the page may be left and come back   *)
(* to, and handlers of a page that was left go on without it.                *)
EXTENDS Naturals, Sequences, FiniteSetsExt, SequencesExt

CONSTANTS Reference,      \* references, as they are spelled
          KeyOf(_),       \* referenceKey: what two spellings have in common
          SafeOf(_),      \* spreadsheetSafe: the spelling an export writes
          Files,          \* files a user has: readable or not, and their rows
          MaxRows,        \* CUSTOMER_IMPORT_MAX_ROWS
          NoPreview,
          MaxPicks, MaxImports, MaxOthers, MaxPages \* bounds: files picked, imports
                          \* confirmed, onboardings and deletions, pages mounted

\* a row is a customer, wrong in some field, or blank; its reference counts for a customer only
FileRow ==
  [kind : {"customer"}, ref : Reference] \cup [kind : {"wrong", "blank"}, ref : Reference \cup {""}]

ASSUME TransferAssumption ==
  /\ {MaxRows, MaxPicks, MaxImports, MaxOthers} \subseteq Nat /\ MaxPages \in Nat \ {0}
  /\ Files \subseteq [readable : BOOLEAN, rows : Seq(FileRow)]
  /\ \A r \in Reference : SafeOf(r) \in Reference

VARIABLES onFile,   \* the references of the customers table
          sheet,    \* the page: which mount it is, the references it lists, whether a
                    \* load is due, the preview, whether an import is under way
          pick,     \* every file picked, and the list its preview is made against
          import,   \* every import confirmed, its rows and how it ended
          exported, \* the files exports have written
          others    \* onboardings and deletions so far

transferVars == <<onFile, sheet, pick, import, exported, others>>

NoFile == [readable |-> TRUE, rows |-> <<>>]
NoPick == [at |-> "none", file |-> NoFile, known |-> {}, mount |-> 0]
NoImport == [at |-> "none", rows |-> <<>>, known |-> {}, mount |-> 0, clash |-> {}]
\* the picks and the imports are numbered in their order
NextNumber(calls) == Cardinality({n \in DOMAIN calls : calls[n].at # "none"}) + 1
NewPage(n) == [mount |-> n, listed |-> {}, due |-> TRUE, preview |-> NoPreview, busy |-> FALSE]

TransferInit ==
  /\ onFile \in {{}} \cup {{r} : r \in Reference}
  /\ sheet = NewPage(1)
  /\ pick = [p \in 1..MaxPicks |-> NoPick] /\ import = [i \in 1..MaxImports |-> NoImport]
  /\ exported = {} /\ others = 0

-----------------------------------------------------------------------------
(* What a file holds, and its preview.                                       *)

\* normalizeRecord: a row is blank, or wrong in some field, or a customer; the reader stops
\* one row past the limit, and blank rows do not count
Cut(file) == SubSeq(file.rows, 1, Min({Len(file.rows), MaxRows + 1}))
RowsThat(rows, kind) == {n \in DOMAIN rows : rows[n].kind = kind}
Readable(file) ==
  file.readable /\ Len(Cut(file)) - Cardinality(RowsThat(Cut(file), "blank")) <= MaxRows

Keys(refs) == {KeyOf(r) : r \in refs}
KeyAt(rows, n) == KeyOf(rows[n].ref)

AcceptedAll(rows, known) ==  \* mutant: the rows of the file are not compared with each other
  {n \in RowsThat(rows, "customer") : KeyAt(rows, n) \notin Keys(known)}
\* buildCustomerImportPreview: of several rows of one reference the first
Accepted(rows, known) ==
  {n \in RowsThat(rows, "customer") :
     /\ KeyAt(rows, n) \notin Keys(known)
     /\ \A k \in RowsThat(rows, "customer") : k < n => KeyAt(rows, k) # KeyAt(rows, n)}

Preview(file, known) ==
  LET rows == Cut(file)
      accepted == Accepted(rows, known)
  IN [rows |-> rows, known |-> known, accepted |-> accepted,
      duplicates |-> RowsThat(rows, "customer") \ accepted,
      errors |-> RowsThat(rows, "wrong")]

\* customersToSpreadsheetRows: the columns an import does not know are ignored
RowOf(ref) == [kind |-> "customer", ref |-> SafeOf(ref)]
FileOf(refs) == [readable |-> TRUE, rows |-> SetToSeq({RowOf(r) : r \in refs})]

-----------------------------------------------------------------------------
(* Reading a file.                                                           *)

\* handleImportFile: the list is the one the page shows when the file is picked
Picks(p, file) ==
  /\ p = NextNumber(pick)
  /\ pick' = [pick EXCEPT ![p] = [at |-> "reading", file |-> file, known |-> sheet.listed,
                                  mount |-> sheet.mount]]
  /\ UNCHANGED <<onFile, sheet, import, exported, others>>

\* what a handler of the page that is there now sets; one of a page that was left sets nothing
Sets(mount, to) == sheet' = IF mount = sheet.mount THEN to ELSE sheet

\* the worker answers; whichever read ends last has its preview shown
ReadsFile(p) ==
  /\ pick[p].at = "reading" /\ Readable(pick[p].file)
  /\ Sets(pick[p].mount, [sheet EXCEPT !.preview = Preview(pick[p].file, pick[p].known)])
  /\ pick' = [pick EXCEPT ![p] = [NoPick EXCEPT !.at = "ended"]]
  /\ UNCHANGED <<onFile, import, exported, others>>
\* a file that is refused, a worker that fails, or thirty seconds: it is settled once
ReadFileFails(p) ==
  /\ pick[p].at = "reading"
  /\ Sets(pick[p].mount, [sheet EXCEPT !.preview = NoPreview])
  /\ pick' = [pick EXCEPT ![p] = [NoPick EXCEPT !.at = "ended"]]
  /\ UNCHANGED <<onFile, import, exported, others>>

CancelsPreview ==
  /\ sheet.preview # NoPreview /\ ~sheet.busy /\ sheet' = [sheet EXCEPT !.preview = NoPreview]
  /\ UNCHANGED <<onFile, pick, import, exported, others>>

-----------------------------------------------------------------------------
(* Importing.                                                                *)

\* handleImportConfirm: the accepted rows of the preview shown, each at its place in the file
Confirms(i) ==
  /\ i = NextNumber(import) /\ sheet.preview # NoPreview /\ ~sheet.busy
  /\ sheet.preview.accepted # {}
  /\ import' = [import EXCEPT ![i] =
       [at |-> "sent", rows |-> [n \in sheet.preview.accepted |-> sheet.preview.rows[n].ref],
        known |-> sheet.preview.known, mount |-> sheet.mount, clash |-> {}]]
  /\ sheet' = [sheet EXCEPT !.busy = TRUE]
  /\ UNCHANGED <<onFile, pick, exported, others>>

\* createCustomers: one transaction, which one reference that is there already undoes;
\* the table compares spellings
Commits(i) ==
  /\ import[i].at = "sent" /\ Range(import[i].rows) \cap onFile = {} /\ IsInjective(import[i].rows)
  /\ onFile' = onFile \cup Range(import[i].rows)
  /\ import' = [import EXCEPT ![i].at = "committed"]
  /\ UNCHANGED <<sheet, pick, exported, others>>
\* the preview stays
Refused(i) ==
  /\ import[i].at = "sent" /\ ~(Range(import[i].rows) \cap onFile = {} /\ IsInjective(import[i].rows))
  /\ import' = [import EXCEPT ![i].at = "refused", ![i].clash = Range(import[i].rows) \cap onFile]
  /\ Sets(import[i].mount, [sheet EXCEPT !.busy = FALSE])
  /\ UNCHANGED <<onFile, pick, exported, others>>

\* every customer is screened, or that fails and is said to be pending; then the list is
\* loaded, or not, and the preview closed, whichever it is by then
Imported(i) ==
  /\ import[i].at = "committed" /\ import' = [import EXCEPT ![i].at = "imported"]
  /\ \E listed \in {onFile, sheet.listed} :
       Sets(import[i].mount, [sheet EXCEPT !.listed = listed, !.preview = NoPreview, !.busy = FALSE])
  /\ UNCHANGED <<onFile, pick, exported, others>>

-----------------------------------------------------------------------------
(* The rest of the page.                                                     *)

\* handleOnboard and handleDelete, which end in a load of the customers
OnboardReference(r) ==
  /\ r \notin onFile /\ others < MaxOthers /\ others' = others + 1
  /\ onFile' = onFile \cup {r} /\ sheet' = [sheet EXCEPT !.due = TRUE]
  /\ UNCHANGED <<pick, import, exported>>
EraseReference(r) ==
  /\ r \in onFile \cap sheet.listed /\ others < MaxOthers /\ others' = others + 1
  /\ onFile' = onFile \ {r} /\ sheet' = [sheet EXCEPT !.due = TRUE]
  /\ UNCHANGED <<pick, import, exported>>
\* loadCustomers; when it fails the rows of before stay
Loads ==
  /\ sheet.due
  /\ \E listed \in {onFile, sheet.listed} : sheet' = [sheet EXCEPT !.listed = listed, !.due = FALSE]
  /\ UNCHANGED <<onFile, pick, import, exported, others>>

\* handleExport
ExportsCustomers ==
  /\ ~sheet.due /\ ~sheet.busy /\ FileOf(sheet.listed) \notin exported
  /\ exported' = exported \cup {FileOf(sheet.listed)}
  /\ UNCHANGED <<onFile, sheet, pick, import, others>>

ComesBack ==
  /\ sheet.mount < MaxPages /\ sheet' = NewPage(sheet.mount + 1)
  /\ UNCHANGED <<onFile, pick, import, exported, others>>

TransferNext ==
  \/ \E p \in 1..MaxPicks :
       ReadsFile(p) \/ ReadFileFails(p) \/ \E file \in Files \cup exported : Picks(p, file)
  \/ \E i \in 1..MaxImports : Confirms(i) \/ Commits(i) \/ Refused(i) \/ Imported(i)
  \/ \E r \in Reference : OnboardReference(r) \/ EraseReference(r)
  \/ CancelsPreview \/ Loads \/ ExportsCustomers \/ ComesBack

TransferSpec == TransferInit /\ [][TransferNext]_transferVars

-----------------------------------------------------------------------------
TransferTypeOK ==
  /\ onFile \subseteq Reference /\ sheet.listed \subseteq Reference /\ sheet.mount \in 1..MaxPages
  /\ {sheet.due, sheet.busy} \subseteq BOOLEAN
  /\ \A p \in 1..MaxPicks : pick[p].at \in {"none", "reading", "ended"}
  /\ \A i \in 1..MaxImports :
       import[i].at \in {"none", "sent", "refused", "committed", "imported"}
  /\ others \in 0..MaxOthers

\* Whatever overlaps: every row of the file that is not blank is on the preview once; an import
\* brings no reference of the list its preview was made against, nor one twice, in any
\* spelling; and so it is refused only for a customer that came since that list was read
\* (CustomersPage.tsx:303-362, buildCustomerImportPreview).
ImportsAreAsShown ==
  /\ sheet.preview # NoPreview =>
       LET shown == sheet.preview
           parts == << shown.accepted, shown.duplicates, shown.errors, RowsThat(shown.rows, "blank") >>
       IN /\ UNION ToSet(parts) = DOMAIN shown.rows
          /\ \A m, n \in DOMAIN parts : m # n => parts[m] \cap parts[n] = {}
  /\ \A i \in 1..MaxImports : import[i].at # "none" =>
       /\ Keys(Range(import[i].rows)) \cap Keys(import[i].known) = {}
       /\ IsInjective([n \in DOMAIN import[i].rows |-> KeyOf(import[i].rows[n])])
       /\ import[i].at = "refused" => import[i].clash \ import[i].known # {}
=============================================================================
