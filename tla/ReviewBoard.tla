---------------------------- MODULE ReviewBoard ----------------------------
(* The review board (ReviewBoardPage.tsx over the review slice of            *)
(* localApi.ts): filters that load a list of matches, decisions sent by the  *)
(* id of the row that was clicked, and a history drawer, while rescans       *)
(* replace the matches of a customer under it.  The store's worker serves    *)
(* the requests in the order they were posted; module MatchStore is the      *)
(* store in full, here a match is its id, its facts and its decision.        *)
EXTENDS Naturals, Sequences

CONSTANTS Entity, Facts, NoMatch,
          MaxReplaced, MaxRequests  \* bounds: rescans, and requests on the wire

ASSUME ReviewAssumption == MaxReplaced \in Nat /\ MaxRequests \in Nat \ {0}

VARIABLES match,    \* kyc_matches of one customer, per listed entity
          replaced, \* how often replaceMatches ran: part of every id it deals
          wire,     \* requests posted to the store's worker, oldest first
          filter,   \* the filter the selects show
          board,    \* the rows on the screen, the filter they answer, and the flags
          drawer,   \* the open history, and what was loaded per row
          decisions \* auxiliary: what a reviewer saw and what the decision fell on

reviewVars == <<match, replaced, wire, filter, board, drawer, decisions>>

Filters == {"ALL", "NEEDS_REVIEW", "CHANGED", "PENDING"}
Dispositions == {"TRUE_POSITIVE", "FALSE_POSITIVE"}
Row(e, f) == [id |-> <<e, replaced'>>, facts |-> f, status |-> "PENDING", state |-> "CURRENT"]

\* needsAction, and the clause of listReviewMatches for it
NeedsAction(m) == m.status = "PENDING" \/ m.state = "CHANGED"
\* viewParams and the where clause
Selects(f, m) ==
  /\ m # NoMatch
  /\ CASE f = "ALL"          -> TRUE
       [] f = "NEEDS_REVIEW" -> NeedsAction(m)
       [] f = "CHANGED"      -> m.state = "CHANGED"
       [] f = "PENDING"      -> m.status = "PENDING"
Rows(f) == [e \in Entity |-> IF Selects(f, match[e]) THEN match[e] ELSE NoMatch]

\* a request names a row by its id; "seen" is auxiliary: the facts the row showed
Request(kind, m, to) == [kind |-> kind, id |-> m.id, seen |-> m.facts, to |-> to]
ListRequest(f) == [kind |-> "list", filter |-> f]

ReviewInit ==
  /\ match = [e \in Entity |-> NoMatch] /\ replaced = 0
  /\ filter = "ALL" /\ wire = <<ListRequest("ALL")>>
  /\ board = [rows |-> [e \in Entity |-> NoMatch], of |-> "ALL",
              loading |-> TRUE, error |-> FALSE, failed |-> FALSE]
  /\ drawer = [open |-> <<>>, loaded |-> {}] /\ decisions = {}

-----------------------------------------------------------------------------
(* The store under the board.                                                *)

\* planReplacement: a decision is carried to the new row of the same entity, and
\* flagged when the facts moved
CarriedById(e, f) ==  \* mutant: a replaced row keeps its id
  IF match[e] = NoMatch THEN Row(e, f) ELSE [match[e] EXCEPT !.facts = f]
Carried(e, f) ==
  IF match[e] = NoMatch THEN Row(e, f)
  ELSE [match[e] EXCEPT !.id = <<e, replaced'>>, !.facts = f,
                        !.state = IF f = match[e].facts THEN @ ELSE "CHANGED"]
Replaces(found) ==
  /\ replaced < MaxReplaced
  /\ replaced' = replaced + 1
  /\ match' = [e \in Entity |-> IF e \in DOMAIN found THEN Carried(e, found[e]) ELSE NoMatch]
  /\ UNCHANGED <<wire, filter, board, drawer, decisions>>

Named(id) == {e \in Entity : match[e] # NoMatch /\ match[e].id = id}

-----------------------------------------------------------------------------
(* The page.                                                                 *)

Posts(r) == Len(wire) < MaxRequests /\ wire' = Append(wire, r)

\* loadMatches, on mount and whenever a filter changes
ChangesFilter(f) ==
  /\ f # filter /\ Posts(ListRequest(f))
  /\ filter' = f /\ board' = [board EXCEPT !.loading = TRUE, !.error = FALSE]
  /\ UNCHANGED <<match, replaced, drawer, decisions>>

\* handleResolve: the rows are on the screen only while nothing loads, and only a row
\* that needs it carries the controls
Clicks(e, to) ==
  /\ ~board.loading /\ board.rows[e] # NoMatch /\ NeedsAction(board.rows[e])
  /\ Posts(Request("resolve", board.rows[e], to))
  /\ board' = [board EXCEPT !.error = FALSE]
  /\ UNCHANGED <<match, replaced, filter, drawer, decisions>>

\* toggleHistory: the trail of a row is asked for once
OpensHistory(e) ==
  /\ ~board.loading /\ board.rows[e] # NoMatch /\ drawer.open # board.rows[e].id
  /\ drawer' = [drawer EXCEPT !.open = board.rows[e].id]
  /\ IF board.rows[e].id \in drawer.loaded THEN UNCHANGED wire
     ELSE Posts(Request("history", board.rows[e], "PENDING"))
  /\ UNCHANGED <<match, replaced, filter, board, decisions>>
ClosesHistory ==
  /\ drawer.open # <<>> /\ drawer' = [drawer EXCEPT !.open = <<>>]
  /\ UNCHANGED <<match, replaced, wire, filter, board, decisions>>

-----------------------------------------------------------------------------
(* The answers, in the order of the requests.                                *)

Answered(kind) == wire # <<>> /\ Head(wire).kind = kind /\ wire' = Tail(wire)

ListLoads ==
  /\ Answered("list")
  /\ board' = [rows |-> Rows(Head(wire).filter), of |-> Head(wire).filter,
               loading |-> FALSE, error |-> board.error, failed |-> FALSE]
  /\ UNCHANGED <<match, replaced, filter, drawer, decisions>>
BoardFails ==
  /\ Answered("list")
  /\ board' = [board EXCEPT !.loading = FALSE, !.error = TRUE, !.failed = TRUE]
  /\ UNCHANGED <<match, replaced, filter, drawer, decisions>>

\* resolveMatch: unconditional, by id, and the row on the screen becomes the answer
Resolved(e) == [match[e] EXCEPT !.status = Head(wire).to, !.state = "CURRENT"]
Resolves(e) ==
  /\ Answered("resolve") /\ e \in Named(Head(wire).id)
  /\ match' = [match EXCEPT ![e] = Resolved(e)]
  /\ board' = [board EXCEPT !.rows = [x \in Entity |->
       IF @[x] # NoMatch /\ @[x].id = Head(wire).id THEN Resolved(e) ELSE @[x]]]
  /\ decisions' = decisions \cup {[seen |-> Head(wire).seen, on |-> match[e].facts]}
  /\ UNCHANGED <<replaced, filter, drawer>>
\* NotFoundError: a rescan has dealt new ids; and any failure of the store
ResolveFails ==
  /\ Answered("resolve") /\ board' = [board EXCEPT !.error = TRUE]
  /\ UNCHANGED <<match, replaced, filter, drawer, decisions>>

\* getMatchEvents: kept under the id of the row, and never asked for again
HistoryLoads ==
  /\ Answered("history")
  /\ drawer' = [drawer EXCEPT !.loaded = @ \cup {Head(wire).id}]
  /\ UNCHANGED <<match, replaced, filter, board, decisions>>

Findings == UNION {[S -> Facts] : S \in SUBSET Entity}
ReviewNext ==
  \/ \E found \in Findings : Replaces(found)
  \/ \E f \in Filters : ChangesFilter(f)
  \/ \E e \in Entity : OpensHistory(e) \/ Resolves(e) \/ \E to \in Dispositions : Clicks(e, to)
  \/ ClosesHistory \/ ListLoads \/ BoardFails \/ ResolveFails \/ HistoryLoads
ReviewSpec == ReviewInit /\ [][ReviewNext]_reviewVars

-----------------------------------------------------------------------------
(* Properties.                                                               *)

ReviewTypeOK ==
  /\ replaced \in 0..MaxReplaced /\ Len(wire) <= MaxRequests /\ filter \in Filters
  /\ {board.loading, board.error, board.failed} \subseteq BOOLEAN /\ board.of \in Filters
  /\ \A e \in Entity : match[e] # NoMatch => match[e].id[2] \in 1..replaced

\* A reviewer decides on what he sees: a decision posted from a row that a rescan has
\* replaced meanwhile is refused, and never falls on facts nobody looked at, because
\* replaceMatches deals every row a new match_id (operations.ts:507).
DecisionOnSeenFacts == \A d \in decisions : d.seen = d.on
=============================================================================
