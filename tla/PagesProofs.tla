---------------------------- MODULE PagesProofs ----------------------------
(* Pages that show what the store has, for any number of keys, entities,       *)
(* changes and requests: the views of the signing key judge no receipt against *)
(* a key that was replaced, a decision on the review board falls on the facts  *)
(* the reviewer saw, "No matches" is said of nobody who matches, an import is  *)
(* what its preview showed, and whoever bears the name that was typed is on    *)
(* the screen.                                                                 *)
EXTENDS KeyViews, ReviewBoard, CustomersDesk, CustomerTransfer, NameScreen,
        FiniteSetTheorems, TLAPS

-----------------------------------------------------------------------------
(* The views of the signing key.                                             *)

ViewRecords ==
  [at : {"loading", "ready", "failed"}, key : Key \cup {NoKey}, due : BOOLEAN,
   load : Key \cup {NoKey}]
FormRecords ==
  [at : {"idle", "sealing", "opening", "confirming"}, key : Key \cup {NoKey},
   filed : Key \cup {NoKey}]

\* KeyViewsTypeOK says what it does of the fields it names; these are the whole records. An
\* import that is being opened has a key to import.
KeyTypes ==
  /\ key \in Key /\ changes \in 0..MaxChanges /\ signer \in Key \cup {NoKey}
  /\ notice \in {"loading", "none", "temporary"}
  /\ view \in [Views -> ViewRecords]
  /\ form \in [Form -> FormRecords]
  /\ form["import"].at = "opening" => form["import"].key \in Key

\* A load that still counts is of the key there is, and so is what it has shown; the badge
\* shows nothing while it loads.
LoadsAreCurrent ==
  /\ \A v \in Views : ~view[v].due =>
       /\ view[v].load # NoKey => view[v].load = key
       /\ view[v].at = "ready" /\ view[v].load = NoKey => view[v].key = key
  /\ view["badge"].at = "ready" => view["badge"].load = NoKey

LEMMA InitialViews == KeyInit => KeyTypes /\ LoadsAreCurrent
BY KeyViewsAssumption
DEF KeyInit, KeyTypes, LoadsAreCurrent, View, FormIdle, ViewRecords, FormRecords, Views, Form

\* what every change of the key does: all views are due again
LEMMA ChangeOfKey ==
  ASSUME NEW k \in Key, KeyTypes, LoadsAreCurrent, changes < MaxChanges, Becomes(k)
  PROVE  /\ key' \in Key /\ changes' \in 0..MaxChanges /\ view' \in [Views -> ViewRecords]
         /\ LoadsAreCurrent'
<1>1. view' = [v \in Views |-> [view[v] EXCEPT !.due = TRUE]]
  BY DEF Becomes, Due
<1>2. \A v \in Views : /\ view'[v] \in ViewRecords /\ view'[v].due
                        /\ view'[v].at = view[v].at /\ view'[v].load = view[v].load
  BY <1>1 DEF KeyTypes, ViewRecords
<1>3. view' \in [Views -> ViewRecords]
  BY <1>1, <1>2
<1>4. LoadsAreCurrent'
  BY <1>2 DEF LoadsAreCurrent, Views
<1> QED
  BY <1>3, <1>4, KeyViewsAssumption DEF Becomes, KeyTypes

LEMMA TypesKept == KeyTypes /\ LoadsAreCurrent /\ [KeyNext]_keyVars => KeyTypes' /\ LoadsAreCurrent'
<1> SUFFICES ASSUME KeyTypes, LoadsAreCurrent, [KeyNext]_keyVars PROVE KeyTypes' /\ LoadsAreCurrent'
  OBVIOUS
<1> USE KeyViewsAssumption
<1>1. ASSUME NEW v \in Views, EffectRuns(v) PROVE KeyTypes' /\ LoadsAreCurrent'
  BY <1>1 DEF EffectRuns, Restarted, Shows, KeyTypes, LoadsAreCurrent, ViewRecords, Views
<1>2. ASSUME NEW v \in Views, LoadsKey(v) PROVE KeyTypes' /\ LoadsAreCurrent'
  BY <1>2 DEF LoadsKey, Settles, Shown, KeyTypes, LoadsAreCurrent, ViewRecords, Views
<1>3. ASSUME NEW v \in Views, LoadRefused(v) PROVE KeyTypes' /\ LoadsAreCurrent'
  BY <1>3 DEF LoadRefused, Settles, Shown, KeyTypes, LoadsAreCurrent, ViewRecords, Views
<1>4. ASSUME NEW k \in Key, ChangedElsewhere(k) PROVE KeyTypes' /\ LoadsAreCurrent'
  BY <1>4, ChangeOfKey DEF ChangedElsewhere, KeyTypes
<1>5. ASSUME NEW k \in Key, OpensFile(k) PROVE KeyTypes' /\ LoadsAreCurrent'
  BY <1>5 DEF OpensFile, FormIdle, KeyTypes, LoadsAreCurrent, FormRecords, Form
<1>6. ASSUME NEW k \in Key, Resets(k) PROVE KeyTypes' /\ LoadsAreCurrent'
  <2>1. form' \in [Form -> FormRecords] /\ form'["import"] = form["import"]
    BY <1>6 DEF Resets, Says, KeyTypes, FormRecords, Form
  <2> QED BY <1>6, <2>1, ChangeOfKey DEF Resets, KeyTypes
<1>7. ASSUME NEW k \in Key \cup {NoKey}, Screens(k) PROVE KeyTypes' /\ LoadsAreCurrent'
  BY <1>7 DEF Screens, KeyTypes, LoadsAreCurrent, ViewRecords, Views
<1>8. CASE NoticeLoads
  BY <1>8 DEF NoticeLoads, KeyTypes, LoadsAreCurrent
<1>9. CASE Exports
  BY <1>9 DEF Exports, FormIdle, KeyTypes, LoadsAreCurrent, FormRecords, Form
<1>10. CASE SavesFile
  BY <1>10 DEF SavesFile, KeyTypes, LoadsAreCurrent, FormRecords, Form
<1>11. CASE ImportsKey
  <2>1. form' \in [Form -> FormRecords] /\ form'["import"].at = "idle" /\ form["import"].key \in Key
    BY <1>11 DEF ImportsKey, Says, KeyTypes, FormRecords, Form
  <2> QED BY <1>11, <2>1, ChangeOfKey DEF ImportsKey, KeyTypes
<1>12. CASE Warns \/ Cancels
  BY <1>12 DEF Warns, Cancels, Says, KeyTypes, LoadsAreCurrent, FormRecords, Form
<1>13. ASSUME NEW f \in Form, FormFails(f) PROVE KeyTypes' /\ LoadsAreCurrent'
  BY <1>13 DEF FormFails, Says, KeyTypes, LoadsAreCurrent, FormRecords, Form
<1>14. CASE UNCHANGED keyVars
  BY <1>14 DEF keyVars, KeyTypes, LoadsAreCurrent
<1> QED
  BY <1>1, <1>2, <1>3, <1>4, <1>5, <1>6, <1>7, <1>8, <1>9, <1>10, <1>11, <1>12, <1>13, <1>14 DEF KeyNext

LEMMA ViewsAlways == KeySpec => [](KeyTypes /\ LoadsAreCurrent)
BY InitialViews, TypesKept, PTL DEF KeySpec

\* The views, the notice and the forms stay what they are declared to be, through any
\* sequence of screens, changes, exports and imports (SigningKeySection.tsx).
THEOREM KeyViewsTypeCorrect == KeySpec => []KeyViewsTypeOK
<1>1. KeyTypes => KeyViewsTypeOK
  BY DEF KeyTypes, KeyViewsTypeOK, ViewRecords
<1> QED BY <1>1, ViewsAlways, PTL

\* No receipt is judged against a key that a reset or an import has replaced
\* (DossierCard.tsx:127-134).
THEOREM ViewsFollow == KeySpec => []ViewsFollowTheKey
<1>1. KeyTypes /\ LoadsAreCurrent => ViewsFollowTheKey
  BY DEF KeyTypes, LoadsAreCurrent, ViewsFollowTheKey, Verdict, ViewRecords, Views
<1> QED BY <1>1, ViewsAlways, PTL

-----------------------------------------------------------------------------
(* The review board.                                                         *)

Ids == Entity \X Nat
MatchRows ==
  [id : Ids, facts : Facts, status : {"PENDING"} \cup Dispositions, state : {"CURRENT", "CHANGED"}]
Requests ==
  [kind : {"list"}, filter : Filters]
  \cup [kind : {"resolve", "history"}, id : Ids, seen : Facts, to : {"PENDING"} \cup Dispositions]
Boards ==
  [rows : [Entity -> MatchRows \cup {NoMatch}], of : Filters,
   loading : BOOLEAN, error : BOOLEAN, failed : BOOLEAN]
Drawers == [open : Ids \cup {<<>>}, loaded : SUBSET Ids]

\* An id names the entity of its row and the rescan that dealt it.
BoardTypes ==
  /\ replaced \in 0..MaxReplaced /\ filter \in Filters
  /\ match \in [Entity -> MatchRows \cup {NoMatch}]
  /\ wire \in Seq(Requests) /\ Len(wire) <= MaxRequests
  /\ board \in Boards /\ drawer \in Drawers
  /\ \A e \in Entity : match[e] # NoMatch => match[e].id[1] = e /\ match[e].id[2] \in 1..replaced

\* Whoever has that id now shows those facts: true for ever, because an id that is not the
\* row's any more will never be dealt again.
Denotes(id, f) ==
  /\ id[2] <= replaced
  /\ \A x \in Entity : match[x] # NoMatch /\ match[x].id = id => match[x].facts = f

\* What the screen shows and what is on the wire names the facts it shows.
RowsName == \A e \in Entity : board.rows[e] # NoMatch => Denotes(board.rows[e].id, board.rows[e].facts)
WireNames == \A k \in 1..Len(wire) : wire[k].kind # "list" => Denotes(wire[k].id, wire[k].seen)

BoardInv == BoardTypes /\ RowsName /\ WireNames /\ DecisionOnSeenFacts

-----------------------------------------------------------------------------
(* The wire. *)

LEMMA PostsKeeps ==
  ASSUME BoardInv, NEW r \in Requests, Posts(r), UNCHANGED <<match, replaced>>,
         r.kind # "list" => Denotes(r.id, r.seen)
  PROVE  wire' \in Seq(Requests) /\ Len(wire') <= MaxRequests /\ WireNames'
<1>1. wire' = Append(wire, r) /\ Len(wire) < MaxRequests
  BY DEF Posts
<1>2. wire \in Seq(Requests) /\ MaxRequests \in Nat
  BY ReviewAssumption DEF BoardInv, BoardTypes
<1>3. wire' \in Seq(Requests) /\ Len(wire') = Len(wire) + 1 /\ Len(wire) \in Nat
  BY <1>1, <1>2
<1>4. \A k \in 1..Len(wire') : wire'[k] = IF k = Len(wire) + 1 THEN r ELSE wire[k]
  BY <1>1, <1>2
<1>5. \A k \in 1..Len(wire') : wire'[k].kind # "list" => Denotes(wire'[k].id, wire'[k].seen)
  BY <1>3, <1>4 DEF BoardInv, WireNames
<1> QED
  BY <1>1, <1>2, <1>3, <1>5 DEF WireNames, Denotes

LEMMA AnswersKeep ==
  ASSUME BoardInv, NEW kind, Answered(kind)
  PROVE  /\ wire' \in Seq(Requests) /\ Len(wire') <= MaxRequests
         /\ Head(wire) \in Requests /\ Head(wire).kind = kind
         /\ kind # "list" => Denotes(Head(wire).id, Head(wire).seen)
         /\ \A k \in 1..Len(wire') : wire'[k].kind # "list" => Denotes(wire'[k].id, wire'[k].seen)
<1>1. wire \in Seq(Requests) /\ wire # <<>> /\ wire' = Tail(wire) /\ Head(wire).kind = kind
  BY DEF BoardInv, BoardTypes, Answered
<1>2. Len(wire) \in Nat \ {0} /\ Len(wire') = Len(wire) - 1 /\ wire' \in Seq(Requests)
      /\ Head(wire) = wire[1] /\ Head(wire) \in Requests
  BY <1>1
<1>3. \A k \in 1..Len(wire') : wire'[k] = wire[k + 1] /\ k + 1 \in 1..Len(wire)
  BY <1>1, <1>2
<1>4. Len(wire') <= MaxRequests
  BY <1>2, ReviewAssumption DEF BoardInv, BoardTypes
<1> QED
  BY <1>1, <1>2, <1>3, <1>4 DEF BoardInv, WireNames

\* a step that leaves the store's rows alone
LEMMA QuietKeeps ==
  ASSUME BoardInv, UNCHANGED <<match, replaced>>, NEW id, NEW f
  PROVE  Denotes(id, f)' <=> Denotes(id, f)
BY DEF Denotes

-----------------------------------------------------------------------------
LEMMA BoardInvInit == ReviewInit => BoardInv
<1> SUFFICES ASSUME ReviewInit PROVE BoardInv
  OBVIOUS
<1>1. wire = <<ListRequest("ALL")>> /\ ListRequest("ALL") \in Requests /\ ListRequest("ALL").kind = "list"
  BY DEF ReviewInit, ListRequest, Requests, Filters
<1>2. PICK r \in Requests : wire = <<r>> /\ r.kind = "list"
  BY <1>1
<1>3. wire \in Seq(Requests) /\ Len(wire) = 1 /\ wire[1].kind = "list"
  BY <1>2
<1> QED
  BY <1>3, ReviewAssumption
  DEF ReviewInit, BoardInv, BoardTypes, RowsName, WireNames, DecisionOnSeenFacts, Boards, Drawers, Filters

-----------------------------------------------------------------------------
(* The moves. *)

\* a decision that is carried gets a new id, and keeps no facts but the new ones
LEMMA CarriedRow ==
  ASSUME BoardTypes, NEW e \in Entity, NEW f \in Facts, replaced' = replaced + 1
  PROVE  /\ Carried(e, f) \in MatchRows
         /\ Carried(e, f).id = <<e, replaced'>> /\ Carried(e, f).facts = f
<1>1. replaced' \in Nat /\ <<e, replaced'>> \in Ids
  BY ReviewAssumption DEF BoardTypes, Ids
<1>2. CASE match[e] = NoMatch
  BY <1>1, <1>2 DEF Carried, Row, MatchRows
<1>3. CASE match[e] # NoMatch
  <2>1. match[e] \in MatchRows
    BY <1>3 DEF BoardTypes
  <2> QED BY <1>1, <1>3, <2>1 DEF Carried, MatchRows
<1> QED BY <1>2, <1>3

LEMMA ReplacesKeeps ==
  ASSUME BoardInv, NEW finds \in Findings, Replaces(finds)
  PROVE  BoardInv'
<1>1. replaced \in Nat /\ replaced' = replaced + 1 /\ replaced' \in 0..MaxReplaced
  BY ReviewAssumption DEF BoardInv, BoardTypes, Replaces
<1>2. \A e \in Entity :
        match'[e] = NoMatch \/ (match'[e] \in MatchRows /\ match'[e].id = <<e, replaced'>>)
  <2> SUFFICES ASSUME NEW e \in Entity
               PROVE  match'[e] = NoMatch \/ (match'[e] \in MatchRows /\ match'[e].id = <<e, replaced'>>)
    OBVIOUS
  <2>1. match'[e] = IF e \in DOMAIN finds THEN Carried(e, finds[e]) ELSE NoMatch
    BY DEF Replaces
  <2>2. e \in DOMAIN finds => finds[e] \in Facts
    BY DEF Findings
  <2> QED BY <2>1, <2>2, <1>1, CarriedRow DEF BoardInv
<1>3. match' \in [Entity -> MatchRows \cup {NoMatch}]
  BY <1>2 DEF Replaces
<1>4. \A e \in Entity : match'[e] # NoMatch => match'[e].id[1] = e /\ match'[e].id[2] = replaced'
  BY <1>2
<1>5. BoardTypes'
  BY <1>1, <1>3, <1>4 DEF BoardInv, BoardTypes, Replaces
<1>6. ASSUME NEW id \in Ids, NEW f, Denotes(id, f) PROVE Denotes(id, f)'
  BY <1>1, <1>4, <1>6 DEF Denotes, Ids
<1>7. RowsName'
  <2>1. UNCHANGED board /\ \A e \in Entity : board.rows[e] # NoMatch => board.rows[e].id \in Ids
    BY DEF Replaces, BoardInv, BoardTypes, Boards, MatchRows
  <2> QED BY <2>1, <1>6 DEF BoardInv, RowsName
<1>8. WireNames'
  <2>1. UNCHANGED wire /\ \A k \in 1..Len(wire) : wire[k].kind # "list" => wire[k].id \in Ids
    <3>1. \A r \in Requests : r.kind # "list" => r.id \in Ids
      BY DEF Requests
    <3> QED BY <3>1 DEF Replaces, BoardInv, BoardTypes
  <2> QED BY <2>1, <1>6 DEF BoardInv, WireNames
<1> QED
  BY <1>5, <1>7, <1>8 DEF BoardInv, DecisionOnSeenFacts, Replaces

\* what names the facts of a row that is there
LEMMA RowNames ==
  ASSUME BoardTypes, NEW e \in Entity, match[e] # NoMatch
  PROVE  Denotes(match[e].id, match[e].facts)
BY DEF BoardTypes, Denotes

LEMMA ListLoadsKeeps == BoardInv /\ ListLoads => BoardInv'
<1> SUFFICES ASSUME BoardInv, ListLoads PROVE BoardInv'
  OBVIOUS
<1>1. Answered("list") /\ UNCHANGED <<match, replaced, filter, drawer, decisions>>
  BY DEF ListLoads
<1>2. /\ wire' \in Seq(Requests) /\ Len(wire') <= MaxRequests /\ Head(wire) \in Requests
      /\ Head(wire).kind = "list"
  BY <1>1, AnswersKeep
<1>3. Head(wire).filter \in Filters
  BY <1>2 DEF Requests
<1>4. \A e \in Entity : Rows(Head(wire).filter)[e] \in {match[e], NoMatch}
  BY DEF Rows
<1>5. WireNames'
  BY <1>1, AnswersKeep, QuietKeeps DEF WireNames
<1>6. /\ board'.rows = Rows(Head(wire).filter) /\ board' \in Boards
  BY <1>3, <1>4 DEF ListLoads, Rows, BoardInv, BoardTypes, Boards
<1>7. RowsName'
  <2>1. \A e \in Entity : board'.rows[e] # NoMatch => board'.rows[e] = match[e] /\ match[e] # NoMatch
    BY <1>4, <1>6
  <2> QED BY <2>1, <1>1, RowNames DEF BoardInv, RowsName, Denotes
<1> QED
  BY <1>1, <1>2, <1>5, <1>6, <1>7 DEF BoardInv, BoardTypes, DecisionOnSeenFacts

LEMMA ResolvesKeeps ==
  ASSUME BoardInv, NEW e \in Entity, Resolves(e)
  PROVE  BoardInv'
<1>1. Answered("resolve") /\ UNCHANGED <<replaced, filter, drawer>>
  BY DEF Resolves
<1>2. /\ wire' \in Seq(Requests) /\ Len(wire') <= MaxRequests /\ Head(wire) \in Requests
      /\ Head(wire).kind = "resolve" /\ Denotes(Head(wire).id, Head(wire).seen)
  BY <1>1, AnswersKeep
<1>3. Head(wire).to \in {"PENDING"} \cup Dispositions
  BY <1>2 DEF Requests
<1>4. match[e] \in MatchRows /\ match[e] # NoMatch /\ match[e].id = Head(wire).id
  BY DEF Resolves, Named, BoardInv, BoardTypes
<1>5. Resolved(e) \in MatchRows /\ Resolved(e).id = match[e].id /\ Resolved(e).facts = match[e].facts
  BY <1>3, <1>4 DEF Resolved, MatchRows
<1>6. match' = [match EXCEPT ![e] = Resolved(e)]
  BY DEF Resolves
<1>7. BoardTypes' /\ \A x \in Entity :
        match'[x] # NoMatch => match[x] # NoMatch /\ match'[x].id = match[x].id /\ match'[x].facts = match[x].facts
  <2>1. match' \in [Entity -> MatchRows \cup {NoMatch}]
    BY <1>5, <1>6 DEF BoardInv, BoardTypes
  <2>2. \A x \in Entity : match'[x] # NoMatch =>
          match[x] # NoMatch /\ match'[x].id = match[x].id /\ match'[x].facts = match[x].facts
    BY <1>4, <1>5, <1>6 DEF BoardInv, BoardTypes
  <2>3. board' \in Boards
    BY <1>5 DEF Resolves, BoardInv, BoardTypes, Boards
  <2> QED BY <1>1, <1>2, <2>1, <2>2, <2>3 DEF BoardInv, BoardTypes
<1>8. ASSUME NEW id, NEW f, Denotes(id, f) PROVE Denotes(id, f)'
  BY <1>1, <1>7, <1>8 DEF Denotes
<1>9. WireNames'
  BY <1>1, <1>8, AnswersKeep DEF WireNames
<1>10. RowsName'
  <2>1. \A x \in Entity : board'.rows[x] = board.rows[x] \/ board'.rows[x] = Resolved(e)
    BY DEF Resolves, BoardInv, BoardTypes, Boards
  <2>2. Denotes(match[e].id, match[e].facts)
    BY <1>4, RowNames DEF BoardInv
  <2>3. Denotes(Resolved(e).id, Resolved(e).facts)
    BY <2>2, <1>5
  <2> QED BY <2>1, <2>3, <1>8 DEF BoardInv, RowsName
<1>11. DecisionOnSeenFacts'
  <2>1. match[e].facts = Head(wire).seen
    BY <1>2, <1>4 DEF Denotes
  <2> QED BY <2>1 DEF Resolves, BoardInv, DecisionOnSeenFacts
<1> QED
  BY <1>7, <1>9, <1>10, <1>11 DEF BoardInv

\* the moves that leave the rows alone, on the screen and in the store
LEMMA AskingKeeps ==
  ASSUME BoardInv, NEW r \in Requests, Posts(r), UNCHANGED <<match, replaced, decisions>>,
         r.kind # "list" => Denotes(r.id, r.seen),
         filter' \in Filters, board' \in Boards, drawer' \in Drawers, board'.rows = board.rows
  PROVE  BoardInv'
<1>1. wire' \in Seq(Requests) /\ Len(wire') <= MaxRequests /\ WireNames'
  BY PostsKeeps
<1>2. RowsName'
  BY DEF BoardInv, RowsName, Denotes
<1> QED BY <1>1, <1>2 DEF BoardInv, BoardTypes, DecisionOnSeenFacts

LEMMA ShowingKeeps ==
  ASSUME BoardInv, NEW kind, Answered(kind), UNCHANGED <<match, replaced, filter, decisions>>,
         board' \in Boards, drawer' \in Drawers, board'.rows = board.rows
  PROVE  BoardInv'
<1>1. wire' \in Seq(Requests) /\ Len(wire') <= MaxRequests
  BY AnswersKeep
<1>2. WireNames'
  BY AnswersKeep, QuietKeeps DEF WireNames
<1>3. RowsName'
  BY DEF BoardInv, RowsName, Denotes
<1> QED BY <1>1, <1>2, <1>3 DEF BoardInv, BoardTypes, DecisionOnSeenFacts

LEMMA BoardInvNext == BoardInv /\ [ReviewNext]_reviewVars => BoardInv'
<1> SUFFICES ASSUME BoardInv, [ReviewNext]_reviewVars PROVE BoardInv'
  OBVIOUS
<1>1. ASSUME NEW finds \in Findings, Replaces(finds) PROVE BoardInv'
  BY <1>1, ReplacesKeeps
<1>2. ASSUME NEW f \in Filters, ChangesFilter(f) PROVE BoardInv'
  <2>1. ListRequest(f) \in Requests /\ ListRequest(f).kind = "list"
    BY DEF ListRequest, Requests
  <2>2. board' \in Boards /\ board'.rows = board.rows /\ drawer' \in Drawers
    BY <1>2 DEF ChangesFilter, BoardInv, BoardTypes, Boards
  <2> QED BY <1>2, <2>1, <2>2, AskingKeeps DEF ChangesFilter
<1>3. ASSUME NEW e \in Entity, NEW kind \in {"resolve", "history"}, NEW to \in {"PENDING"} \cup Dispositions,
             board.rows[e] # NoMatch
      PROVE  /\ Request(kind, board.rows[e], to) \in Requests
             /\ Denotes(Request(kind, board.rows[e], to).id, Request(kind, board.rows[e], to).seen)
  BY <1>3 DEF Request, Requests, BoardInv, BoardTypes, Boards, MatchRows, RowsName
<1>4. ASSUME NEW e \in Entity, NEW to \in Dispositions, Clicks(e, to) PROVE BoardInv'
  <2>1. board' \in Boards /\ board'.rows = board.rows
    BY <1>4 DEF Clicks, BoardInv, BoardTypes, Boards
  <2>2. board.rows[e] # NoMatch /\ UNCHANGED <<match, replaced, filter, drawer, decisions>>
        /\ Posts(Request("resolve", board.rows[e], to))
    BY <1>4 DEF Clicks
  <2>3. filter' \in Filters /\ drawer' \in Drawers
    BY <2>2 DEF BoardInv, BoardTypes
  <2> QED BY <1>3, <2>1, <2>2, <2>3, AskingKeeps
<1>5. ASSUME NEW e \in Entity, OpensHistory(e) PROVE BoardInv'
  <2>1. drawer' \in Drawers
    BY <1>5 DEF OpensHistory, BoardInv, BoardTypes, Boards, MatchRows, Drawers
  <2>2. board.rows[e] # NoMatch /\ UNCHANGED <<match, replaced, filter, board, decisions>>
        /\ (UNCHANGED wire \/ Posts(Request("history", board.rows[e], "PENDING")))
    BY <1>5 DEF OpensHistory
  <2>3. filter' \in Filters /\ board' \in Boards /\ board'.rows = board.rows
    BY <2>2 DEF BoardInv, BoardTypes
  <2>4. CASE UNCHANGED wire
    BY <2>1, <2>2, <2>4 DEF BoardInv, BoardTypes, RowsName, WireNames, Denotes, DecisionOnSeenFacts
  <2>5. CASE Posts(Request("history", board.rows[e], "PENDING"))
    BY <1>3, <2>1, <2>2, <2>3, <2>5, AskingKeeps
  <2> QED BY <2>2, <2>4, <2>5
<1>6. ASSUME NEW e \in Entity, Resolves(e) PROVE BoardInv'
  BY <1>6, ResolvesKeeps
<1>7. CASE ClosesHistory
  BY <1>7 DEF ClosesHistory, BoardInv, BoardTypes, Drawers, RowsName, WireNames, Denotes, DecisionOnSeenFacts
<1>8. CASE ListLoads
  BY <1>8, ListLoadsKeeps
<1>9. CASE BoardFails
  <2>1. board' \in Boards /\ board'.rows = board.rows /\ drawer' \in Drawers
    BY <1>9 DEF BoardFails, BoardInv, BoardTypes, Boards
  <2> QED BY <1>9, <2>1, ShowingKeeps DEF BoardFails
<1>10. CASE ResolveFails
  <2>1. board' \in Boards /\ board'.rows = board.rows /\ drawer' \in Drawers
    BY <1>10 DEF ResolveFails, BoardInv, BoardTypes, Boards
  <2> QED BY <1>10, <2>1, ShowingKeeps DEF ResolveFails
<1>11. CASE HistoryLoads
  <2>1. Head(wire).id \in Ids
    <3>1. Head(wire) \in Requests /\ Head(wire).kind = "history"
      BY <1>11, AnswersKeep DEF HistoryLoads
    <3> QED BY <3>1 DEF Requests
  <2>2. drawer' \in Drawers /\ board' \in Boards /\ board'.rows = board.rows
    BY <1>11, <2>1 DEF HistoryLoads, BoardInv, BoardTypes, Drawers
  <2> QED BY <1>11, <2>2, ShowingKeeps DEF HistoryLoads
<1>12. CASE UNCHANGED reviewVars
  BY <1>12 DEF reviewVars, BoardInv, BoardTypes, RowsName, WireNames, Denotes, DecisionOnSeenFacts
<1> QED
  BY <1>1, <1>2, <1>4, <1>5, <1>6, <1>7, <1>8, <1>9, <1>10, <1>11, <1>12 DEF ReviewNext

-----------------------------------------------------------------------------
\* The board, the drawer and the wire stay what they are declared to be, and every id on the
\* board was dealt by a rescan that has run (ReviewBoardPage.tsx).
THEOREM ReviewTypeCorrect == ReviewSpec => []ReviewTypeOK
<1>1. BoardInv => ReviewTypeOK
  BY DEF BoardInv, BoardTypes, Boards, ReviewTypeOK
<1> QED BY <1>1, BoardInvInit, BoardInvNext, PTL DEF ReviewSpec

\* A decision posted from a row that a rescan has replaced meanwhile never falls on facts
\* nobody looked at (operations.ts:507).
THEOREM DecisionsFallOnSeenFacts == ReviewSpec => []DecisionOnSeenFacts
<1>1. BoardInv => DecisionOnSeenFacts
  BY DEF BoardInv
<1> QED BY <1>1, BoardInvInit, BoardInvNext, PTL DEF ReviewSpec

-----------------------------------------------------------------------------
(* The customers page.                                                       *)

Standings == {"toReview", "confirmed", "cleared"}
CustomerRows == [name : Names, proof : Nat, match : Standings \cup {"none"}]
CustomerScreens == [at : {"idle", "found", "stored"}, name : Names \cup {NoRow}, version : Nat]
Summaries == UNION {[S -> Standings] : S \in SUBSET Customer}
Sums == Summaries \cup {Unread}
Marks == SUBSET (Customer \X Standings)
Desks == [list : [Customer -> CustomerRows \cup {NoRow}], sums : Sums, version : Nat,
          failed : BOOLEAN, loading : BOOLEAN]
\* who waits for a screen is screening
TaskRecords ==
  [at : {"idle", "listing", "paging", "refreshing", "screening", "reloading"},
   left : SUBSET Customer, on : Customer \cup {NoRow}, offset : Nat, read : Marks]
Tasks == {t \in TaskRecords : t.on # NoRow => t.at = "screening"}

DeskTypes ==
  /\ row \in [Customer -> CustomerRows \cup {NoRow}]
  /\ published \in 1..MaxVersion /\ engine \in 0..published /\ desk.version \in 0..engine
  /\ screen \in [Customer -> CustomerScreens]
  /\ desk \in Desks
  /\ task \in [Actors -> Tasks]
  /\ spent \in [tasks : 0..MaxTasks, decisions : 0..MaxDecisions]

\* A screen is of the identity that is in the store, on lists no older than its proof; what it
\* has stored is what it found, but for decisions.
ScreenTrue(c) ==
  screen[c].at # "idle" =>
    /\ screen[c].version \in 1..engine
    /\ row[c] # NoRow =>
         /\ screen[c].name = row[c].name /\ row[c].proof <= screen[c].version
         /\ screen[c].at = "stored" /\ row[c].match = "none" => ~Found(c)

\* A proof on the lists that are loaded means what it says.
RowTrue(c) ==
  row[c] # NoRow =>
    /\ row[c].proof <= engine
    /\ engine # 0 /\ row[c].proof = engine /\ row[c].match = "none" => ~Matched(c, row[c].name, engine)

\* The customer was listed with a proof on the lists that are loaded.
Proven(c) == desk.list[c] # NoRow /\ engine # 0 /\ desk.list[c].proof = engine
Absolved(c) == Proven(c) => ~Matched(c, desk.list[c].name, engine)

\* How far the page has come with its three reads, and what they say together.
ReadsTrue ==
  /\ \A c \in Listed : desk.list[c].proof <= engine
  /\ task["page"].at \in {"listing", "paging", "refreshing"} => desk.loading
  /\ task["page"].at = "paging" /\ task["page"].offset = 0 =>
       \A c \in Customer : Proven(c) =>
         row[c] # NoRow /\ row[c].name = desk.list[c].name /\ row[c].proof = engine
  /\ task["page"].at = "paging" /\ task["page"].offset # 0 =>
       \A c \in Customer : (\E p \in task["page"].read : p[1] = c) \/ Absolved(c)
  /\ task["page"].at = "refreshing" /\ desk.sums # Unread =>
       \A c \in Customer : c \in DOMAIN desk.sums \/ Absolved(c)
  /\ task["page"].at \notin {"paging", "refreshing"} =>
       \A c \in Listed : Claim(c) = "clear" => ~Matched(c, desk.list[c].name, desk.version)


-----------------------------------------------------------------------------
(* The types are kept.                                                       *)

\* At first every customer is new, and nothing was read or screened.
LEMMA DeskTypesInit == DeskInit => DeskTypes
<1> SUFFICES ASSUME DeskInit PROVE DeskTypes
  OBVIOUS
<1>1. \A n \in Names : Fresh(n) \in CustomerRows
  BY DEF Fresh, CustomerRows, Standings
<1>2. row \in [Customer -> CustomerRows \cup {NoRow}]
  BY <1>1 DEF DeskInit
<1>3. NoTask \in Tasks /\ [NoTask EXCEPT !.at = "listing"] \in Tasks
  BY DEF NoTask, Tasks, TaskRecords, Marks
<1>4. task \in [Actors -> Tasks]
  BY <1>3 DEF DeskInit
<1>5. NoScreen \in CustomerScreens
  BY DEF NoScreen, CustomerScreens
<1>6. screen \in [Customer -> CustomerScreens]
  BY <1>5 DEF DeskInit
<1>7. desk \in Desks /\ desk.version = 0
  <2>1. Unread \in Sums
    BY DEF Sums
  <2> QED BY <1>2, <2>1 DEF DeskInit, Desks
<1> QED BY <1>2, <1>4, <1>6, <1>7, DeskAssumption DEF DeskInit, DeskTypes

\* What is read of the board says how each customer's match stands.
LEMMA ReadTypes ==
  ASSUME DeskTypes
  PROVE  /\ Read \in Marks
         /\ \A read \in Marks :
              /\ SumsOf(read) \in Summaries
              /\ DOMAIN SumsOf(read) = {p[1] : p \in read}
<1>1. \A c \in Page : c \in Customer /\ row[c].match \in Standings
  BY DeskAssumption DEF Page, Board, Here, DeskTypes, CustomerRows
<1>2. Read \in Marks
  <2>1. task["page"] \in Tasks
    BY DEF DeskTypes, Actors
  <2> QED BY <1>1, <2>1 DEF Read, Tasks, TaskRecords, Marks
<1>3. ASSUME NEW read \in Marks
      PROVE  SumsOf(read) \in Summaries /\ DOMAIN SumsOf(read) = {p[1] : p \in read}
  <2> DEFINE S == {p[1] : p \in read}
  <2>1. S \in SUBSET Customer
    BY DEF Marks
  <2>2. ASSUME NEW c \in S PROVE (CHOOSE p \in read : p[1] = c)[2] \in Standings
    <3>1. \E p \in read : p[1] = c
      OBVIOUS
    <3>2. (CHOOSE p \in read : p[1] = c) \in read
      BY <3>1
    <3> QED BY <3>2 DEF Marks
  <2>3. SumsOf(read) \in [S -> Standings]
    BY <2>2 DEF SumsOf
  <2> QED BY <2>1, <2>3 DEF Summaries, SumsOf
<1> QED BY <1>2, <1>3

\* A screen stores statuses and the version it ran on; those that wait for it go on or give up.
LEMMA ScreensKeepTypes ==
  ASSUME DeskTypes, NEW c \in Customer,
         (\E a \in Actors : StartsScreen(a, c)) \/ StoresMatches(c) \/ MarksScreened(c) \/ ScreenLost(c)
  PROVE  DeskTypes'
<1>1. screen[c] \in CustomerScreens /\ engine \in Nat /\ NoScreen \in CustomerScreens /\ NoTask \in Tasks
  BY DEF DeskTypes, NoScreen, CustomerScreens, NoTask, Tasks, TaskRecords, Marks
<1>2. row[c] # NoRow => row[c] \in CustomerRows /\ row[c].name \in Names
  BY DEF DeskTypes, CustomerRows
<1>3. \A a \in Actors : task[a] \in Tasks
  BY DEF DeskTypes
<1>4. CASE \E a \in Actors : StartsScreen(a, c)
  <2>1. PICK a \in Actors : StartsScreen(a, c)
    BY <1>4
  <2> DEFINE t == [task[a] EXCEPT !.on = c]
             s == [at |-> "found", name |-> row[c].name, version |-> engine]
  <2>2. t \in Tasks
    <3>1. t \in TaskRecords /\ t.at = "screening"
      BY <1>3, <2>1 DEF StartsScreen, Tasks, TaskRecords
    <3> HIDE DEF t
    <3> QED BY <3>1 DEF Tasks
  <2>3. s \in CustomerScreens
    BY <1>1, <1>2, <2>1 DEF StartsScreen, CustomerScreens
  <2>4. task' = [task EXCEPT ![a] = t] /\ screen' \in {screen, [screen EXCEPT ![c] = s]}
    BY <2>1 DEF StartsScreen, DeskTypes
  <2> HIDE DEF t, s
  <2> QED BY <2>1, <2>2, <2>3, <2>4 DEF StartsScreen, DeskTypes
<1>5. CASE StoresMatches(c)
  <2>1. row' \in [Customer -> CustomerRows \cup {NoRow}]
    BY <1>2, <1>5 DEF StoresMatches, DeskTypes, CustomerRows, Standings
  <2>2. screen' \in [Customer -> CustomerScreens]
    BY <1>1, <1>5 DEF StoresMatches, DeskTypes, CustomerScreens
  <2> QED BY <1>5, <2>1, <2>2 DEF StoresMatches, DeskTypes
<1>6. Ended(c) \in [Actors -> Tasks]
  <2>1. ASSUME NEW a \in Actors PROVE Ended(c)[a] \in Tasks
    <3>1. CASE task[a].on # c
      BY <1>3, <3>1 DEF Ended
    <3>2. CASE task[a].on = c
      <4> DEFINE t == [task[a] EXCEPT !.on = NoRow, !.left = @ \ {c}]
      <4>1. t \in TaskRecords /\ t.on = NoRow
        BY <1>3 DEF Tasks, TaskRecords
      <4>2. Ended(c)[a] = t
        BY <3>2 DEF Ended
      <4> HIDE DEF t
      <4> QED BY <4>1, <4>2 DEF Tasks
    <3> QED BY <3>1, <3>2
  <2> QED BY <2>1 DEF Ended
<1>7. CASE MarksScreened(c)
  <2>1. row' \in [Customer -> CustomerRows \cup {NoRow}]
    BY <1>1, <1>2, <1>7 DEF MarksScreened, DeskTypes, CustomerRows, CustomerScreens
  <2> QED BY <1>1, <1>6, <1>7, <2>1 DEF MarksScreened, DeskTypes
<1>8. CASE ScreenLost(c)
  BY <1>1, <1>3, <1>8 DEF ScreenLost, DeskTypes
<1> QED BY <1>4, <1>5, <1>7, <1>8

\* What a handler starts with.
LEMMA NewTasks ==
  /\ NoTask \in Tasks /\ Listing \in Tasks
  /\ \A S \in SUBSET Customer : Screening(S) \in Tasks
  /\ \A at \in {"reloading", "paging", "refreshing", "listing"} :
       [NoTask EXCEPT !.at = at] \in Tasks /\ [NoTask EXCEPT !.at = at].at = at
  /\ NoTask.at = "idle" /\ \A S \in SUBSET Customer : Screening(S).at = "screening"
BY DEF NoTask, Tasks, TaskRecords, Marks, Listing, Screening

\* A handler that starts replaces the idle task of its actor.
LEMMA StartedTypes ==
  ASSUME DeskTypes, NEW a \in Actors, NEW t \in Tasks, Starts(a, t)
  PROVE  /\ task' \in [Actors -> Tasks] /\ task'[a] = t /\ task[a].at = "idle"
         /\ \A b \in Actors : b # a => task'[b] = task[b]
         /\ spent' \in [tasks : 0..MaxTasks, decisions : 0..MaxDecisions]
BY DeskAssumption DEF DeskTypes, Starts

\* The handlers write customers with an identity to choose from, and hand over customers.
LEMMA HandlersKeepTypes ==
  ASSUME DeskTypes,
         \/ ScreensUnscreened \/ \E a \in Actors : ChecksForUpdates(a) \/ Reloads(a)
         \/ \E c \in Customer : \/ Deletes(c) \/ \E n \in Names : Onboards(c, n) \/ Edits(c, n)
                                \/ \E to \in {"confirmed", "cleared"} : Decides(c, to)
         \/ \E S \in SUBSET Customer : \E n \in Names : Imports(S, n)
  PROVE  DeskTypes'
<1>1. "page" \in Actors /\ (\A n \in Names : Fresh(n) \in CustomerRows) /\ Here \in SUBSET Customer
      /\ Unscreened \in SUBSET Customer
  BY DEF Actors, Fresh, CustomerRows, Here, Unscreened, Listed
<1>2. CASE ScreensUnscreened
  <2>1. Starts("page", Screening(Unscreened)) /\ Screening(Unscreened) \in Tasks
    BY <1>1, <1>2, NewTasks DEF ScreensUnscreened
  <2> QED BY <1>1, <1>2, <2>1, StartedTypes DEF ScreensUnscreened, DeskTypes
<1>3. ASSUME NEW a \in Actors, ChecksForUpdates(a) PROVE DeskTypes'
  BY <1>3, NewTasks, StartedTypes DEF ChecksForUpdates, DeskTypes
<1>4. ASSUME NEW a \in Actors, Reloads(a) PROVE DeskTypes'
  BY <1>1, <1>4, NewTasks DEF Reloads, DeskTypes
<1>5. ASSUME NEW c \in Customer, Deletes(c) PROVE DeskTypes'
  <2>1. [desk EXCEPT !.loading = TRUE] \in Desks /\ [desk EXCEPT !.loading = TRUE].version = desk.version
    BY DEF DeskTypes, Desks
  <2>2. row' \in [Customer -> CustomerRows \cup {NoRow}]
    BY <1>5 DEF Deletes, DeskTypes
  <2>3. Starts("page", Listing)
    BY <1>5 DEF Deletes
  <2> QED BY <1>1, <1>5, <2>1, <2>2, <2>3, NewTasks, StartedTypes DEF Deletes, DeskTypes
<1>6. ASSUME NEW c \in Customer, NEW n \in Names, Onboards(c, n) PROVE DeskTypes'
  <2>1. Starts("page", Screening({c})) /\ Screening({c}) \in Tasks
    BY <1>6, NewTasks DEF Onboards
  <2> QED BY <1>1, <1>6, <2>1, StartedTypes DEF Onboards, DeskTypes
<1>7. ASSUME NEW c \in Customer, NEW n \in Names, Edits(c, n) PROVE DeskTypes'
  <2>1. Starts("page", Screening({c})) /\ Screening({c}) \in Tasks
    BY <1>7, NewTasks DEF Edits
  <2>2. row[c] \in CustomerRows
    BY <1>7 DEF Edits, Here, DeskTypes
  <2>3. [row[c] EXCEPT !.name = n, !.proof = IF n = row[c].name THEN @ ELSE 0] \in CustomerRows
    BY <2>2 DEF CustomerRows
  <2>4. row' \in [Customer -> CustomerRows \cup {NoRow}]
    BY <1>7, <2>2, <2>3 DEF Edits, DeskTypes, CustomerRows
  <2> QED BY <1>1, <1>7, <2>1, <2>4, StartedTypes DEF Edits, DeskTypes
<1>8. ASSUME NEW c \in Customer, NEW to \in {"confirmed", "cleared"}, Decides(c, to) PROVE DeskTypes'
  <2>1. row' \in [Customer -> CustomerRows \cup {NoRow}]
    BY <1>8 DEF Decides, Here, DeskTypes, CustomerRows, Standings
  <2>2. spent' \in [tasks : 0..MaxTasks, decisions : 0..MaxDecisions]
    BY <1>8, DeskAssumption DEF Decides, DeskTypes
  <2> QED BY <1>8, <2>1, <2>2 DEF Decides, DeskTypes
<1>9. ASSUME NEW S \in SUBSET Customer, NEW n \in Names, Imports(S, n) PROVE DeskTypes'
  <2>1. Starts("page", Screening(Here \cup S)) /\ Screening(Here \cup S) \in Tasks
    BY <1>1, <1>9, NewTasks DEF Imports
  <2>2. row' \in [Customer -> CustomerRows \cup {NoRow}]
    BY <1>1, <1>9 DEF Imports, DeskTypes
  <2> QED BY <1>1, <1>9, <2>1, <2>2, StartedTypes DEF Imports, DeskTypes
<1> QED BY <1>2, <1>3, <1>4, <1>5, <1>6, <1>7, <1>8, <1>9

\* The reads, the boot and the ends of handlers touch the page and one task.
LEMMA ReadsKeepTypes ==
  ASSUME DeskTypes,
         \/ ListsCustomers \/ ReadsPage \/ ReadsLastPage \/ ReadFails \/ ReadsVersion \/ ListFails
         \/ PublishesList \/ Boots \/ BootFails \/ \E a \in Actors : AllScreened(a) \/ Fails(a)
  PROVE  DeskTypes'
<1>1. desk \in Desks /\ task["page"] \in Tasks /\ "page" \in Actors
  BY DEF DeskTypes, Actors
<1>2. ASSUME NEW l \in [Customer -> CustomerRows \cup {NoRow}] PROVE [desk EXCEPT !.list = l] \in Desks
  BY <1>1 DEF Desks
<1>3. ASSUME NEW s \in Sums PROVE [desk EXCEPT !.sums = s] \in Desks
  BY <1>1 DEF Desks
<1>4. ASSUME NEW b \in BOOLEAN PROVE [desk EXCEPT !.loading = b] \in Desks /\ [desk EXCEPT !.failed = b] \in Desks
  BY <1>1 DEF Desks
<1>5. ASSUME NEW v \in Nat
      PROVE  [desk EXCEPT !.version = v] \in Desks /\ [desk EXCEPT !.version = v, !.loading = FALSE] \in Desks
  BY <1>1 DEF Desks
<1>6. CASE ListsCustomers
  <2>1. desk' \in Desks /\ desk'.version = desk.version
    BY <1>1, <1>2, <1>6 DEF ListsCustomers, DeskTypes, Desks
  <2> QED BY <1>1, <1>6, <2>1, NewTasks DEF ListsCustomers, DeskTypes
<1>7. CASE ReadsPage
  <2> DEFINE t == [task["page"] EXCEPT !.offset = @ + PageSize, !.read = Read]
  <2>1. t \in Tasks
    <3>1. Read \in Marks /\ task["page"].offset + PageSize \in Nat
      BY <1>1, ReadTypes, DeskAssumption DEF Tasks, TaskRecords
    <3> DEFINE o == [task["page"] EXCEPT !.offset = @ + PageSize]
    <3>2. o \in TaskRecords /\ o.on = task["page"].on /\ o.at = task["page"].at
      BY <1>1, <3>1 DEF Tasks, TaskRecords
    <3>3. t = [o EXCEPT !.read = Read]
      OBVIOUS
    <3> HIDE DEF o, t
    <3>4. t \in TaskRecords /\ t.on = task["page"].on /\ t.at = task["page"].at
      BY <3>1, <3>2, <3>3 DEF TaskRecords
    <3> QED BY <1>1, <3>4 DEF Tasks
  <2>2. task' = [task EXCEPT !["page"] = t]
    BY <1>1, <1>7 DEF ReadsPage, DeskTypes
  <2> HIDE DEF t
  <2>3. task' \in [Actors -> Tasks]
    BY <1>1, <2>1, <2>2 DEF DeskTypes
  <2>4. UNCHANGED <<row, published, engine, screen, desk, spent>>
    BY <1>7 DEF ReadsPage
  <2> QED BY <2>3, <2>4 DEF DeskTypes
<1>8. CASE ReadsLastPage \/ ReadFails
  <2>1. desk' \in Desks /\ desk'.version = desk.version
    <3>1. SumsOf(Read) \in Sums /\ Unread \in Sums
      BY ReadTypes DEF Sums
    <3>2. PICK s \in Sums : desk' = [desk EXCEPT !.sums = s]
      BY <1>8, <3>1 DEF ReadsLastPage, ReadFails
    <3> QED BY <1>1, <1>3, <3>2 DEF Desks
  <2> QED BY <1>1, <1>8, <2>1, NewTasks DEF ReadsLastPage, ReadFails, DeskTypes
<1>9. CASE ReadsVersion \/ ListFails
  <2>1. desk' \in Desks /\ desk'.version \in 0..engine
    <3>1. engine \in Nat /\ engine \in 0..engine
      BY DEF DeskTypes
    <3>2. CASE ReadsVersion
      <4>1. desk' = [desk EXCEPT !.version = engine, !.loading = FALSE]
        BY <3>2 DEF ReadsVersion
      <4>2. desk'.version = engine
        BY <1>1, <4>1 DEF Desks
      <4> QED BY <1>5, <3>1, <4>1, <4>2
    <3>3. CASE ListFails
      BY <1>1, <1>4, <3>3 DEF ListFails, DeskTypes, Desks
    <3> QED BY <1>9, <3>2, <3>3
  <2> QED BY <1>1, <1>9, <2>1, NewTasks DEF ReadsVersion, ListFails, DeskTypes
<1>10. CASE PublishesList
  BY <1>10, DeskAssumption DEF PublishesList, DeskTypes
<1>11. CASE Boots \/ BootFails
  <2>1. desk' \in Desks /\ desk'.version \in 0..engine'
    <3>1. published \in Nat /\ published \in 0..published
      BY DEF DeskTypes
    <3>2. CASE Boots
      BY <1>1, <1>5, <3>1, <3>2 DEF Boots, Desks
    <3>3. CASE BootFails
      BY <1>1, <1>4, <3>3 DEF BootFails, DeskTypes, Desks
    <3> QED BY <1>11, <3>2, <3>3
  <2> QED BY <1>11, <2>1 DEF Boots, BootFails, DeskTypes
<1>12. ASSUME NEW a \in Actors, AllScreened(a) \/ Fails(a) PROVE DeskTypes'
  <2>1. desk' \in Desks /\ desk'.version = desk.version
    BY <1>1, <1>4, <1>12 DEF AllScreened, Fails, Desks
  <2>2. task' \in [Actors -> Tasks]
    BY <1>12, NewTasks DEF AllScreened, Fails, DeskTypes
  <2> QED BY <1>12, <2>1, <2>2 DEF AllScreened, Fails, DeskTypes
<1> QED BY <1>6, <1>7, <1>8, <1>9, <1>10, <1>11, <1>12

\* Every step keeps the types.
LEMMA DeskTypesNext == DeskTypes /\ [DeskNext]_deskVars => DeskTypes'
<1> SUFFICES ASSUME DeskTypes, [DeskNext]_deskVars PROVE DeskTypes'
  OBVIOUS
<1>1. CASE UNCHANGED deskVars
  BY <1>1 DEF deskVars, DeskTypes
<1>2. CASE DeskNext
  BY <1>2, ScreensKeepTypes, HandlersKeepTypes, ReadsKeepTypes DEF DeskNext
<1> QED BY <1>1, <1>2

-----------------------------------------------------------------------------
(* What is stored: proofs and matches.                                       *)

StoreTrue == \A c \in Customer : ScreenTrue(c) /\ RowTrue(c)

\* Nobody has a proof at first.
LEMMA StoreTrueInit == DeskInit => StoreTrue
BY DEF DeskInit, StoreTrue, ScreenTrue, RowTrue, NoScreen, Fresh

\* Steps of the page alone.
LEMMA SameStoreIsTrue ==
  ASSUME StoreTrue, UNCHANGED <<row, engine, screen>>
  PROVE  StoreTrue'
<1> SUFFICES ASSUME NEW c \in Customer PROVE ScreenTrue(c)' /\ RowTrue(c)'
  BY DEF StoreTrue
<1> QED BY DEF StoreTrue, ScreenTrue, RowTrue, Found

\* Newer lists make every proof one of older lists.
LEMMA NewerListsKeepStoreTrue ==
  ASSUME DeskTypes, StoreTrue, UNCHANGED <<row, screen>>, engine' = published
  PROVE  StoreTrue'
<1> SUFFICES ASSUME NEW c \in Customer PROVE ScreenTrue(c)' /\ RowTrue(c)'
  BY DEF StoreTrue
<1>1. engine \in Nat /\ engine' \in Nat /\ engine <= engine' /\ screen[c].version \in Nat
  BY DEF DeskTypes, CustomerScreens
<1>2. ScreenTrue(c)'
  BY <1>1 DEF StoreTrue, ScreenTrue, Found
<1>3. RowTrue(c)'
  <2>1. row[c] # NoRow => row[c].proof \in Nat
    BY DEF DeskTypes, CustomerRows
  <2> QED BY <1>1, <2>1 DEF StoreTrue, RowTrue
<1> QED BY <1>2, <1>3

\* A screen of a customer, or a decision, touches no other.
LEMMA OneKeepsStoreTrue ==
  ASSUME StoreTrue, NEW c \in Customer, UNCHANGED engine,
         \A d \in Customer : d # c => row'[d] = row[d] /\ screen'[d] = screen[d],
         ScreenTrue(c)', RowTrue(c)'
  PROVE  StoreTrue'
<1> SUFFICES ASSUME NEW d \in Customer, d # c PROVE ScreenTrue(d)' /\ RowTrue(d)'
  BY DEF StoreTrue
<1> QED BY DEF StoreTrue, ScreenTrue, RowTrue, Found

\* A screen stores its matches before its proof, over an identity that cannot change under it.
LEMMA ScreensKeepStoreTrue ==
  ASSUME DeskTypes, StoreTrue, NEW c \in Customer,
         (\E a \in Actors : StartsScreen(a, c)) \/ StoresMatches(c) \/ MarksScreened(c) \/ ScreenLost(c)
  PROVE  StoreTrue'
<1>1. /\ engine \in Nat /\ screen[c] \in CustomerScreens /\ screen[c].version \in Nat
      /\ row[c] # NoRow => row[c] \in CustomerRows /\ row[c].proof \in Nat
      /\ ScreenTrue(c) /\ RowTrue(c)
  BY DEF DeskTypes, CustomerScreens, CustomerRows, StoreTrue
<1>2. CASE \E a \in Actors : StartsScreen(a, c)
  <2>1. CASE screen[c].at # "idle"
    BY <1>2, <2>1, SameStoreIsTrue DEF StartsScreen
  <2>2. CASE screen[c].at = "idle"
    <3>1. /\ screen' = [screen EXCEPT ![c] = [at |-> "found", name |-> row[c].name, version |-> engine]]
          /\ row[c] # NoRow /\ engine # 0 /\ UNCHANGED <<row, engine>>
      BY <1>2, <2>2 DEF StartsScreen
    <3>2. /\ screen'[c] = [at |-> "found", name |-> row[c].name, version |-> engine]
          /\ \A d \in Customer : d # c => screen'[d] = screen[d]
      BY <3>1 DEF DeskTypes
    <3>3. ScreenTrue(c)' /\ RowTrue(c)'
      BY <1>1, <3>1, <3>2 DEF ScreenTrue, RowTrue
    <3> QED BY <3>1, <3>2, <3>3, OneKeepsStoreTrue
  <2> QED BY <2>1, <2>2
<1>3. CASE StoresMatches(c)
  <2>1. /\ screen'[c].at = "stored" /\ screen'[c].name = screen[c].name
        /\ screen'[c].version = screen[c].version
        /\ \A d \in Customer : d # c => screen'[d] = screen[d] /\ row'[d] = row[d]
    BY <1>1, <1>3 DEF StoresMatches, DeskTypes, CustomerScreens
  <2>2. /\ row'[c].name = row[c].name /\ row'[c].proof = row[c].proof
        /\ row'[c].match = "none" => ~Found(c)
        /\ row[c] # NoRow /\ UNCHANGED engine /\ screen[c].at = "found"
    BY <1>1, <1>3 DEF StoresMatches, DeskTypes, CustomerRows
  <2>3. ScreenTrue(c)'
    BY <1>1, <2>1, <2>2 DEF ScreenTrue, Found
  <2>4. RowTrue(c)'
    <3>1. row[c].proof <= screen[c].version /\ screen[c].version <= engine /\ screen[c].name = row[c].name
      BY <1>1, <2>2 DEF ScreenTrue
    <3>2. row[c].proof = engine => screen[c].version = engine
      BY <1>1, <2>2, <3>1
    <3> QED BY <1>1, <2>2, <3>1, <3>2 DEF RowTrue, Found
  <2> QED BY <2>1, <2>2, <2>3, <2>4, OneKeepsStoreTrue
<1>4. CASE MarksScreened(c)
  <2>1. /\ screen'[c] = NoScreen /\ UNCHANGED engine /\ row[c] # NoRow /\ screen[c].at = "stored"
        /\ \A d \in Customer : d # c => screen'[d] = screen[d] /\ row'[d] = row[d]
    BY <1>4 DEF MarksScreened, DeskTypes
  <2>2. /\ row'[c].name = row[c].name /\ row'[c].proof = screen[c].version
        /\ row'[c].match = row[c].match
    BY <1>1, <1>4 DEF MarksScreened, DeskTypes, CustomerRows
  <2>3. ScreenTrue(c)'
    BY <2>1 DEF ScreenTrue, NoScreen
  <2>4. RowTrue(c)'
    BY <1>1, <2>1, <2>2 DEF ScreenTrue, RowTrue, Found
  <2> QED BY <2>1, <2>2, <2>3, <2>4, OneKeepsStoreTrue
<1>5. CASE ScreenLost(c)
  <2>1. /\ screen'[c] = NoScreen /\ UNCHANGED <<row, engine>>
        /\ \A d \in Customer : d # c => screen'[d] = screen[d]
    BY <1>5 DEF ScreenLost, DeskTypes
  <2>2. ScreenTrue(c)' /\ RowTrue(c)'
    BY <1>1, <2>1 DEF ScreenTrue, RowTrue, NoScreen
  <2> QED BY <2>1, <2>2, OneKeepsStoreTrue
<1> QED BY <1>2, <1>3, <1>4, <1>5

\* What the handlers write of a customer: nothing, a customer without a proof, or one that is gone.
LEMMA WritesKeepStoreTrue ==
  ASSUME DeskTypes, StoreTrue, UNCHANGED <<engine, screen>>,
         \A c \in Customer : \/ row'[c] = row[c] \/ row'[c] = NoRow
                             \/ screen[c].at = "idle" /\ row'[c].proof = 0
  PROVE  StoreTrue'
<1> SUFFICES ASSUME NEW c \in Customer PROVE ScreenTrue(c)' /\ RowTrue(c)'
  BY DEF StoreTrue
<1>1. ScreenTrue(c) /\ RowTrue(c) /\ engine \in Nat
  BY DEF StoreTrue, DeskTypes
<1>2. CASE row'[c] = row[c] \/ row'[c] = NoRow
  BY <1>1, <1>2 DEF ScreenTrue, RowTrue, Found
<1>3. CASE screen[c].at = "idle" /\ row'[c].proof = 0
  BY <1>1, <1>3 DEF ScreenTrue, RowTrue
<1> QED BY <1>2, <1>3

\* So what is stored stays true.
LEMMA StoreTrueNext == DeskTypes /\ StoreTrue /\ [DeskNext]_deskVars => StoreTrue'
<1> SUFFICES ASSUME DeskTypes, StoreTrue, [DeskNext]_deskVars PROVE StoreTrue'
  OBVIOUS
<1>1. ASSUME NEW c \in Customer,
             (\E a \in Actors : StartsScreen(a, c)) \/ StoresMatches(c) \/ MarksScreened(c) \/ ScreenLost(c)
      PROVE  StoreTrue'
  BY <1>1, ScreensKeepStoreTrue
<1>2. CASE Boots \/ \E a \in Actors : Reloads(a)
  BY <1>2, NewerListsKeepStoreTrue DEF Boots, Reloads
<1>3. CASE \/ PublishesList \/ BootFails \/ ScreensUnscreened \/ ListsCustomers \/ ReadsPage
           \/ ReadsLastPage \/ ReadFails \/ ReadsVersion \/ ListFails \/ UNCHANGED deskVars
           \/ \E a \in Actors : ChecksForUpdates(a) \/ AllScreened(a) \/ Fails(a)
  BY <1>3, SameStoreIsTrue DEF PublishesList, BootFails, ScreensUnscreened, ListsCustomers, ReadsPage,
     ReadsLastPage, ReadFails, ReadsVersion, ListFails, ChecksForUpdates, AllScreened, Fails, deskVars
<1>4. ASSUME NEW c \in Customer, Deletes(c) PROVE StoreTrue'
  BY <1>4, WritesKeepStoreTrue DEF Deletes, DeskTypes
<1>5. ASSUME NEW c \in Customer, NEW n \in Names, Onboards(c, n) PROVE StoreTrue'
  BY <1>5, WritesKeepStoreTrue DEF Onboards, DeskTypes, Fresh
<1>6. ASSUME NEW c \in Customer, NEW n \in Names, Edits(c, n) PROVE StoreTrue'
  <2>1. row[c] \in CustomerRows /\ screen[c].at = "idle" /\ UNCHANGED <<engine, screen>>
    BY <1>6 DEF Edits, Here, DeskTypes
  <2>2. \A d \in Customer : d # c => row'[d] = row[d] /\ screen'[d] = screen[d]
    BY <1>6 DEF Edits, DeskTypes
  <2>3. /\ row'[c].name = n /\ row'[c].match = row[c].match
        /\ row'[c].proof = (IF n = row[c].name THEN row[c].proof ELSE 0)
    BY <1>6, <2>1 DEF Edits, DeskTypes, CustomerRows
  <2>4. ScreenTrue(c)'
    BY <2>1 DEF ScreenTrue
  <2>5. RowTrue(c)'
    <3>1. RowTrue(c) /\ row[c] # NoRow /\ engine \in Nat
      BY <1>6 DEF Edits, Here, StoreTrue, DeskTypes
    <3> QED BY <2>1, <2>3, <3>1 DEF RowTrue
  <2> QED BY <2>1, <2>2, <2>4, <2>5, OneKeepsStoreTrue
<1>7. ASSUME NEW c \in Customer, NEW to \in {"confirmed", "cleared"}, Decides(c, to) PROVE StoreTrue'
  <2>1. row[c] \in CustomerRows /\ row[c] # NoRow /\ row[c].match # "none" /\ UNCHANGED <<engine, screen>>
    BY <1>7 DEF Decides, Here, DeskTypes
  <2>2. \A d \in Customer : d # c => row'[d] = row[d] /\ screen'[d] = screen[d]
    BY <1>7 DEF Decides, DeskTypes
  <2>3. row'[c].name = row[c].name /\ row'[c].match # "none" /\ row'[c].proof = row[c].proof
    BY <1>7, <2>1 DEF Decides, DeskTypes, CustomerRows
  <2>4. ScreenTrue(c)' /\ RowTrue(c)'
    BY <2>1, <2>3 DEF StoreTrue, ScreenTrue, RowTrue, Found
  <2> QED BY <2>1, <2>2, <2>4, OneKeepsStoreTrue
<1>8. ASSUME NEW S \in SUBSET Customer, NEW n \in Names, Imports(S, n) PROVE StoreTrue'
  BY <1>8, WritesKeepStoreTrue DEF Imports, DeskTypes, Fresh
<1> QED BY <1>1, <1>2, <1>3, <1>4, <1>5, <1>6, <1>7, <1>8 DEF DeskNext

-----------------------------------------------------------------------------
(* The three reads.                                                          *)

\* The board fits on the page it is first read by (REVIEW_PAGE_SIZE): a longer one is read by
\* offset, and a match that goes between two pages makes the next one skip another.
OnePage == IsFiniteSet(Customer) /\ Cardinality(Customer) <= PageSize

\* Nobody on the board ranks beyond the first page.
LEMMA FirstPageHoldsAll ==
  ASSUME OnePage, DeskTypes, task["page"].offset = 0, NEW c \in Board
  PROVE  c \in Page
<1>1. \A d \in Customer : Place(d) \in Nat
  BY DeskAssumption DEF Place
<1> DEFINE Before == {d \in Board : Place(d) <= Place(c)}
<1>2. Before \in SUBSET Customer /\ c \in Before
  BY <1>1 DEF Board, Here
<1>3. IsFiniteSet(Before) /\ Cardinality(Before) <= Cardinality(Customer)
  BY <1>2, FS_Subset DEF OnePage
<1>4. Cardinality(Before) \in Nat /\ Cardinality(Customer) \in Nat /\ Cardinality(Before) # 0
  BY <1>2, <1>3, FS_CardinalityType, FS_EmptySet DEF OnePage
<1>5. Rank(c) = Cardinality(Before)
  BY DEF Rank
<1>6. Rank(c) \in 1 .. PageSize
  BY <1>3, <1>4, <1>5, DeskAssumption DEF OnePage
<1> QED BY <1>6, DeskAssumption DEF Page

\* What the first page does not show of a customer proven on the lists that are loaded is not there.
LEMMA FirstPageAbsolves ==
  ASSUME OnePage, DeskTypes, StoreTrue, ReadsTrue,
         task["page"].at = "paging", task["page"].offset = 0, NEW c \in Customer
  PROVE  (\E p \in Read : p[1] = c) \/ Absolved(c)
<1> SUFFICES ASSUME Proven(c), ~\E p \in Read : p[1] = c
             PROVE  ~Matched(c, desk.list[c].name, engine)
  BY DEF Absolved
<1>1. row[c] # NoRow /\ row[c].name = desk.list[c].name /\ row[c].proof = engine /\ engine # 0
  BY DEF ReadsTrue, Proven
<1>2. c \notin Page
  <2> SUFFICES ASSUME c \in Page PROVE FALSE
    OBVIOUS
  <2>1. <<c, row[c].match>> \in Read
    BY DEF Read
  <2> QED BY <2>1
<1>3. row[c].match = "none"
  BY <1>1, <1>2, FirstPageHoldsAll DEF Board, Here
<1> QED BY <1>1, <1>3 DEF StoreTrue, RowTrue

\* A further page shows nothing new: what was shown before still is.
LEMMA PagesAbsolve ==
  ASSUME OnePage, DeskTypes, StoreTrue, ReadsTrue, task["page"].at = "paging", NEW c \in Customer
  PROVE  (\E p \in Read : p[1] = c) \/ Absolved(c)
<1>1. CASE task["page"].offset = 0
  BY <1>1, FirstPageAbsolves
<1>2. CASE task["page"].offset # 0
  BY <1>2 DEF ReadsTrue, Read
<1> QED BY <1>1, <1>2

\* A row reads clear only of a proof on the version the page read, and without a match shown.
LEMMA ClearNeeds ==
  ASSUME DeskTypes', NEW c \in Customer, Claim(c)' = "clear"
  PROVE  /\ desk'.sums # Unread /\ c \notin DOMAIN desk'.sums
         /\ desk'.version # 0 /\ desk'.list[c].proof = desk'.version
<1>1. desk'.sums # Unread /\ Summary(c)' = "clear"
      /\ desk'.version # 0 /\ desk'.list[c].proof = desk'.version
  BY DEF Claim
<1>2. desk'.sums \in Summaries
  BY <1>1 DEF DeskTypes, Desks, Sums
<1>3. \A d \in DOMAIN desk'.sums : desk'.sums[d] \in Standings
  BY <1>2 DEF Summaries
<1>4. c \notin DOMAIN desk'.sums
  BY <1>1, <1>3 DEF Summary, Standings
<1> QED BY <1>1, <1>4

\* Steps of others while the page reads, and of the page's other handlers while it does not.
LEMMA ReadsKept ==
  ASSUME DeskTypes, ReadsTrue, UNCHANGED desk, engine' \in Nat, engine <= engine',
         \/ task'["page"] = task["page"]
         \/ /\ task["page"].at \notin {"listing", "paging", "refreshing"}
            /\ task'["page"].at \notin {"listing", "paging", "refreshing"},
         task'["page"].at = "paging" =>
           \A c \in Customer : row[c] # NoRow /\ row[c].proof = engine =>
             row'[c] # NoRow /\ row'[c].name = row[c].name /\ row'[c].proof = row[c].proof
  PROVE  ReadsTrue'
<1>1. engine \in Nat /\ \A c \in Listed : desk.list[c].proof \in Nat /\ desk.list[c].proof <= engine
  BY DEF DeskTypes, Desks, CustomerRows, Listed, ReadsTrue
<1>2. Listed' = Listed /\ \A c \in Listed : desk'.list[c].proof <= engine'
  BY <1>1 DEF Listed
<1>3. \A c \in Customer : Proven(c)' => Proven(c) /\ engine' = engine
  BY <1>1 DEF Proven, Listed
<1>4. \A c \in Customer : Absolved(c) => Absolved(c)'
  BY <1>3 DEF Absolved
<1>5. task'["page"].at = "paging" /\ task'["page"].offset = 0 =>
        \A c \in Customer : Proven(c)' =>
          row'[c] # NoRow /\ row'[c].name = desk'.list[c].name /\ row'[c].proof = engine'
  BY <1>3 DEF ReadsTrue
<1>6. task'["page"].at = "paging" /\ task'["page"].offset # 0 =>
        \A c \in Customer : (\E p \in task'["page"].read : p[1] = c) \/ Absolved(c)'
  BY <1>4 DEF ReadsTrue
<1>7. task'["page"].at = "refreshing" /\ desk'.sums # Unread =>
        \A c \in Customer : c \in DOMAIN desk'.sums \/ Absolved(c)'
  BY <1>4 DEF ReadsTrue
<1>8. task'["page"].at \notin {"paging", "refreshing"} =>
        \A c \in Listed : Claim(c)' = "clear" => ~Matched(c, desk'.list[c].name, desk'.version)
  BY DEF ReadsTrue, Claim, Summary
<1>9. task'["page"].at \in {"listing", "paging", "refreshing"} => desk'.loading
  BY DEF ReadsTrue
<1> QED BY <1>2, <1>5, <1>6, <1>7, <1>8, <1>9 DEF ReadsTrue

\* Nothing was listed yet.
LEMMA ReadsTrueInit == DeskInit => ReadsTrue
<1> SUFFICES ASSUME DeskInit PROVE ReadsTrue
  OBVIOUS
<1>1. Listed = {} /\ \A c \in Customer : ~Proven(c)
  BY DEF DeskInit, Listed, Proven
<1>2. task["page"].at = "listing" /\ desk.loading
  BY DEF DeskInit, Actors, NoTask
<1> QED BY <1>1, <1>2 DEF ReadsTrue


\* CustomerScreens and decisions: whom the page has listed as proven stays so.
LEMMA ScreensKeepReads ==
  ASSUME DeskTypes, DeskTypes', StoreTrue, ReadsTrue, NEW c \in Customer,
         \/ (\E a \in Actors : StartsScreen(a, c)) \/ StoresMatches(c) \/ MarksScreened(c) \/ ScreenLost(c)
         \/ \E to \in {"confirmed", "cleared"} : Decides(c, to)
  PROVE  ReadsTrue'
<1>1. engine \in Nat /\ UNCHANGED <<desk, engine>>
  BY DEF DeskTypes, StartsScreen, StoresMatches, MarksScreened, ScreenLost, Decides
<1>2. \A a \in Actors : task[a] \in Tasks
  BY DEF DeskTypes
<1>3. \/ task'["page"] = task["page"]
      \/ /\ task["page"].at \notin {"listing", "paging", "refreshing"}
         /\ task'["page"].at \notin {"listing", "paging", "refreshing"}
  <2>1. CASE \E a \in Actors : StartsScreen(a, c)
    <3>1. PICK a \in Actors : StartsScreen(a, c)
      BY <2>1
    <3>2. task'[a].at = "screening" /\ \A b \in Actors : b # a => task'[b] = task[b]
      BY <1>2, <3>1 DEF StartsScreen, DeskTypes, Tasks, TaskRecords
    <3> QED BY <3>1, <3>2 DEF StartsScreen, Actors
  <2>2. ASSUME task["page"].on = c PROVE task["page"].at = "screening"
    BY <1>2, <2>2, DeskAssumption DEF Tasks, Actors
  <2>3. CASE MarksScreened(c)
    <3>1. task'["page"] = IF task["page"].on # c THEN task["page"]
                          ELSE [task["page"] EXCEPT !.on = NoRow, !.left = @ \ {c}]
      BY <2>3 DEF MarksScreened, Ended, Actors
    <3>2. task'["page"].at = task["page"].at
      BY <1>2, <3>1 DEF Tasks, TaskRecords, Actors
    <3> QED BY <2>2, <3>1, <3>2
  <2>4. CASE ScreenLost(c)
    BY <2>2, <2>4, NewTasks DEF ScreenLost, Actors
  <2>5. CASE StoresMatches(c) \/ \E to \in {"confirmed", "cleared"} : Decides(c, to)
    BY <2>5 DEF StoresMatches, Decides
  <2> QED BY <2>1, <2>3, <2>4, <2>5
<1>4. \A d \in Customer : row[d] # NoRow /\ row[d].proof = engine =>
        row'[d] # NoRow /\ row'[d].name = row[d].name /\ row'[d].proof = row[d].proof
  <2>1. \A d \in Customer : d # c => row'[d] = row[d]
    BY DEF DeskTypes, StartsScreen, StoresMatches, MarksScreened, ScreenLost, Decides
  <2> SUFFICES ASSUME row[c] # NoRow, row[c].proof = engine
               PROVE  row'[c] # NoRow /\ row'[c].name = row[c].name /\ row'[c].proof = row[c].proof
    BY <2>1
  <2>2. row[c] \in CustomerRows /\ screen[c] \in CustomerScreens
    BY DEF DeskTypes
  <2>3. CASE UNCHANGED row
    BY <2>3
  <2>4. CASE StoresMatches(c) \/ \E to \in {"confirmed", "cleared"} : Decides(c, to)
    <3>1. row'[c] \in CustomerRows /\ row'[c].name = row[c].name /\ row'[c].proof = row[c].proof
      BY <2>2, <2>4 DEF StoresMatches, Decides, DeskTypes, CustomerRows, Standings
    <3> QED BY <3>1, DeskAssumption DEF CustomerRows, Standings
  <2>5. CASE MarksScreened(c)
    <3>1. row'[c] \in CustomerRows /\ row'[c].name = row[c].name /\ row'[c].proof = screen[c].version
      BY <2>2, <2>5 DEF MarksScreened, DeskTypes, CustomerRows, CustomerScreens
    <3>2. screen[c].version = engine
      <4>1. row[c].proof <= screen[c].version /\ screen[c].version \in 1..engine
        BY <2>5 DEF MarksScreened, StoreTrue, ScreenTrue
      <4> QED BY <1>1, <4>1
    <3> QED BY <3>1, <3>2, DeskAssumption DEF CustomerRows, Standings
  <2> QED BY <2>3, <2>4, <2>5 DEF StartsScreen, ScreenLost
<1> QED BY <1>1, <1>3, <1>4, ReadsKept

\* The page turns to its reads: what it shows is not touched but for the flag.
LEMMA ListingBegins ==
  ASSUME DeskTypes, ReadsTrue, task["page"].at \notin {"paging", "refreshing"},
         task'["page"].at = "listing", desk' = [desk EXCEPT !.loading = TRUE], UNCHANGED engine
  PROVE  ReadsTrue'
<1>1. /\ desk'.loading /\ desk'.list = desk.list /\ desk'.sums = desk.sums
      /\ desk'.version = desk.version /\ desk'.failed = desk.failed
  BY DEF DeskTypes, Desks
<1>2. Listed' = Listed /\ \A c \in Listed : Claim(c)' = Claim(c)
  BY <1>1 DEF Listed, Claim, Summary
<1> QED BY <1>1, <1>2 DEF ReadsTrue

\* A handler of the page runs while it does not read; the poll leaves what the page read.
LEMMA HandlersKeepReads ==
  ASSUME DeskTypes, DeskTypes', StoreTrue, ReadsTrue,
         \/ ScreensUnscreened \/ \E a \in Actors : ChecksForUpdates(a) \/ Reloads(a) \/ Fails(a) \/ AllScreened(a)
         \/ \E c \in Customer : Deletes(c) \/ \E n \in Names : Onboards(c, n) \/ Edits(c, n)
         \/ \E S \in SUBSET Customer : \E n \in Names : Imports(S, n)
  PROVE  ReadsTrue'
<1> DEFINE Quiet == \/ task'["page"] = task["page"]
                    \/ /\ task["page"].at \notin {"listing", "paging", "refreshing"}
                       /\ task'["page"].at \notin {"listing", "paging", "refreshing"}
<1>1. engine \in Nat /\ engine' \in Nat /\ engine <= published /\ "page" \in Actors
  BY DEF DeskTypes, Actors
<1>2. \A a \in Actors : task[a] \in Tasks
  BY DEF DeskTypes
<1>3. ASSUME NEW S \in SUBSET Customer, Starts("page", Screening(S)), UNCHANGED <<desk, engine>>
      PROVE  ReadsTrue'
  <2>1. task["page"].at = "idle" /\ task'["page"].at = "screening"
    BY <1>1, <1>3, NewTasks, StartedTypes
  <2> QED BY <1>1, <1>3, <2>1, ReadsKept
<1>4. CASE ScreensUnscreened
  <2>1. Unscreened \in SUBSET Customer
    BY DEF Unscreened, Listed
  <2> QED BY <1>3, <1>4, <2>1 DEF ScreensUnscreened
<1>5. ASSUME NEW c \in Customer, NEW n \in Names, Onboards(c, n) \/ Edits(c, n) PROVE ReadsTrue'
  BY <1>3, <1>5 DEF Onboards, Edits
<1>6. ASSUME NEW S \in SUBSET Customer, NEW n \in Names, Imports(S, n) PROVE ReadsTrue'
  <2>1. Here \cup S \in SUBSET Customer
    BY DEF Here
  <2> QED BY <1>3, <1>6, <2>1 DEF Imports
<1>7. ASSUME NEW c \in Customer, Deletes(c) PROVE ReadsTrue'
  <2>1. task["page"].at = "idle" /\ task'["page"].at = "listing"
    BY <1>1, <1>7, NewTasks, StartedTypes DEF Deletes, Listing, NoTask
  <2> QED BY <1>7, <2>1, ListingBegins DEF Deletes
<1>8. ASSUME NEW a \in Actors, ChecksForUpdates(a) \/ Reloads(a) \/ Fails(a) \/ (AllScreened(a) /\ a # "page")
      PROVE  ReadsTrue'
  <2>1. engine <= engine' /\ UNCHANGED <<desk, row>>
    BY <1>1, <1>8 DEF ChecksForUpdates, Reloads, Fails, AllScreened
  <2>2. Quiet
    <3>1. CASE a # "page"
      BY <1>1, <1>8, <3>1 DEF ChecksForUpdates, Reloads, Fails, AllScreened, Starts, DeskTypes
    <3>2. CASE a = "page"
      <4>1. Here \in SUBSET Customer
        BY DEF Here
      <4>2. \A S \in SUBSET Customer : Screening(S).at = "screening"
        BY NewTasks
      <4>3. NoTask.at = "idle" /\ [NoTask EXCEPT !.at = "reloading"].at = "reloading"
        BY NewTasks
      <4> QED BY <1>1, <1>8, <3>2, <4>1, <4>2, <4>3 DEF ChecksForUpdates, Reloads, Fails, Starts, DeskTypes
    <3> QED BY <3>1, <3>2
  <2> QED BY <1>1, <2>1, <2>2, ReadsKept
<1>9. CASE AllScreened("page")
  <2>1. task["page"].at = "screening" /\ task'["page"].at = "listing"
    BY <1>1, <1>9 DEF AllScreened, NoTask, DeskTypes
  <2> QED BY <1>9, <2>1, ListingBegins DEF AllScreened
<1> QED BY <1>4, <1>5, <1>6, <1>7, <1>8, <1>9

\* The boot of the engine: all proofs are of an earlier boot, so none is of the version read.
LEMMA BootsKeepReads ==
  ASSUME DeskTypes, ReadsTrue, Boots \/ BootFails
  PROVE  ReadsTrue'
<1>1. /\ engine = 0 /\ engine' \in Nat /\ engine <= engine' /\ UNCHANGED task
      /\ engine' # engine => engine' # 0
  BY DEF Boots, BootFails, DeskTypes
<1>2. /\ desk'.list = desk.list /\ desk'.sums = desk.sums /\ desk'.loading = desk.loading
      /\ desk'.version = IF Boots THEN published ELSE desk.version
  BY DEF Boots, BootFails, DeskTypes, Desks
<1>3. Listed' = Listed /\ \A c \in Listed : desk.list[c].proof = 0
  BY <1>1, <1>2 DEF Listed, ReadsTrue, DeskTypes, Desks, CustomerRows
<1>4. \A c \in Customer : ~Proven(c)'
  BY <1>1, <1>2, <1>3 DEF Proven, Listed
<1>5. \A c \in Listed : Claim(c)' # "clear"
  <2> SUFFICES ASSUME NEW c \in Listed, Claim(c)' = "clear" PROVE FALSE
    OBVIOUS
  <2>1. desk'.version # 0 /\ desk'.list[c].proof = desk'.version
    BY DEF Claim, Summary
  <2> QED BY <1>2, <1>3, <2>1
<1> QED BY <1>1, <1>2, <1>3, <1>4, <1>5 DEF ReadsTrue, Absolved

\* The page's own reads, one after the other.
LEMMA PageKeepsReads ==
  ASSUME OnePage, DeskTypes, DeskTypes', StoreTrue, ReadsTrue,
         ListsCustomers \/ ReadsPage \/ ReadsLastPage \/ ReadFails \/ ReadsVersion \/ ListFails
  PROVE  ReadsTrue'
<1>1. /\ engine \in Nat /\ UNCHANGED <<row, engine, screen>> /\ desk \in Desks
      /\ "page" \in Actors /\ task["page"] \in Tasks
  BY DEF ListsCustomers, ReadsPage, ReadsLastPage, ReadFails, ReadsVersion, ListFails, DeskTypes, Actors
<1>2. CASE ListsCustomers
  <2>1. desk'.list = row /\ desk'.loading = desk.loading /\ desk.loading
    BY <1>1, <1>2 DEF ListsCustomers, Desks, ReadsTrue
  <2>2. task'["page"].at = "paging" /\ task'["page"].offset = 0
    BY <1>1, <1>2 DEF ListsCustomers, NoTask, DeskTypes
  <2>3. \A c \in Listed' : desk'.list[c].proof <= engine
    BY <2>1 DEF Listed, StoreTrue, RowTrue
  <2>4. \A c \in Customer : Proven(c)' => row'[c] # NoRow /\ row'[c].proof = engine'
    BY <1>1, <2>1 DEF Proven
  <2> QED BY <1>1, <2>1, <2>2, <2>3, <2>4 DEF ReadsTrue
<1>3. CASE ReadsPage
  <2>1. /\ task["page"].at = "paging" /\ UNCHANGED desk
        /\ task'["page"] = [task["page"] EXCEPT !.offset = @ + PageSize, !.read = Read]
    BY <1>1, <1>3 DEF ReadsPage, DeskTypes
  <2>2. task'["page"].at = "paging" /\ task'["page"].read = Read /\ task'["page"].offset # 0
    BY <1>1, <2>1, DeskAssumption DEF Tasks, TaskRecords
  <2>3. \A c \in Customer : (\E p \in task'["page"].read : p[1] = c) \/ Absolved(c)
    BY <2>1, <2>2, PagesAbsolve
  <2>4. \A c \in Customer : Absolved(c)' <=> Absolved(c)
    BY <1>1, <2>1 DEF Absolved, Proven
  <2>5. Listed' = Listed /\ \A c \in Listed : desk'.list[c].proof <= engine'
    BY <1>1, <2>1 DEF Listed, ReadsTrue
  <2> QED BY <2>1, <2>2, <2>3, <2>4, <2>5 DEF ReadsTrue
<1>4. CASE ReadsLastPage \/ ReadFails
  <2>1. task["page"].at = "paging" /\ task'["page"].at = "refreshing"
    BY <1>1, <1>4 DEF ReadsLastPage, ReadFails, NoTask, DeskTypes
  <2>2. /\ desk'.list = desk.list /\ desk'.loading = desk.loading /\ desk.loading
        /\ desk'.sums = IF ReadsLastPage THEN SumsOf(Read) ELSE Unread
    BY <1>1, <1>4, <2>1 DEF ReadsLastPage, ReadFails, Desks, ReadsTrue
  <2>3. \A c \in Customer : Absolved(c)' <=> Absolved(c)
    BY <1>1, <2>2 DEF Absolved, Proven
  <2>4. desk'.sums # Unread => \A c \in Customer : c \in DOMAIN desk'.sums \/ Absolved(c)'
    BY <2>1, <2>2, <2>3, PagesAbsolve, ReadTypes
  <2>5. Listed' = Listed /\ \A c \in Listed : desk'.list[c].proof <= engine'
    BY <1>1, <2>2 DEF Listed, ReadsTrue
  <2> QED BY <2>1, <2>2, <2>4, <2>5 DEF ReadsTrue
<1>5. CASE ReadsVersion
  <2>1. task["page"].at = "refreshing" /\ task'["page"].at = "idle"
    BY <1>1, <1>5 DEF ReadsVersion, NoTask, DeskTypes
  <2>2. desk'.list = desk.list /\ desk'.sums = desk.sums /\ desk'.version = engine
    BY <1>1, <1>5 DEF ReadsVersion, Desks
  <2>3. Listed' = Listed /\ \A c \in Listed : desk'.list[c].proof <= engine'
    BY <1>1, <2>2 DEF Listed, ReadsTrue
  <2>4. ASSUME NEW c \in Listed, Claim(c)' = "clear"
        PROVE  ~Matched(c, desk'.list[c].name, desk'.version)
    <3>1. /\ desk'.sums # Unread /\ c \notin DOMAIN desk'.sums
          /\ desk'.version # 0 /\ desk'.list[c].proof = desk'.version
      BY <2>4, ClearNeeds DEF Listed
    <3>2. Proven(c) /\ Absolved(c)
      BY <2>1, <2>2, <3>1 DEF Proven, Listed, ReadsTrue
    <3> QED BY <2>2, <3>2 DEF Absolved
  <2> QED BY <2>1, <2>3, <2>4 DEF ReadsTrue
<1>6. CASE ListFails
  <2>1. task["page"].at = "listing" /\ task'["page"].at = "idle"
    BY <1>1, <1>6 DEF ListFails, NoTask, DeskTypes
  <2>2. /\ desk'.list = desk.list /\ desk'.sums = desk.sums
        /\ desk'.version = desk.version /\ desk'.failed = desk.failed
    BY <1>1, <1>6 DEF ListFails, Desks
  <2>3. Listed' = Listed /\ \A c \in Listed : Claim(c)' = Claim(c)
    BY <2>2 DEF Listed, Claim, Summary
  <2> QED BY <1>1, <2>1, <2>2, <2>3 DEF ReadsTrue
<1> QED BY <1>2, <1>3, <1>4, <1>5, <1>6

\* So what the page read stays true.
LEMMA ReadsTrueNext ==
  ASSUME OnePage, DeskTypes, DeskTypes', StoreTrue, ReadsTrue, [DeskNext]_deskVars
  PROVE  ReadsTrue'
<1>1. engine \in Nat
  BY DEF DeskTypes
<1>2. CASE PublishesList \/ UNCHANGED deskVars
  BY <1>1, <1>2, ReadsKept DEF PublishesList, deskVars
<1> QED BY <1>2, ScreensKeepReads, HandlersKeepReads, BootsKeepReads, PageKeepsReads DEF DeskNext

DeskTruth == DeskTypes /\ StoreTrue /\ ReadsTrue

\* The invariant.
LEMMA DeskTruthHolds ==
  ASSUME OnePage
  PROVE  DeskSpec => []DeskTruth
<1>1. DeskInit => DeskTruth
  BY DeskTypesInit, StoreTrueInit, ReadsTrueInit DEF DeskTruth
<1>2. DeskTruth /\ [DeskNext]_deskVars => DeskTruth'
  BY DeskTypesNext, StoreTrueNext, ReadsTrueNext DEF DeskTruth
<1> QED BY <1>1, <1>2, PTL DEF DeskSpec

\* The customers, their proofs and the flags stay what they are declared to be.
THEOREM DeskTypeCorrect == DeskSpec => []DeskTypeOK
<1>1. DeskInit => DeskTypes /\ StoreTrue
  BY DeskTypesInit, StoreTrueInit
<1>2. DeskTypes /\ StoreTrue /\ [DeskNext]_deskVars => (DeskTypes /\ StoreTrue)'
  BY DeskTypesNext, StoreTrueNext
<1>3. DeskTypes /\ StoreTrue => DeskTypeOK
  <2> SUFFICES ASSUME DeskTypes, StoreTrue PROVE DeskTypeOK
    OBVIOUS
  <2>1. {published, engine, desk.version} \subseteq 0..MaxVersion
    BY DeskAssumption DEF DeskTypes
  <2>2. \A c \in Here : row[c].proof \in 0..engine
    BY DEF Here, DeskTypes, CustomerRows, StoreTrue, RowTrue
  <2>3. spent.tasks \in 0..MaxTasks /\ spent.decisions \in 0..MaxDecisions
    BY DEF DeskTypes
  <2>4. {desk.failed, desk.loading} \subseteq BOOLEAN
    BY DEF DeskTypes, Desks
  <2> QED BY <2>1, <2>2, <2>3, <2>4 DEF DeskTypeOK
<1> QED BY <1>1, <1>2, <1>3, PTL DEF DeskSpec

\* As long as the board fits on the page it is first read by, a row says "No matches" only of a
\* customer whose identity does not match the lists it names, whatever is screened, decided and
\* reloaded between the three reads (customerScreening.ts:20-24).
THEOREM NoMatchesIsTrue ==
  ASSUME OnePage
  PROVE  DeskSpec => []ClearIsTrue
<1>1. DeskTruth => ClearIsTrue
  BY DEF DeskTruth, ReadsTrue, ClearIsTrue
<1> QED BY <1>1, DeskTruthHolds, PTL

-----------------------------------------------------------------------------
(* Customers from and to a spreadsheet.                                      *)

\* The files that are read, the previews of them, and the page.
SheetFiles == [readable : BOOLEAN, rows : Seq(FileRow)]
Previews == {Preview(file, known) : file \in SheetFiles, known \in SUBSET Reference}
Sheets ==
  [mount : 1..MaxPages, listed : SUBSET Reference, due : BOOLEAN,
   preview : {NoPreview} \cup Previews, busy : BOOLEAN]
Picked ==
  [at : {"none", "reading", "ended"}, file : SheetFiles, known : SUBSET Reference,
   mount : 0..MaxPages]
Places == {S \in SUBSET Nat : IsFiniteSet(S)}
ImportRows == UNION {[S -> Reference] : S \in Places}
ImportRecords ==
  [at : {"none", "sent", "refused", "committed", "imported"}, rows : ImportRows,
   known : SUBSET Reference, mount : 0..MaxPages, clash : SUBSET Reference]

TransferTypes ==
  /\ onFile \in SUBSET Reference /\ IsFiniteSet(onFile)
  /\ sheet \in Sheets /\ IsFiniteSet(sheet.listed)
  /\ pick \in [1..MaxPicks -> Picked]
  /\ import \in [1..MaxImports -> ImportRecords]
  /\ exported \subseteq SheetFiles
  /\ others \in 0..MaxOthers

\* An import brings none of the references its preview knew, none twice, and meets none but a
\* newcomer.
Brings(r) ==
  r.at # "none" =>
    /\ Keys(Range(r.rows)) \cap Keys(r.known) = {}
    /\ IsInjective([n \in DOMAIN r.rows |-> KeyOf(r.rows[n])])
    /\ r.at = "refused" => r.clash \ r.known # {}

TransferInv == TransferTypes /\ \A i \in 1..MaxImports : Brings(import[i])

-----------------------------------------------------------------------------
(* What a file becomes.                                                      *)

\* Of two numbers the least is one of them and at most the first.
LEMMA LeastOfTwo ==
  ASSUME NEW a \in Nat, NEW b \in Nat
  PROVE  Min({a, b}) \in Nat /\ Min({a, b}) <= a
<1>1. PICK m \in {a, b} : \A y \in {a, b} : m <= y
  <2>1. CASE a <= b
    BY <2>1
  <2>2. CASE ~(a <= b)
    BY <2>2
  <2> QED BY <2>1, <2>2
<1>2. Min({a, b}) \in {a, b} /\ \A y \in {a, b} : Min({a, b}) <= y
  BY <1>1 DEF Min
<1> QED BY <1>2

\* What is read of a file are rows of it.
LEMMA CutRows == ASSUME NEW file \in SheetFiles PROVE Cut(file) \in Seq(FileRow)
<1> DEFINE rows == file.rows
           m == Min({Len(rows), MaxRows + 1})
<1>1. rows \in Seq(FileRow)
  BY DEF SheetFiles
<1> HIDE DEF rows
<1>2. m \in Nat /\ m <= Len(rows)
  BY <1>1, LeastOfTwo, TransferAssumption
<1> HIDE DEF m
<1>3. SubSeq(rows, 1, m) \in Seq(FileRow)
  BY <1>1, <1>2
<1> QED BY <1>3 DEF Cut, m, rows

\* Every row is on one part of the preview.
LEMMA PreviewParts ==
  ASSUME NEW file \in SheetFiles, NEW known
  PROVE  LET v == Preview(file, known)
             blank == RowsThat(v.rows, "blank")
         IN /\ v.accepted \cup v.duplicates \cup v.errors \cup blank = DOMAIN v.rows
            /\ v.accepted \cap v.duplicates = {} /\ v.accepted \cap v.errors = {}
            /\ v.accepted \cap blank = {} /\ v.duplicates \cap v.errors = {}
            /\ v.duplicates \cap blank = {} /\ v.errors \cap blank = {}
<1> DEFINE rows == Cut(file)
<1>1. rows \in Seq(FileRow)
  BY CutRows
<1> HIDE DEF rows
<1>2. \A n \in DOMAIN rows : rows[n].kind \in {"customer", "wrong", "blank"}
  <2>1. \A n \in DOMAIN rows : rows[n] \in FileRow
    BY <1>1
  <2>2. \A r \in FileRow : r.kind \in {"customer", "wrong", "blank"}
    BY DEF FileRow
  <2> QED BY <2>1, <2>2
<1>3. Accepted(rows, known) \subseteq RowsThat(rows, "customer")
  BY DEF Accepted
<1> DEFINE v == Preview(file, known)
<1>4. /\ v.rows = rows /\ v.accepted = Accepted(rows, known)
      /\ v.duplicates = RowsThat(rows, "customer") \ Accepted(rows, known)
      /\ v.errors = RowsThat(rows, "wrong")
  BY DEF Preview, rows
<1> HIDE DEF v
<1>5. DOMAIN rows = RowsThat(rows, "customer") \cup RowsThat(rows, "wrong") \cup RowsThat(rows, "blank")
  BY <1>2 DEF RowsThat
<1>6. /\ RowsThat(rows, "customer") \cap RowsThat(rows, "wrong") = {}
      /\ RowsThat(rows, "customer") \cap RowsThat(rows, "blank") = {}
      /\ RowsThat(rows, "wrong") \cap RowsThat(rows, "blank") = {}
  BY DEF RowsThat
<1>7. LET blank == RowsThat(v.rows, "blank")
      IN /\ v.accepted \cup v.duplicates \cup v.errors \cup blank = DOMAIN v.rows
         /\ v.accepted \cap v.duplicates = {} /\ v.accepted \cap v.errors = {}
         /\ v.accepted \cap blank = {} /\ v.duplicates \cap v.errors = {}
         /\ v.duplicates \cap blank = {} /\ v.errors \cap blank = {}
  BY <1>3, <1>4, <1>5, <1>6
<1> QED BY <1>7 DEF v

\* What is accepted are customers of references that are not known, each once.
LEMMA AcceptedRefs ==
  ASSUME NEW file \in SheetFiles, NEW known \in SUBSET Reference
  PROVE  LET v == Preview(file, known)
         IN /\ v.known = known /\ v.accepted \in Places
            /\ \A n \in v.accepted : /\ v.rows[n].ref \in Reference
                                     /\ KeyOf(v.rows[n].ref) \notin Keys(known)
            /\ \A m, n \in v.accepted :
                 KeyOf(v.rows[m].ref) = KeyOf(v.rows[n].ref) => m = n
<1> DEFINE rows == Cut(file)
<1>1. rows \in Seq(FileRow)
  BY CutRows
<1> HIDE DEF rows
<1>2. \A n \in DOMAIN rows : n \in Nat /\ rows[n] \in FileRow
  BY <1>1
<1>3. \A r \in FileRow : r.kind = "customer" => r.ref \in Reference
  BY DEF FileRow
<1> DEFINE v == Preview(file, known)
<1>4. v.rows = rows /\ v.accepted = Accepted(rows, known) /\ v.known = known
  BY DEF Preview, rows
<1> HIDE DEF v
<1>5. \A n \in v.accepted :
        n \in DOMAIN rows /\ rows[n].kind = "customer" /\ KeyOf(rows[n].ref) \notin Keys(known)
  BY <1>4 DEF Accepted, RowsThat, KeyAt
<1>6. ASSUME NEW m \in v.accepted, NEW n \in v.accepted, KeyOf(rows[m].ref) = KeyOf(rows[n].ref)
      PROVE  m = n
  <2>1. m \in RowsThat(rows, "customer") /\ n \in RowsThat(rows, "customer")
    BY <1>4 DEF Accepted
  <2>2. ~(m < n) /\ ~(n < m)
    BY <1>4, <1>6, <2>1 DEF Accepted, KeyAt
  <2>3. m \in Nat /\ n \in Nat
    BY <1>2, <1>5
  <2> QED BY <2>2, <2>3
<1>7. \A n \in v.accepted : n \in Nat /\ rows[n].ref \in Reference
  BY <1>2, <1>3, <1>5
<1>8. v.accepted \in Places
  <2>1. DOMAIN rows = 1..Len(rows) /\ Len(rows) \in Nat
    BY <1>1
  <2>2. IsFiniteSet(1..Len(rows))
    BY <2>1, FS_Interval
  <2>3. v.accepted \subseteq 1..Len(rows)
    BY <1>5, <2>1
  <2>4. IsFiniteSet(v.accepted)
    BY <2>2, <2>3, FS_Subset
  <2> QED BY <1>7, <2>4 DEF Places
<1>9. /\ v.known = known /\ v.accepted \in Places
      /\ \A n \in v.accepted : v.rows[n].ref \in Reference /\ KeyOf(v.rows[n].ref) \notin Keys(known)
      /\ \A m, n \in v.accepted : KeyOf(v.rows[m].ref) = KeyOf(v.rows[n].ref) => m = n
  BY <1>4, <1>5, <1>6, <1>7, <1>8
<1> QED BY <1>9 DEF v

\* An export is a file: a finite set has a sequence of its members.
LEMMA ExportIsAFile ==
  ASSUME NEW refs \in SUBSET Reference, IsFiniteSet(refs) PROVE FileOf(refs) \in SheetFiles
<1> DEFINE S == {RowOf(r) : r \in refs}
           n == Cardinality(S)
<1>1. S \subseteq FileRow
  <2>1. ASSUME NEW r \in refs PROVE RowOf(r) \in FileRow
    <3>1. SafeOf(r) \in Reference
      BY TransferAssumption
    <3>2. RowOf(r) \in [kind : {"customer"}, ref : Reference]
      BY <3>1 DEF RowOf
    <3> QED BY <3>2 DEF FileRow
  <2> QED BY <2>1
<1>2. IsFiniteSet(S)
  <2> DEFINE f == [r \in refs |-> RowOf(r)]
  <2>1. f \in Surjection(refs, S)
    <3>1. f \in [refs -> S] /\ \A s \in S : \E r \in refs : f[r] = s
      OBVIOUS
    <3> QED BY <3>1 DEF Surjection
  <2> HIDE DEF f
  <2> QED BY <2>1, FS_Surjection
<1> HIDE DEF S
<1>3. n \in Nat /\ \E f \in [1..n -> S] : IsInjective(f)
  <2>1. n \in Nat /\ ExistsBijection(1..n, S)
    BY <1>2, FS_CardinalityType
  <2>2. PICK f : f \in Bijection(1..n, S)
    BY <2>1 DEF ExistsBijection
  <2> QED BY <2>1, <2>2 DEF Bijection, Injection
<1>4. SetToSeq(S) \in [1..n -> S]
  BY <1>3 DEF SetToSeq
<1>5. SetToSeq(S) \in Seq(FileRow)
  BY <1>1, <1>3, <1>4
<1> QED BY <1>5 DEF FileOf, S, SheetFiles

-----------------------------------------------------------------------------
(* Every step keeps the invariant.                                           *)

\* A file that was not picked, an import that was not confirmed.
LEMMA TransferStart == ASSUME TransferInit PROVE TransferInv
<1>1. onFile \in SUBSET Reference /\ IsFiniteSet(onFile)
  <2>1. CASE onFile = {}
    BY <2>1, FS_EmptySet
  <2>2. ASSUME NEW r \in Reference, onFile = {r} PROVE onFile \subseteq Reference /\ IsFiniteSet(onFile)
    BY <2>2, FS_Singleton
  <2> QED BY <2>1, <2>2 DEF TransferInit
<1>2. sheet \in Sheets /\ IsFiniteSet(sheet.listed)
  BY TransferAssumption, FS_EmptySet DEF TransferInit, NewPage, Sheets
<1>3. NoPick \in Picked
  <2>1. NoFile \in SheetFiles
    <3>1. <<>> \in Seq(FileRow)
      OBVIOUS
    <3> QED BY <3>1 DEF NoFile, SheetFiles
  <2> QED BY <2>1, TransferAssumption DEF NoPick, Picked
<1>4. NoImport \in ImportRecords
  <2>1. <<>> \in ImportRows
    <3>1. <<>> \in [{} -> Reference] /\ {} \in Places
      BY FS_EmptySet DEF Places
    <3> QED BY <3>1 DEF ImportRows
  <2> QED BY <2>1, TransferAssumption DEF NoImport, ImportRecords
<1>5. pick \in [1..MaxPicks -> Picked] /\ import \in [1..MaxImports -> ImportRecords]
  BY <1>3, <1>4 DEF TransferInit
<1>6. TransferTypes
  BY <1>1, <1>2, <1>5, TransferAssumption DEF TransferInit, TransferTypes
<1>7. \A i \in 1..MaxImports : Brings(import[i])
  BY DEF TransferInit, NoImport, Brings
<1> QED BY <1>6, <1>7 DEF TransferInv

\* What a handler sets on the page is a page, if what it sets is one.
LEMMA SetsAPage ==
  ASSUME TransferTypes, NEW mount, NEW to \in Sheets, IsFiniteSet(to.listed), Sets(mount, to)
  PROVE  sheet' \in Sheets /\ IsFiniteSet(sheet'.listed)
BY DEF TransferTypes, Sets

\* A preview may be shown, or closed.
LEMMA ShowsPreview ==
  ASSUME TransferTypes, NEW v \in {NoPreview} \cup Previews
  PROVE  [sheet EXCEPT !.preview = v] \in Sheets /\ [sheet EXCEPT !.preview = v].listed = sheet.listed
BY DEF TransferTypes, Sheets

\* A pick keeps its kind.
LEMMA PickEnds ==
  ASSUME TransferTypes, NEW p \in 1..MaxPicks,
         pick' = [pick EXCEPT ![p] = [NoPick EXCEPT !.at = "ended"]]
  PROVE  pick' \in [1..MaxPicks -> Picked]
<1>1. [NoPick EXCEPT !.at = "ended"] \in Picked
  <2>1. NoFile \in SheetFiles
    <3>1. <<>> \in Seq(FileRow)
      OBVIOUS
    <3> QED BY <3>1 DEF NoFile, SheetFiles
  <2> QED BY <2>1, TransferAssumption DEF NoPick, Picked
<1> QED BY <1>1 DEF TransferTypes

\* Reading a file changes nothing that was confirmed.
LEMMA ReadingKeeps ==
  ASSUME TransferInv, NEW p \in 1..MaxPicks,
         \/ ReadsFile(p) \/ ReadFileFails(p)
         \/ \E file \in Files \cup exported : Picks(p, file)
  PROVE  TransferInv'
<1> USE DEF TransferInv
<1>1. UNCHANGED <<onFile, import, exported, others>>
  BY DEF ReadsFile, ReadFileFails, Picks
<1>2. sheet' \in Sheets /\ IsFiniteSet(sheet'.listed)
  <2>1. CASE ReadsFile(p)
    <3> DEFINE v == Preview(pick[p].file, pick[p].known)
    <3>1. v \in Previews
      <4>1. pick[p].file \in SheetFiles /\ pick[p].known \in SUBSET Reference
        BY DEF TransferTypes, Picked
      <4> QED BY <4>1 DEF Previews
    <3>2. Sets(pick[p].mount, [sheet EXCEPT !.preview = v])
      BY <2>1 DEF ReadsFile
    <3> HIDE DEF v
    <3>3. [sheet EXCEPT !.preview = v] \in Sheets /\ [sheet EXCEPT !.preview = v].listed = sheet.listed
      BY <3>1, ShowsPreview
    <3>4. IsFiniteSet(sheet.listed)
      BY DEF TransferTypes
    <3> QED BY <3>2, <3>3, <3>4, SetsAPage
  <2>2. CASE ReadFileFails(p)
    <3>1. Sets(pick[p].mount, [sheet EXCEPT !.preview = NoPreview])
      BY <2>2 DEF ReadFileFails
    <3>2. /\ [sheet EXCEPT !.preview = NoPreview] \in Sheets
          /\ [sheet EXCEPT !.preview = NoPreview].listed = sheet.listed
      BY ShowsPreview
    <3>3. IsFiniteSet(sheet.listed)
      BY DEF TransferTypes
    <3> QED BY <3>1, <3>2, <3>3, SetsAPage
  <2>3. ASSUME NEW file, Picks(p, file) PROVE sheet' \in Sheets /\ IsFiniteSet(sheet'.listed)
    BY <2>3 DEF Picks, TransferTypes
  <2> QED BY <2>1, <2>2, <2>3
<1>3. pick' \in [1..MaxPicks -> Picked]
  <2>1. CASE ReadsFile(p) \/ ReadFileFails(p)
    BY <2>1, PickEnds DEF ReadsFile, ReadFileFails
  <2>2. ASSUME NEW file \in Files \cup exported, Picks(p, file) PROVE pick' \in [1..MaxPicks -> Picked]
    <3> DEFINE r == [at |-> "reading", file |-> file, known |-> sheet.listed, mount |-> sheet.mount]
    <3>1. file \in SheetFiles
      BY TransferAssumption DEF TransferTypes, SheetFiles
    <3>2. sheet.listed \in SUBSET Reference /\ sheet.mount \in 0..MaxPages
      BY TransferAssumption DEF TransferTypes, Sheets
    <3>3. r \in Picked
      BY <3>1, <3>2 DEF Picked
    <3>4. pick' = [pick EXCEPT ![p] = r]
      BY <2>2 DEF Picks
    <3> HIDE DEF r
    <3> QED BY <3>3, <3>4 DEF TransferTypes
  <2> QED BY <2>1, <2>2
<1>4. TransferTypes'
  BY <1>1, <1>2, <1>3 DEF TransferTypes
<1>5. (\A i \in 1..MaxImports : Brings(import[i]))'
  BY <1>1
<1> QED BY <1>4, <1>5

\* What is confirmed is what is shown.
LEMMA ConfirmsKeeps ==
  ASSUME TransferInv, NEW i \in 1..MaxImports, Confirms(i) PROVE TransferInv'
<1> USE DEF TransferInv
<1> DEFINE v == sheet.preview
           rows == [n \in v.accepted |-> v.rows[n].ref]
           r == [at |-> "sent", rows |-> rows, known |-> v.known, mount |-> sheet.mount, clash |-> {}]
<1>1. PICK file \in SheetFiles, known \in SUBSET Reference : v = Preview(file, known)
  BY DEF Confirms, TransferTypes, Sheets, Previews
<1>2. /\ v.known = known /\ v.accepted \in Places
      /\ \A n \in v.accepted : v.rows[n].ref \in Reference /\ KeyOf(v.rows[n].ref) \notin Keys(known)
      /\ \A m, n \in v.accepted : KeyOf(v.rows[m].ref) = KeyOf(v.rows[n].ref) => m = n
  BY <1>1, AcceptedRefs
<1>3. import' = [import EXCEPT ![i] = r] /\ sheet' = [sheet EXCEPT !.busy = TRUE]
  BY DEF Confirms
<1>4. UNCHANGED <<onFile, pick, exported, others>>
  BY DEF Confirms
<1> HIDE DEF v
<1>5. rows \in ImportRows /\ DOMAIN rows = v.accepted
  BY <1>2 DEF ImportRows
<1>6. Keys(Range(rows)) \cap Keys(known) = {}
  <2>1. \A x \in Range(rows) : KeyOf(x) \notin Keys(known)
    BY <1>2 DEF Range
  <2> HIDE DEF rows
  <2> QED BY <2>1 DEF Keys
<1>7. IsInjective([n \in DOMAIN rows |-> KeyOf(rows[n])])
  BY <1>2 DEF IsInjective
<1> HIDE DEF rows
<1>8. r \in ImportRecords
  <2>1. sheet.mount \in 0..MaxPages
    BY TransferAssumption DEF TransferTypes, Sheets
  <2> QED BY <1>2, <1>5, <2>1 DEF ImportRecords
<1>9. Brings(r)
  BY <1>2, <1>6, <1>7 DEF Brings
<1> HIDE DEF r
<1>10. import' \in [1..MaxImports -> ImportRecords] /\ \A j \in 1..MaxImports : Brings(import'[j])
  BY <1>3, <1>8, <1>9 DEF TransferTypes
<1>11. sheet' \in Sheets /\ sheet'.listed = sheet.listed
  BY <1>3 DEF TransferTypes, Sheets
<1>12. TransferTypes'
  BY <1>4, <1>10, <1>11 DEF TransferTypes
<1> QED BY <1>10, <1>12

\* The references of an import are references, finitely many once they are on file.
LEMMA ImportedRefs ==
  ASSUME TransferTypes, NEW i \in 1..MaxImports
  PROVE  Range(import[i].rows) \subseteq Reference /\ IsFiniteSet(Range(import[i].rows))
<1>1. import[i].rows \in ImportRows
  BY DEF TransferTypes, ImportRecords
<1>2. PICK S \in Places : import[i].rows \in [S -> Reference]
  BY <1>1 DEF ImportRows
<1> DEFINE rows == import[i].rows
<1>3. IsFiniteSet(S) /\ rows \in [S -> Reference]
  BY <1>2 DEF Places
<1> HIDE DEF rows
<1>4. rows \in Surjection(S, Range(rows))
  BY <1>3 DEF Surjection, Range
<1>5. IsFiniteSet(Range(rows))
  BY <1>3, <1>4, FS_Surjection
<1>6. Range(rows) \subseteq Reference
  BY <1>3 DEF Range
<1> QED BY <1>5, <1>6 DEF rows

\* An import that is sent ends one way or the other.
LEMMA ImportingKeeps ==
  ASSUME TransferInv, NEW i \in 1..MaxImports, Commits(i) \/ Refused(i) \/ Imported(i)
  PROVE  TransferInv'
<1> USE DEF TransferInv
<1>1. UNCHANGED <<pick, exported, others>>
  BY DEF Commits, Refused, Imported
<1> DEFINE old == import[i]
<1>2. old \in ImportRecords /\ Brings(old) /\ old.at # "none"
  BY DEF TransferTypes, Commits, Refused, Imported
<1>3. onFile' \subseteq Reference
  BY ImportedRefs DEF TransferTypes, Commits, Refused, Imported
<1> HIDE DEF old
<1>4. PICK r \in ImportRecords : Brings(r) /\ import' = [import EXCEPT ![i] = r]
  <2>1. CASE Commits(i) \/ Imported(i)
    <3>1. PICK at \in {"committed", "imported"} : import' = [import EXCEPT ![i].at = at]
      BY <2>1 DEF Commits, Imported
    <3> DEFINE r == [old EXCEPT !.at = at]
    <3>2. r \in ImportRecords /\ Brings(r)
      BY <1>2 DEF ImportRecords, Brings
    <3>3. import' = [import EXCEPT ![i] = r]
      BY <3>1 DEF old
    <3> QED BY <3>2, <3>3
  <2>2. CASE Refused(i)
    <3> DEFINE clash == Range(old.rows) \cap onFile
               r == [old EXCEPT !.at = "refused", !.clash = clash]
    <3>1. import' = [import EXCEPT ![i] = r]
      BY <2>2 DEF Refused, old
    <3>2. clash # {}
      <4>1. IsInjective(old.rows)
        BY <1>2 DEF Brings, IsInjective
      <4> QED BY <2>2, <4>1 DEF Refused, old
    <3>3. clash \cap old.known = {}
      BY <1>2 DEF Brings, Keys
    <3>4. clash \in SUBSET Reference
      BY DEF TransferTypes
    <3> HIDE DEF clash
    <3>5. r \in ImportRecords
      BY <1>2, <3>4 DEF ImportRecords
    <3>6. r.at = "refused" /\ r.rows = old.rows /\ r.known = old.known /\ r.clash = clash
      BY <1>2 DEF ImportRecords
    <3>7. Brings(r)
      BY <1>2, <3>2, <3>3, <3>6 DEF Brings
    <3> QED BY <3>1, <3>5, <3>7
  <2> QED BY <2>1, <2>2
<1>5. import' \in [1..MaxImports -> ImportRecords] /\ \A j \in 1..MaxImports : Brings(import'[j])
  BY <1>4 DEF TransferTypes
<1>6. IsFiniteSet(onFile')
  <2>1. IsFiniteSet(onFile) /\ IsFiniteSet(Range(import[i].rows))
    BY ImportedRefs DEF TransferTypes
  <2>2. IsFiniteSet(onFile \cup Range(import[i].rows))
    BY <2>1, FS_Union
  <2> QED BY <2>1, <2>2 DEF Commits, Refused, Imported
<1>7. sheet' \in Sheets /\ IsFiniteSet(sheet'.listed)
  <2>1. CASE Commits(i)
    BY <2>1 DEF Commits, TransferTypes
  <2>2. CASE Refused(i)
    <3> DEFINE to == [sheet EXCEPT !.busy = FALSE]
    <3>1. to \in Sheets /\ to.listed = sheet.listed
      BY DEF TransferTypes, Sheets
    <3>2. Sets(old.mount, to)
      BY <2>2 DEF Refused, old
    <3> HIDE DEF to
    <3>3. IsFiniteSet(to.listed)
      BY <3>1 DEF TransferTypes
    <3> QED BY <3>1, <3>2, <3>3, SetsAPage
  <2>3. CASE Imported(i)
    <3>1. PICK listed \in {onFile, sheet.listed} :
            Sets(import[i].mount,
                 [sheet EXCEPT !.listed = listed, !.preview = NoPreview, !.busy = FALSE])
      BY <2>3 DEF Imported
    <3> DEFINE to == [sheet EXCEPT !.listed = listed, !.preview = NoPreview, !.busy = FALSE]
    <3>2. listed \in SUBSET Reference /\ IsFiniteSet(listed)
      BY DEF TransferTypes, Sheets
    <3>3. to \in Sheets /\ to.listed = listed
      BY <3>2 DEF TransferTypes, Sheets
    <3>4. Sets(old.mount, to)
      BY <3>1 DEF old
    <3> HIDE DEF to
    <3> QED BY <3>2, <3>3, <3>4, SetsAPage
  <2> QED BY <2>1, <2>2, <2>3
<1>8. TransferTypes'
  BY <1>1, <1>3, <1>5, <1>6, <1>7 DEF TransferTypes
<1> QED BY <1>5, <1>8

\* The rest of the page changes nothing that was confirmed.
LEMMA RestOfPageKeeps ==
  ASSUME TransferInv,
         \/ \E r \in Reference : OnboardReference(r) \/ EraseReference(r)
         \/ CancelsPreview \/ Loads \/ ExportsCustomers \/ ComesBack
  PROVE  TransferInv'
<1> USE DEF TransferInv
<1>1. UNCHANGED <<pick, import>>
  BY DEF OnboardReference, EraseReference, CancelsPreview, Loads, ExportsCustomers, ComesBack
<1>2. /\ onFile \in SUBSET Reference /\ IsFiniteSet(onFile) /\ sheet \in Sheets
      /\ IsFiniteSet(sheet.listed) /\ exported \subseteq SheetFiles /\ others \in 0..MaxOthers
  BY DEF TransferTypes
<1>3. /\ onFile' \in SUBSET Reference /\ IsFiniteSet(onFile') /\ sheet' \in Sheets
      /\ IsFiniteSet(sheet'.listed) /\ exported' \subseteq SheetFiles /\ others' \in 0..MaxOthers
  <2>1. ASSUME NEW r \in Reference, OnboardReference(r) \/ EraseReference(r)
        PROVE  /\ onFile' \in SUBSET Reference /\ IsFiniteSet(onFile') /\ sheet' \in Sheets
               /\ IsFiniteSet(sheet'.listed) /\ exported' \subseteq SheetFiles /\ others' \in 0..MaxOthers
    <3>1. IsFiniteSet(onFile') /\ onFile' \subseteq Reference
      BY <1>2, <2>1, FS_AddElement, FS_RemoveElement DEF OnboardReference, EraseReference
    <3>2. sheet' \in Sheets /\ sheet'.listed = sheet.listed /\ exported' = exported
      BY <1>2, <2>1 DEF OnboardReference, EraseReference, Sheets
    <3>3. others' \in 0..MaxOthers
      BY <1>2, <2>1, TransferAssumption DEF OnboardReference, EraseReference
    <3> QED BY <1>2, <3>1, <3>2, <3>3
  <2>2. CASE CancelsPreview
    BY <1>2, <2>2 DEF CancelsPreview, Sheets
  <2>3. CASE Loads
    BY <1>2, <2>3 DEF Loads, Sheets
  <2>4. CASE ExportsCustomers
    <3>1. FileOf(sheet.listed) \in SheetFiles
      BY <1>2, ExportIsAFile DEF Sheets
    <3> QED BY <1>2, <2>4, <3>1 DEF ExportsCustomers
  <2>5. CASE ComesBack
    <3>1. sheet' = NewPage(sheet.mount + 1) /\ sheet.mount + 1 \in 1..MaxPages
      BY <1>2, <2>5, TransferAssumption DEF ComesBack, Sheets
    <3>2. sheet' \in Sheets /\ sheet'.listed = {}
      BY <3>1 DEF NewPage, Sheets
    <3> QED BY <1>2, <2>5, <3>2, FS_EmptySet DEF ComesBack
  <2> QED BY <2>1, <2>2, <2>3, <2>4, <2>5
<1>4. TransferTypes'
  BY <1>1, <1>3 DEF TransferTypes
<1>5. (\A i \in 1..MaxImports : Brings(import[i]))'
  BY <1>1
<1> QED BY <1>4, <1>5

\* So every step keeps it.
LEMMA TransferStep == ASSUME TransferInv, [TransferNext]_transferVars PROVE TransferInv'
<1>1. CASE \E p \in 1..MaxPicks :
             ReadsFile(p) \/ ReadFileFails(p) \/ \E file \in Files \cup exported : Picks(p, file)
  BY <1>1, ReadingKeeps
<1>2. CASE \E i \in 1..MaxImports : Confirms(i) \/ Commits(i) \/ Refused(i) \/ Imported(i)
  BY <1>2, ConfirmsKeeps, ImportingKeeps
<1>3. CASE \/ \E r \in Reference : OnboardReference(r) \/ EraseReference(r)
           \/ CancelsPreview \/ Loads \/ ExportsCustomers \/ ComesBack
  BY <1>3, RestOfPageKeeps
<1>4. CASE UNCHANGED transferVars
  BY <1>4 DEF transferVars, TransferInv, TransferTypes
<1> QED BY <1>1, <1>2, <1>3, <1>4 DEF TransferNext

\* And it holds in every state.
LEMMA TransferAlways == TransferSpec => []TransferInv
<1>1. TransferInit => TransferInv
  BY TransferStart
<1>2. TransferInv /\ [TransferNext]_transferVars => TransferInv'
  BY TransferStep
<1> QED BY <1>1, <1>2, PTL DEF TransferSpec

\* CustomersPage.tsx: the table's references, the page, the reads and the imports stay of
\* their kind, however they overlap.
THEOREM TransferTypeCorrect == TransferSpec => []TransferTypeOK
<1>1. TransferInv => TransferTypeOK
  BY DEF TransferInv, TransferTypes, TransferTypeOK, Sheets, Picked, ImportRecords
<1> QED BY <1>1, TransferAlways, PTL

\* CustomersPage.tsx:303-362, customerTransfer.ts: whatever reads, imports, onboardings and
\* deletions overlap, every row of a file is on its preview once, and an import brings no
\* reference that the preview knew, and none twice.
THEOREM ImportsStayAsShown == TransferSpec => []ImportsAreAsShown
<1>1. TransferInv => ImportsAreAsShown
  <2> SUFFICES ASSUME TransferInv PROVE ImportsAreAsShown
    OBVIOUS
  <2> DEFINE v == sheet.preview
             blank == RowsThat(v.rows, "blank")
             parts == << v.accepted, v.duplicates, v.errors, blank >>
  <2>1. ASSUME v # NoPreview
        PROVE  /\ UNION ToSet(parts) = DOMAIN v.rows
               /\ \A m, n \in DOMAIN parts : m # n => parts[m] \cap parts[n] = {}
    <3>1. PICK file \in SheetFiles, known \in SUBSET Reference : v = Preview(file, known)
      BY <2>1 DEF TransferInv, TransferTypes, Sheets, Previews
    <3>2. /\ v.accepted \cup v.duplicates \cup v.errors \cup blank = DOMAIN v.rows
          /\ v.accepted \cap v.duplicates = {} /\ v.accepted \cap v.errors = {}
          /\ v.accepted \cap blank = {} /\ v.duplicates \cap v.errors = {}
          /\ v.duplicates \cap blank = {} /\ v.errors \cap blank = {}
      BY <3>1, PreviewParts
    <3> HIDE DEF v, blank
    <3>3. DOMAIN parts = 1..4 /\ parts[1] = v.accepted /\ parts[2] = v.duplicates
          /\ parts[3] = v.errors /\ parts[4] = blank
      OBVIOUS
    <3> HIDE DEF parts
    <3>4. ToSet(parts) = {v.accepted, v.duplicates, v.errors, blank}
      BY <3>3 DEF ToSet
    <3> QED BY <3>2, <3>3, <3>4
  <2>2. ASSUME NEW i \in 1..MaxImports PROVE Brings(import[i])
    BY DEF TransferInv
  <2> QED BY <2>1, <2>2 DEF ImportsAreAsShown, Brings
<1> QED BY <1>1, TransferAlways, PTL

-----------------------------------------------------------------------------
(* One name screened: what canonicalizing leaves.                            *)

\* What holds of no number before a number where it fails holds of all.
LEMMA NoFirst ==
  ASSUME NEW S, \A n \in Nat : (\A m \in 0..(n - 1) : m \in S) => n \in S
  PROVE  Nat \subseteq S
<1> DEFINE T == {0..x : x \in Nat \ S}
<1> SUFFICES ASSUME NEW z \in Nat \ S PROVE FALSE
  OBVIOUS
<1>1. \A x \in Nat : 0..x \in FiniteSubsetsOf(Nat)
  BY FS_Interval DEF FiniteSubsetsOf
<1>2. T \subseteq FiniteSubsetsOf(Nat) /\ T # {}
  BY <1>1
<1> HIDE DEF T
<1>3. PICK t \in T : \A u \in T : ~ (<<u, t>> \in StrictSubsetOrdering(Nat))
  BY <1>2, FS_StrictSubsetOrderingWellFounded, WFMin
<1>4. PICK x \in Nat \ S : t = 0..x
  BY <1>3 DEF T
<1>5. ASSUME NEW y \in 0..(x - 1) PROVE y \in S
  <2> SUFFICES ASSUME y \notin S PROVE FALSE
    OBVIOUS
  <2>1. 0..y \in T
    BY DEF T
  <2>2. 0..y \in SUBSET Nat /\ 0..x \in SUBSET Nat /\ 0..y \subseteq 0..x /\ x \in 0..x /\ x \notin 0..y
    OBVIOUS
  <2> QED BY <1>3, <1>4, <2>1, <2>2 DEF StrictSubsetOrdering
<1> QED BY <1>5

\* Canonicalizing drops the titles and nothing else.
LEMMA CanonicalWords ==
  ASSUME NEW n \in Seq(Word)
  PROVE  Canonical(n) \in Seq(Word) /\ Words(Canonical(n)) = Words(n) \ Titles
<1> DEFINE L == Len(n)
           Step(f, i) == IF i = 0 THEN <<>> ELSE IF n[i] \in Titles THEN f[i - 1] ELSE Append(f[i - 1], n[i])
           Solves(f, k) == f = [i \in 0..k |-> Step(f, i)]
           Typed(f, k) == f \in [0..k -> Seq(Word)]
           S == {k \in Nat : k <= L => \E f : Typed(f, k) /\ \A i \in 0..k : f[i] = Step(f, i)}
<1>1. L \in Nat /\ \A i \in 1..L : n[i] \in Word
  OBVIOUS
<1> HIDE DEF L
<1>2. ASSUME NEW k \in Nat, \A m \in 0..(k - 1) : m \in S PROVE k \in S
  <2> SUFFICES ASSUME k <= L PROVE \E f : Typed(f, k) /\ \A i \in 0..k : f[i] = Step(f, i)
    OBVIOUS
  <2>1. CASE k = 0
    <3> DEFINE f == [i \in 0..k |-> <<>>]
    <3>1. Typed(f, k) /\ \A i \in 0..k : f[i] = Step(f, i)
      BY <2>1
    <3> QED BY <3>1
  <2>2. CASE k # 0
    <3>1. k - 1 \in 0..(k - 1) /\ k - 1 \in Nat /\ k - 1 <= L /\ k \in 1..L
      BY <1>1, <2>2
    <3>2. PICK f : Typed(f, k - 1) /\ \A i \in 0..(k - 1) : f[i] = Step(f, i)
      BY <1>2, <3>1
    <3> DEFINE last == IF n[k] \in Titles THEN f[k - 1] ELSE Append(f[k - 1], n[k])
               g == [i \in 0..k |-> IF i = k THEN last ELSE f[i]]
    <3>3. last \in Seq(Word)
      BY <1>1, <3>1, <3>2
    <3>4. Typed(g, k)
      BY <3>2, <3>3
    <3>5. ASSUME NEW i \in 0..k PROVE g[i] = Step(g, i)
      <4>1. CASE i = k
        <5>1. g[i] = last /\ g[i - 1] = f[k - 1] /\ i # 0
          BY <2>2, <3>1, <4>1
        <5> QED BY <4>1, <5>1
      <4>2. CASE i # k
        <5>1. g[i] = f[i] /\ (i # 0 => g[i - 1] = f[i - 1]) /\ i \in 0..(k - 1)
          BY <4>2
        <5> QED BY <3>2, <5>1
      <4> QED BY <4>1, <4>2
    <3> HIDE DEF g
    <3> QED BY <3>4, <3>5
  <2> QED BY <2>1, <2>2
<1>3. L \in S
  <2> HIDE DEF S
  <2> QED BY <1>1, <1>2, NoFirst
<1>4. PICK f : Typed(f, L) /\ \A i \in 0..L : f[i] = Step(f, i)
  <2>1. L <= L
    BY <1>1
  <2> HIDE DEF Typed, Step
  <2> QED BY <1>3, <2>1
<1>5. Solves(f, L)
  BY <1>4
<1> DEFINE kept == CHOOSE g : Solves(g, L)
<1>6. Solves(kept, L)
  <2> HIDE DEF Solves
  <2> QED BY <1>5
<1> HIDE DEF kept
<1> DEFINE U == {k \in Nat : k <= L =>
                   kept[k] \in Seq(Word) /\ Words(kept[k]) = {n[i] : i \in 1..k} \ Titles}
<1>7. ASSUME NEW k \in Nat, \A m \in 0..(k - 1) : m \in U PROVE k \in U
  <2> SUFFICES ASSUME k <= L
               PROVE  kept[k] \in Seq(Word) /\ Words(kept[k]) = {n[i] : i \in 1..k} \ Titles
    OBVIOUS
  <2>1. kept[k] = Step(kept, k)
    <3>1. k \in 0..L
      BY <1>1
    <3> HIDE DEF Step
    <3>2. kept = [i \in 0..L |-> Step(kept, i)]
      BY <1>6
    <3> QED BY <3>1, <3>2
  <2>2. CASE k = 0
    BY <2>1, <2>2 DEF Words
  <2>3. CASE k # 0
    <3>1. k - 1 \in 0..(k - 1) /\ k - 1 \in Nat /\ k - 1 <= L /\ n[k] \in Word
      BY <1>1, <2>3
    <3> DEFINE w == kept[k - 1]
    <3>2. w \in Seq(Word) /\ Words(w) = {n[i] : i \in 1..(k - 1)} \ Titles
      BY <1>7, <3>1
    <3>3. {n[i] : i \in 1..k} = {n[i] : i \in 1..(k - 1)} \cup {n[k]}
      BY <2>3
    <3>4. kept[k] = IF n[k] \in Titles THEN w ELSE Append(w, n[k])
      BY <2>1, <2>3
    <3> HIDE DEF w
    <3>5. Words(Append(w, n[k])) = Words(w) \cup {n[k]}
      <4> DEFINE x == n[k]
                 a == Append(w, x)
      <4>1. /\ DOMAIN w = 1..Len(w) /\ Len(w) \in Nat /\ DOMAIN a = 1..(Len(w) + 1)
            /\ a[Len(w) + 1] = x /\ \A i \in 1..Len(w) : a[i] = w[i]
        BY <3>1, <3>2
      <4> HIDE DEF a, x
      <4>2. \A i \in DOMAIN a : i = Len(w) + 1 \/ i \in 1..Len(w)
        BY <4>1
      <4>3. Words(a) = Words(w) \cup {x}
        BY <4>1, <4>2 DEF Words
      <4> QED BY <4>3 DEF a, x
    <3> QED BY <3>1, <3>2, <3>3, <3>4, <3>5
  <2> QED BY <2>2, <2>3
<1>8. L \in U
  <2> HIDE DEF U
  <2> QED BY <1>1, <1>7, NoFirst
<1>9. Canonical(n) = kept[L]
  BY DEF Canonical, kept, L
<1>10. Words(n) = {n[i] : i \in 1..L}
  BY DEF Words, L
<1> QED BY <1>1, <1>8, <1>9, <1>10

-----------------------------------------------------------------------------
(* One name screened.                                                        *)

Asks == [query : Queries, level : DOMAIN Level, letters : [Persons -> Letters]]

\* A query is a sequence of words, none of which is a title.
LEMMA QueryIsCanonical ==
  ASSUME asked \in Asks
  PROVE  Query \in Seq(Word) /\ Words(Query) \cap Titles = {}
<1>1. asked.query.name \in Seq(Word)
  BY NameScreenAssumption DEF Asks
<1> QED BY <1>1, CanonicalWords DEF Query

\* Names of the same words have the same words.
LEMMA SameWordsAreWords ==
  ASSUME NEW m \in Seq(Word), NEW n \in Seq(Word), SameWords(m, n)
  PROVE  Words(m) = Words(n)
<1>1. ASSUME NEW x \in Seq(Word), NEW w PROVE Occurrences(x, w) # 0 <=> w \in Words(x)
  <2> DEFINE P == {i \in DOMAIN x : x[i] = w}
  <2>1. IsFiniteSet(P)
    <3>1. IsFiniteSet(1..Len(x)) /\ P \subseteq 1..Len(x)
      BY FS_Interval
    <3> QED BY <3>1, FS_Subset
  <2>2. Cardinality(P) = 0 <=> P = {}
    BY <2>1, FS_EmptySet
  <2> QED BY <2>2 DEF Occurrences, Words
<1>2. \A w \in Words(m) \cup Words(n) : Occurrences(m, w) = Occurrences(n, w)
  BY DEF SameWords
<1> QED BY <1>1, <1>2

\* Whoever goes by the name that was typed shares a word with it.
LEMMA PublishedSharesWord ==
  ASSUME asked \in Asks, NEW e \in Persons, Published(e)
  PROVE  SharesWord(e)
<1>1. PICK n \in Entry[e].aliases : SameWords(n, Query)
  BY DEF Published
<1>2. n \in Seq(Word) /\ Query \in Seq(Word) /\ Words(Query) \cap Titles = {}
  BY NameScreenAssumption, QueryIsCanonical
<1>3. Words(n) = Words(Query) /\ Words(Canonical(n)) = Words(n) \ Titles
  BY <1>1, <1>2, SameWordsAreWords, CanonicalWords
<1>4. Words(Query) # {}
  <2>1. Query # <<>>
    BY DEF Published
  <2>2. 1 \in DOMAIN Query
    BY <1>2, <2>1
  <2> QED BY <2>2 DEF Words
<1>5. Words(Canonical(n)) \cap Words(Query) # {}
  BY <1>2, <1>3, <1>4
<1> QED BY <1>5 DEF SharesWord, NamesOf

-----------------------------------------------------------------------------
(* Its score.                                                                *)

LEMMA TierIsAShare ==
  ASSUME asked \in Asks, NEW e \in Persons, NEW n
  PROVE  AliasTier(e, n) \in 0..100
<1>1. asked.letters[e].tier \in 0..100
  BY NameScreenAssumption DEF Asks
<1> QED BY <1>1 DEF AliasTier, Larger

\* The greatest of some shares is one of them.
LEMMA GreatestShare ==
  ASSUME NEW S \in SUBSET (0..100), S # {}
  PROVE  Max(S) \in S /\ \A y \in S : Max(S) >= y
<1> DEFINE U == {k \in Nat : 100 - k \notin S}
<1> SUFFICES ASSUME \A x \in S : \E y \in S : ~(x >= y) PROVE FALSE
  BY DEF Max
<1>1. ASSUME NEW k \in Nat, \A m \in 0..(k - 1) : m \in U PROVE k \in U
  <2> SUFFICES ASSUME 100 - k \in S PROVE FALSE
    OBVIOUS
  <2>1. PICK y \in S : ~(100 - k >= y)
    OBVIOUS
  <2>2. y \in 0..100 /\ 100 - y \in 0..(k - 1) /\ 100 - (100 - y) = y
    BY <2>1
  <2>3. 100 - y \in U
    BY <1>1, <2>2
  <2> QED BY <2>2, <2>3
<1>2. Nat \subseteq U
  <2> HIDE DEF U
  <2> QED BY <1>1, NoFirst
<1>3. PICK x \in S : TRUE
  OBVIOUS
<1>4. x \in 0..100 /\ 100 - x \in Nat /\ 100 - (100 - x) = x
  OBVIOUS
<1>5. 100 - x \in U
  BY <1>2, <1>4
<1> QED BY <1>3, <1>4, <1>5

\* The greatest of the tiers is one of them; 100 if any is.
LEMMA MatchIsAShare ==
  ASSUME asked \in Asks, NEW e \in Persons
  PROVE  AliasMatch(e) \in 0..100 /\ (Published(e) => AliasMatch(e) = 100)
<1> DEFINE S == {AliasTier(e, n) : n \in Entry[e].aliases} \cup {0}
<1>1. S \subseteq 0..100 /\ S # {}
  BY TierIsAShare
<1>3. Published(e) => 100 \in S
  BY DEF Published, AliasTier
<1> HIDE DEF S
<1>4. Max(S) \in S /\ \A y \in S : Max(S) >= y
  BY <1>1, GreatestShare
<1> QED BY <1>1, <1>3, <1>4 DEF AliasMatch, S

\* The parts of a score add up to no less than one of them, and are cut at the top only.
LEMMA WeighsUp ==
  ASSUME NEW c \in Nat, NEW s \in Nat, NEW a \in Nat, NEW d \in Nat, NEW k \in Nat
  PROVE  \E n \in Nat : n = 55 * c + 20 * s + 35 * a + 10 * d + 5 * k /\ (a = 100 => n >= 3500)
<1>1. PICK n \in Nat : n = 55 * c + 20 * s + 35 * a + 10 * d + 5 * k
  OBVIOUS
<1>2. a = 100 => n >= 3500
  BY <1>1
<1> QED BY <1>1, <1>2

\* A score in hundredths, cut at the top; 35.00 and more.
Hundredths == 0..10000
CutAtTop(n) == Clamped(n, 10000)
Enough(n) == n >= 3500

LEMMA ClampedIs ==
  ASSUME NEW n \in Nat
  PROVE  CutAtTop(n) \in Hundredths /\ (Enough(n) => Enough(CutAtTop(n)))
BY DEF Clamped, Larger, Smaller, CutAtTop, Hundredths, Enough

LEMMA ScoreTypes ==
  ASSUME asked \in Asks, NEW e \in Persons
  PROVE  Score(e) \in Hundredths /\ (Published(e) => Enough(Score(e)))
<1> DEFINE cos == Clamped(asked.letters[e].cosine, 100)
<1>1. asked.letters[e].cosine \in Int /\ asked.letters[e].sequence \in 0..100
  BY NameScreenAssumption DEF Asks
<1>2. cos \in 0..100
  BY <1>1 DEF Clamped, Larger, Smaller
<1>3. Sequence(e) \in 0..100
  BY <1>1 DEF Sequence
<1>4. DobMatch(e) \in {0, 50, 100}
  BY DEF DobMatch
<1>5. CountryMatch(e) \in Nat
  <2> DEFINE k == Cardinality(Entry[e].countries)
  <2>1. k \in Nat /\ (asked.query.country \in Entry[e].countries => k # 0)
    BY NameScreenAssumption, FS_CardinalityType, FS_EmptySet
  <2>2. ASSUME NEW n \in Nat, n # 0 PROVE 100 \div n \in Nat
    BY <2>2
  <2> HIDE DEF k
  <2>3. k # 0 => 100 \div k \in Nat
    BY <2>1, <2>2
  <2> QED BY <2>1, <2>3 DEF CountryMatch, k
<1>6. AliasMatch(e) \in 0..100 /\ (Published(e) => AliasMatch(e) = 100)
  BY MatchIsAShare
<1>8. Score(e) = Clamped(55 * cos + 20 * Sequence(e) + 35 * AliasMatch(e) + 10 * DobMatch(e) + 5 * CountryMatch(e), 10000)
  BY DEF Score, Weight
<1> HIDE DEF cos
<1>9. PICK c \in Nat, s \in Nat, a \in Nat, d \in Nat, k \in Nat :
        c = cos /\ s = Sequence(e) /\ a = AliasMatch(e) /\ d = DobMatch(e) /\ k = CountryMatch(e)
  <2>1. cos \in Nat /\ Sequence(e) \in Nat /\ AliasMatch(e) \in Nat /\ DobMatch(e) \in Nat
    BY <1>2, <1>3, <1>4, <1>6
  <2> QED BY <1>5, <2>1
<1>10. PICK n \in Nat : n = 55 * c + 20 * s + 35 * a + 10 * d + 5 * k /\ (a = 100 => n >= 3500)
  BY WeighsUp
<1>11. Score(e) = CutAtTop(n)
  BY <1>8, <1>9, <1>10 DEF CutAtTop
<1>12. Published(e) => Enough(n)
  BY <1>6, <1>9, <1>10 DEF Enough
<1> QED BY <1>11, <1>12, ClampedIs

\* What is asked stays, and with it every score and who is wanted.
LEMMA QuestionStays ==
  ASSUME asked' = asked, NEW e \in Persons
  PROVE  /\ Score(e)' = Score(e) /\ SharesWord(e)' = SharesWord(e) /\ Published(e)' = Published(e)
         /\ Reachable(e)' = Reachable(e) /\ (\A l : Floor(l)' = Floor(l))
<1>1. Query' = Query
  BY DEF Query
<1>2. \A n : AliasTier(e, n)' = AliasTier(e, n)
  BY <1>1 DEF AliasTier
<1>3. AliasMatch(e)' = AliasMatch(e)
  BY <1>2 DEF AliasMatch
<1>4. Sequence(e)' = Sequence(e)
  BY <1>1 DEF Sequence
<1>5. DobMatch(e)' = DobMatch(e)
  BY DEF DobMatch
<1>6. CountryMatch(e)' = CountryMatch(e)
  BY DEF CountryMatch
<1>7. Score(e)' = Score(e)
  BY <1>3, <1>4, <1>5, <1>6 DEF Score
<1>8. Published(e)' = Published(e)
  BY <1>1 DEF Published
<1>9. SharesWord(e)' = SharesWord(e)
  BY <1>1 DEF SharesWord
<1>10. QueryKeys' = QueryKeys
  BY <1>1 DEF QueryKeys
<1>11. Reachable(e)' = Reachable(e)
  BY <1>10 DEF Reachable
<1>12. \A l : Floor(l)' = Floor(l)
  BY DEF Floor
<1> QED BY <1>7, <1>8, <1>9, <1>11, <1>12

-----------------------------------------------------------------------------
(* The candidates.                                                           *)

Wanted(e) == Published(e) /\ Reachable(e) /\ Floor(Entry[e].list) <= 3500
\* K of S are as good as e.
Beaten(e, S) == \E T \in SUBSET S : Cardinality(T) = K /\ \A x \in T : Score(x) >= Score(e)

Retrieved == [list : ListsAsked \cup {NoDob}, vector : SUBSET Persons, lexical : SUBSET Persons]
NameInv ==
  /\ asked \in Asks /\ todo \subseteq ListsAsked /\ Raw \subseteq Persons
  /\ step \in {"search", "lookup", "score", "merge", "present", "shown"}
  /\ hits \in Retrieved
  /\ step \in {"merge", "present", "shown"} => todo = {}
  /\ step = "score" => \A e \in Persons : Wanted(e) /\ Entry[e].list = hits.list => e \in hits.lexical
  /\ step \in {"search", "lookup", "score", "merge"} =>
       \A e \in Persons : Wanted(e) /\ Entry[e].list \notin todo => e \in Raw \/ Beaten(e, Raw)
  /\ step \in {"present", "shown"} =>
       \A e \in Persons : Wanted(e) =>
         e \in Raw \/ (Cardinality(Raw) = K /\ \A x \in Raw : Score(x) >= Score(e))
  /\ step = "shown" =>
       /\ Cardinality(Raw) = K => shown.capped
       /\ \A e \in Raw : SharesWord(e) => e \in shown.primary \cup shown.low

LEMMA PersonsAreFinite ==
  ASSUME NEW S \in SUBSET Persons
  PROVE  IsFiniteSet(S) /\ Cardinality(S) \in Nat /\ \A T \in SUBSET S : T # S => Cardinality(T) < Cardinality(S)
<1>1. IsFiniteSet(S)
  BY NameScreenAssumption, FS_Subset
<1>2. ASSUME NEW T \in SUBSET S, T # S PROVE Cardinality(T) < Cardinality(S)
  <2>1. IsFiniteSet(T) /\ Cardinality(T) <= Cardinality(S) /\ (Cardinality(S) = Cardinality(T) => S = T)
    BY <1>1, FS_Subset
  <2>2. Cardinality(T) \in Nat /\ Cardinality(S) \in Nat
    BY <1>1, <2>1, FS_CardinalityType
  <2> QED BY <1>2, <2>1, <2>2
<1> QED BY <1>1, <1>2, FS_CardinalityType

LEMMA AtLeast ==
  ASSUME NEW a \in Nat, NEW b \in Nat, a >= 3500, b <= 3500 PROVE a >= b
BY SMT

\* A score is a number.
LEMMA ScoresAreNumbers == ASSUME asked \in Asks PROVE \A e \in Persons : Score(e) \in Nat
<1> SUFFICES ASSUME NEW e \in Persons PROVE Score(e) \in Nat
  OBVIOUS
<1>1. Score(e) \in Hundredths
  BY ScoreTypes
<1>2. Hundredths \subseteq Nat
  BY DEF Hundredths
<1> QED BY <1>1, <1>2

\* Who is not among the best is behind as many as there may be.
LEMMA BestAreAhead ==
  ASSUME asked \in Asks, NEW S \in SUBSET Persons, NEW T \in Best(S, Scores, K), NEW e \in S
  PROVE  T \subseteq S /\ (e \in T \/ (Cardinality(T) = K /\ \A x \in T : Score(x) >= Score(e)))
<1>1. /\ T \subseteq S /\ Cardinality(T) = Smaller(K, Cardinality(S))
      /\ \A x \in T, y \in S \ T : Scores[x] >= Scores[y]
  BY DEF Best
<1>2. ASSUME e \notin T PROVE Cardinality(T) = K
  <2>1. Cardinality(T) < Cardinality(S) /\ Cardinality(S) \in Nat /\ K \in Nat
    BY <1>1, <1>2, PersonsAreFinite, NameScreenAssumption
  <2> QED BY <1>1, <2>1 DEF Smaller
<1>3. ASSUME e \notin T, NEW x \in T PROVE Score(x) >= Score(e)
  BY <1>1, <1>3 DEF Scores
<1> QED BY <1>1, <1>2, <1>3

\* Who is behind as many before the cut is behind as many after it.
LEMMA BeatenStays ==
  ASSUME asked \in Asks, NEW S \in SUBSET Persons, NEW T \in Best(S, Scores, K), NEW e \in Persons, Beaten(e, S)
  PROVE  Cardinality(T) = K /\ \A x \in T : Score(x) >= Score(e)
<1>1. /\ T \subseteq S /\ Cardinality(T) = Smaller(K, Cardinality(S))
      /\ \A x \in T, y \in S \ T : Score(x) >= Score(y)
  BY DEF Best, Scores
<1>2. PICK B \in SUBSET S : Cardinality(B) = K /\ \A x \in B : Score(x) >= Score(e)
  BY DEF Beaten
<1>3. Cardinality(T) = K
  <2>1. Cardinality(B) <= Cardinality(S) /\ Cardinality(S) \in Nat /\ Cardinality(B) \in Nat
    <3>1. B = S \/ Cardinality(B) < Cardinality(S)
      BY PersonsAreFinite
    <3> QED BY <3>1, PersonsAreFinite
  <2> QED BY <1>1, <1>2, <2>1 DEF Smaller
<1>4. ASSUME NEW x \in T, ~(Score(x) >= Score(e)) PROVE FALSE
  <2>1. /\ Score(e) \in Nat /\ \A y \in S : Score(y) \in Nat
    BY ScoresAreNumbers
  <2>3. \A y \in B : y \in T
    <3> SUFFICES ASSUME NEW y \in B, y \notin T PROVE FALSE
      OBVIOUS
    <3>1. Score(x) >= Score(y) /\ Score(y) >= Score(e)
      BY <1>1, <1>2
    <3> QED BY <1>1, <1>4, <2>1, <3>1
  <2>4. B \subseteq T /\ B # T
    BY <1>2, <1>4, <2>3
  <2>5. Cardinality(B) < Cardinality(T) /\ K \in Nat
    BY <1>1, <2>4, PersonsAreFinite, NameScreenAssumption
  <2> QED BY <1>2, <1>3, <2>5
<1> QED BY <1>3, <1>4

\* Whoever is wanted is found by its words.
LEMMA WantedIsReached ==
  ASSUME asked \in Asks, NEW e \in Persons, Wanted(e), NEW T \in LexicalSets(Entry[e].list)
  PROVE  e \in T
<1> DEFINE S == Reached(Entry[e].list, QueryKeys)
<1>1. S \subseteq Persons
  BY DEF Reached, In
<1>2. e \in S /\ Cardinality(S) <= MaxLexical
  BY DEF Wanted, Reachable
<1>3. T \subseteq S /\ Cardinality(T) = Smaller(MaxLexical, Cardinality(S))
  BY DEF LexicalSets, Best
<1> HIDE DEF S
<1>4. Cardinality(T) = Cardinality(S)
  <2>1. Cardinality(S) \in Nat /\ MaxLexical \in Nat
    BY <1>1, PersonsAreFinite, NameScreenAssumption
  <2> QED BY <1>2, <1>3, <2>1 DEF Smaller
<1>5. T = S \/ (Cardinality(T) < Cardinality(S) /\ Cardinality(S) \in Nat)
  BY <1>1, <1>3, PersonsAreFinite
<1> QED BY <1>2, <1>4, <1>5

-----------------------------------------------------------------------------
(* The steps.                                                                *)

LEMMA NameStart == NameInit => NameInv
<1> SUFFICES ASSUME NameInit PROVE NameInv
  OBVIOUS
<1>1. asked \in Asks /\ step = "search" /\ todo = ListsAsked /\ Raw = {}
      /\ hits \in Retrieved
  BY DEF NameInit, Asks, Raw, Retrieved
<1>2. \A e \in Persons : Entry[e].list \in ListsAsked
  BY DEF ListsAsked
<1> QED BY <1>1, <1>2 DEF NameInv

\* A step that leaves the question and the matches leaves what is known of them.
LEMMA MatchesStay ==
  ASSUME asked' = asked, found' = found, asked \in Asks, Raw \subseteq Persons, NEW e \in Persons
  PROVE  /\ Raw' = Raw /\ Wanted(e)' = Wanted(e) /\ Beaten(e, Raw)' = Beaten(e, Raw)
         /\ \A x \in Raw : (Score(x) >= Score(e))' <=> Score(x) >= Score(e)
<1>1. Raw' = Raw
  BY DEF Raw
<1>2. \A x \in Persons : Score(x)' = Score(x)
  BY QuestionStays
<1>3. Wanted(e)' = Wanted(e)
  BY QuestionStays DEF Wanted
<1>4. Beaten(e, Raw)' = Beaten(e, Raw)
  BY <1>1, <1>2 DEF Beaten
<1> QED BY <1>1, <1>2, <1>3, <1>4

LEMMA SearchesKeeps ==
  ASSUME NameInv, NEW l \in ListsAsked, SearchesVectors(l)
  PROVE  NameInv'
<1>1. /\ asked' = asked /\ todo' = todo /\ found' = found /\ step = "search" /\ step' = "lookup"
      /\ asked \in Asks /\ Raw \subseteq Persons /\ todo \subseteq ListsAsked
  BY DEF SearchesVectors, NameInv
<1>2. Raw' = Raw
  BY <1>1 DEF Raw
<1>3. hits' \in Retrieved
  BY DEF SearchesVectors, Best, In, Retrieved
<1>4. \A e \in Persons : Wanted(e)' = Wanted(e) /\ Beaten(e, Raw)' = Beaten(e, Raw)
  BY <1>1, MatchesStay
<1>5. \A e \in Persons : Wanted(e) /\ Entry[e].list \notin todo => e \in Raw \/ Beaten(e, Raw)
  BY <1>1 DEF NameInv
<1> QED BY <1>1, <1>2, <1>3, <1>4, <1>5 DEF NameInv

LEMMA LooksUpKeeps == ASSUME NameInv, LooksUpWords PROVE NameInv'
<1>1. /\ asked' = asked /\ todo' = todo /\ found' = found /\ step = "lookup" /\ step' = "score"
      /\ asked \in Asks /\ Raw \subseteq Persons /\ todo \subseteq ListsAsked /\ hits \in Retrieved
  BY DEF LooksUpWords, NameInv
<1>2. Raw' = Raw
  BY <1>1 DEF Raw
<1>3. PICK T \in LexicalSets(hits.list) : hits' = [hits EXCEPT !.lexical = T]
  BY DEF LooksUpWords
<1>4. T \subseteq Persons
  BY <1>3 DEF LexicalSets, Best, Reached, In
<1>5. hits' \in Retrieved /\ hits'.list = hits.list /\ hits'.lexical = T
  BY <1>1, <1>3, <1>4 DEF Retrieved
<1>6. \A e \in Persons : Wanted(e)' = Wanted(e) /\ Beaten(e, Raw)' = Beaten(e, Raw)
  BY <1>1, MatchesStay
<1>7. \A e \in Persons : Wanted(e) /\ Entry[e].list \notin todo => e \in Raw \/ Beaten(e, Raw)
  BY <1>1 DEF NameInv
<1>8. \A e \in Persons : Wanted(e) /\ Entry[e].list = hits.list => e \in T
  BY <1>1, WantedIsReached
<1> QED BY <1>1, <1>2, <1>5, <1>6, <1>7, <1>8 DEF NameInv

LEMMA ScoresKeeps == ASSUME NameInv, ScoresList PROVE NameInv'
<1> DEFINE C == {e \in hits.vector \cup hits.lexical : Score(e) >= Floor(hits.list)}
<1>1. /\ asked' = asked /\ hits' = hits /\ step = "score" /\ step' \in {"merge", "search"}
      /\ todo' = todo \ {hits.list} /\ (step' = "merge" => todo' = {})
      /\ asked \in Asks /\ Raw \subseteq Persons /\ todo \subseteq ListsAsked /\ hits \in Retrieved
  BY DEF ScoresList, NameInv
<1>2. PICK T \in Best(C, Scores, K) : found' = found \cup {[id |-> e, via |-> ViaOf(e)] : e \in T}
  BY DEF ScoresList
<1>3. C \subseteq Persons
  BY <1>1 DEF Retrieved
<1>4. T \subseteq Persons
  BY <1>2, <1>3 DEF Best
<1>5. Raw' = Raw \cup T
  <2> DEFINE R == {[id |-> e, via |-> ViaOf(e)] : e \in T}
  <2>1. {m.id : m \in R} = T
    <3>1. \A m \in R : m.id \in T
      OBVIOUS
    <3>2. ASSUME NEW e \in T PROVE e \in {m.id : m \in R}
      <4> DEFINE m == [id |-> e, via |-> ViaOf(e)]
      <4>1. m \in R /\ m.id = e
        OBVIOUS
      <4> HIDE DEF m, R
      <4> QED BY <4>1
    <3> QED BY <3>1, <3>2
  <2>2. found' = found \cup R
    BY <1>2
  <2> HIDE DEF R
  <2> QED BY <2>1, <2>2 DEF Raw
<1>6. \A x \in Persons : Wanted(x)' = Wanted(x) /\ Score(x)' = Score(x)
  BY <1>1, QuestionStays DEF Wanted
<1>7. ASSUME NEW e \in Persons, Wanted(e), Entry[e].list \notin todo'
      PROVE  e \in Raw' \/ Beaten(e, Raw)'
  <2>1. CASE Entry[e].list \notin todo
    <3>1. e \in Raw \/ Beaten(e, Raw)
      BY <1>1, <1>7, <2>1 DEF NameInv
    <3>2. Beaten(e, Raw) => Beaten(e, Raw)'
      BY <1>1, <1>4, <1>5, <1>6 DEF Beaten
    <3> QED BY <1>5, <3>1, <3>2
  <2>2. CASE Entry[e].list = hits.list
    <3>1. e \in hits.lexical
      BY <1>1, <1>7, <2>2, SMTT(20) DEF NameInv
    <3>2. e \in C
      <4>1. Score(e) \in Nat /\ Score(e) >= 3500
        <5>1. asked \in Asks /\ Published(e)
          BY <1>1, <1>7 DEF Wanted
        <5>2. Enough(Score(e)) /\ Score(e) \in Nat
          BY <5>1, ScoreTypes, ScoresAreNumbers
        <5> QED BY <5>2 DEF Enough
      <4>2. Floor(hits.list) \in Nat /\ Floor(hits.list) <= 3500
        BY <1>1, <1>7, <2>2, NameScreenAssumption DEF Wanted, Floor, Level, Asks
      <4>3. Score(e) >= Floor(hits.list)
        BY <4>1, <4>2, AtLeast
      <4> QED BY <3>1, <4>3
    <3> HIDE DEF C
    <3>3. e \in T \/ (Cardinality(T) = K /\ \A x \in T : Score(x) >= Score(e))
      BY <1>1, <1>2, <1>3, <3>2, BestAreAhead
    <3>4. CASE e \in T
      BY <1>5, <3>4
    <3>5. CASE Cardinality(T) = K /\ \A x \in T : Score(x) >= Score(e)
      <4>1. T \in SUBSET Raw' /\ \A x \in T : (Score(x) >= Score(e))'
        BY <1>4, <1>5, <1>6, <3>5
      <4> QED BY <3>5, <4>1 DEF Beaten
    <3> QED BY <3>3, <3>4, <3>5
  <2> QED BY <1>1, <1>7, <2>1, <2>2
<1>8. todo' \subseteq ListsAsked /\ Raw' \subseteq Persons
  BY <1>1, <1>4, <1>5
<1> QED BY <1>1, <1>6, <1>7, <1>8 DEF NameInv

LEMMA MergesKeeps == ASSUME NameInv, Merges PROVE NameInv'
<1>1. /\ asked' = asked /\ hits' = hits /\ step = "merge" /\ step' = "present" /\ todo' = todo /\ todo = {}
      /\ asked \in Asks /\ Raw \in SUBSET Persons /\ todo \subseteq ListsAsked /\ hits \in Retrieved
  BY DEF Merges, NameInv
<1>2. PICK T \in Best(Raw, Scores, K) : found' = {m \in found : m.id \in T}
  BY DEF Merges, Raw
<1>3. T \subseteq Raw
  BY DEF Best
<1>4. Raw' = T
  BY <1>2, <1>3 DEF Raw
<1>5. \A x \in Persons : Wanted(x)' = Wanted(x) /\ Score(x)' = Score(x)
  BY <1>1, QuestionStays DEF Wanted
<1>6. ASSUME NEW e \in Persons, Wanted(e)
      PROVE  e \in T \/ (Cardinality(T) = K /\ \A x \in T : Score(x) >= Score(e))
  <2>1. e \in Raw \/ Beaten(e, Raw)
    BY <1>1, <1>6 DEF NameInv
  <2> QED BY <1>1, <2>1, BestAreAhead, BeatenStays
<1>7. ASSUME NEW e \in Persons, Wanted(e)'
      PROVE  e \in Raw' \/ (Cardinality(Raw)' = K /\ \A x \in Raw' : Score(x)' >= Score(e)')
  BY <1>1, <1>3, <1>4, <1>5, <1>6, <1>7
<1> QED BY <1>1, <1>3, <1>4, <1>7 DEF NameInv

LEMMA PresentsKeeps == ASSUME NameInv, Presents PROVE NameInv'
<1>1. /\ asked' = asked /\ found' = found /\ hits' = hits /\ step = "present" /\ step' = "shown"
      /\ todo' = todo /\ todo = {}
      /\ asked \in Asks /\ Raw \in SUBSET Persons /\ todo \subseteq ListsAsked /\ hits \in Retrieved
  BY DEF Presents, NameInv
<1>2. Raw' = Raw
  BY <1>1 DEF Raw
<1>3. \A x \in Persons : Wanted(x)' = Wanted(x) /\ Score(x)' = Score(x) /\ SharesWord(x)' = SharesWord(x)
  BY <1>1, QuestionStays DEF Wanted
<1>4. /\ Cardinality(Raw) = K => shown'.capped
      /\ shown'.primary = {e \in Raw : Passes(e) /\ Above(e)}
      /\ shown'.low = {e \in Raw : Passes(e) /\ ~Above(e) /\ SharesWord(e)}
  BY DEF Presents
<1>5. \A e \in Raw : SharesWord(e) => e \in shown'.primary \cup shown'.low
  BY <1>4 DEF Passes
<1>6. ASSUME NEW e \in Persons, Wanted(e)
      PROVE  e \in Raw \/ (Cardinality(Raw) = K /\ \A x \in Raw : Score(x) >= Score(e))
  BY <1>1, <1>6 DEF NameInv
<1> QED BY <1>1, <1>2, <1>3, <1>4, <1>5, <1>6 DEF NameInv

LEMMA NameStep == ASSUME NameInv, [NameNext]_nameVars PROVE NameInv'
<1>1. CASE UNCHANGED nameVars
  <2>1. /\ asked' = asked /\ todo' = todo /\ found' = found /\ hits' = hits /\ step' = step /\ shown' = shown
        /\ asked \in Asks /\ Raw \subseteq Persons
    BY <1>1 DEF nameVars, NameInv
  <2>2. Raw' = Raw
    BY <2>1 DEF Raw
  <2>3. \A x \in Persons : /\ Wanted(x)' = Wanted(x) /\ Score(x)' = Score(x) /\ SharesWord(x)' = SharesWord(x)
                           /\ Beaten(x, Raw)' = Beaten(x, Raw)
    BY <2>1, MatchesStay, QuestionStays DEF Wanted
  <2> QED BY <2>1, <2>2, <2>3 DEF NameInv
<1>2. CASE NameNext
  BY <1>2, SearchesKeeps, LooksUpKeeps, ScoresKeeps, MergesKeeps, PresentsKeeps DEF NameNext
<1> QED BY <1>1, <1>2

LEMMA NameAlways == NameSpec => []NameInv
BY NameStart, NameStep, PTL DEF NameSpec

\* A screen is at one of its steps, over lists and persons there are (multiEngine.ts).
THEOREM NameTypeCorrect == NameSpec => []NameTypeOK
<1>1. NameInv => NameTypeOK
  BY DEF NameInv, NameTypeOK
<1> QED BY <1>1, NameAlways, PTL

\* Below Strict, whoever is in a list under the name that was typed, as it is published and
\* with its words in any order, is on the screen, or at least a screenful of results that
\* score as high are and the page says so: neither the two searches and their caps, nor the
\* cut of a list, the merge, the second cut or the gate loses them (scoring.ts:44-50).
THEOREM AliasesAreListed == NameSpec => []PublishedAliasIsListed
<1>1. ASSUME NameInv PROVE PublishedAliasIsListed
  <2> SUFFICES ASSUME step = "shown", NEW e \in Persons, Published(e), Reachable(e), Floor(Entry[e].list) <= 3500
               PROVE  e \in shown.primary \cup shown.low \/ Outranked(e)
    BY DEF PublishedAliasIsListed
  <2>1. e \in Raw \/ (Cardinality(Raw) = K /\ \A x \in Raw : Score(x) >= Score(e))
    BY <1>1 DEF NameInv, Wanted
  <2>2. SharesWord(e)
    BY <1>1, PublishedSharesWord DEF NameInv
  <2>3. /\ Cardinality(Raw) = K => shown.capped
        /\ \A x \in Raw : SharesWord(x) => x \in shown.primary \cup shown.low
    BY <1>1 DEF NameInv
  <2>4. CASE e \in Raw
    BY <2>2, <2>3, <2>4
  <2>5. CASE Cardinality(Raw) = K /\ \A x \in Raw : Score(x) >= Score(e)
    <3>1. shown.capped
      BY <2>3, <2>5
    <3> QED BY <2>5, <3>1 DEF Outranked
  <2> QED BY <2>1, <2>4, <2>5
<1> QED BY <1>1, NameAlways, PTL

=============================================================================
