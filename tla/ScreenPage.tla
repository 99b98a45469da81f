------------------------------ MODULE ScreenPage ------------------------------
(* The public /screen page (ScreenPage.tsx): the boot and its banner, the    *)
(* lists the search covers, the search typed by the visitor, and the error   *)
(* card with its Retry and "Clear cached lists".  The page owns a runtime;   *)
(* here the runtime is the queue of its calls, each of which succeeds or     *)
(* fails when its turn comes (EngineRuntime has the detail), and the boots   *)
(* that a teardown or a later boot has made stale.                           *)
EXTENDS Naturals, Sequences

CONSTANTS Query,       \* what may be typed
          Level,       \* the stops of the strictness control
          CatalogList, \* the lists of the signed catalog
          UsList,      \* the one a phone starts with
          Empty,       \* the empty box
          NoAnswer,    \* no outcome is shown: "searching"
          Found(_, _), \* the lists where a query has a match that passes a level's gate
          Phone,       \* isMobileBrowser
          Supported,   \* engineSupport().supported
          MaxSearches, MaxRuntimeCalls  \* bounds

ASSUME ScreenAssumption == Level # {} /\ MaxSearches \in Nat

VARIABLES page,    \* what the component renders from: phase, scope, catalog, card
          box,     \* the typed query and the chosen level
          timer,   \* the debounce: TRUE when a search of box is about to start
          chain,   \* runSearch calls under way, in the order of their inflight promises
          shown,   \* the outcome on display
          seq,     \* seq.current
          engine,  \* the runtime's engine: its lists, its model, and the boot promise
          calls    \* the runtime's queue of calls made by the page

screenVars == <<page, box, timer, chain, shown, seq, engine, calls>>

Scope == {"us-only", "all-lists", "all-lists-streaming"}
\* screenSelection, resolved against the catalog
ListsOf(scope) == IF scope = "us-only" THEN {UsList} \cap CatalogList ELSE CatalogList

Outcome == [kind : {"matches"}, query : Query, level : Level,
            lists : SUBSET CatalogList, none : BOOLEAN]
           \cup [kind : {"error"}, query : Query]

ScreenInit ==
  /\ page = [phase |-> IF Supported THEN "booting" ELSE "unsupported",
             scope |-> IF Phone THEN "us-only" ELSE "all-lists",
             catalog |-> "unread", card |-> "idle", alive |-> TRUE,
             booted |-> FALSE, disposal |-> "none"]
  /\ box = [query |-> Empty, level |-> CHOOSE l \in Level : TRUE]
  /\ timer = FALSE /\ chain = <<>> /\ shown = NoAnswer /\ seq = 0
  /\ engine = [lists |-> {}, ready |-> FALSE, warm |-> FALSE, config |-> FALSE,
               promise |-> "none"]
  /\ calls = <<>>

CanCall == Len(calls) < MaxRuntimeCalls
Call(kind, scope, live) ==
  [kind |-> kind, scope |-> scope, live |-> live, current |-> kind = "boot"]
Torn(q) == \E k \in 2..Len(q) : q[k].kind \in {"clear", "dispose"}
Reloading(q) == \E k \in DOMAIN q : q[k].kind = "reload"

\* calls that are no longer current, and boots that are superseded besides
Passed(q) == [k \in DOMAIN q |-> [q[k] EXCEPT !.current = FALSE]]
Superseded(q) == [k \in DOMAIN q |-> [q[k] EXCEPT !.live = FALSE, !.current = FALSE]]

\* bootstrap: a promise that stands is handed out. A new boot takes the place of the one
\* before as the current one; a teardown that has yet to start will supersede it
Boots(e, q) ==
  IF e.promise # "none" \/ Reloading(q) THEN engine' = e /\ calls' = q
  ELSE /\ engine' = [e EXCEPT !.promise = "pending"]
       /\ calls' = Append(Passed(q), Call("boot", page.scope, ~Torn(q)))

\* reload: one that is pending is joined
ReloadsLists(q) ==
  calls' = IF Reloading(q) THEN q ELSE Append(q, Call("reload", "all-lists-streaming", TRUE))

\* clearListCache and dispose abort the current boot and with it every other, then queue
TearsDown(kind) ==
  IF \E k \in DOMAIN calls : calls[k].current
  THEN /\ engine' = [engine EXCEPT !.warm = FALSE]
       /\ calls' = Append(Superseded(calls), Call(kind, page.scope, TRUE))
  ELSE engine' = engine /\ calls' = Append(calls, Call(kind, page.scope, TRUE))

\* Mutant of PhaseIs: the search effect does not depend on the phase.
PhaseIsNoDependency(phase, p) ==
  page' = [p EXCEPT !.phase = phase] /\ timer' = timer
\* the phase is one of the dependencies of the search effect: its cleanup drops the timer
\* and, on "ready" with a query, the effect sets it again
PhaseIs(phase, p) ==
  /\ page' = [p EXCEPT !.phase = phase]
  /\ timer' = IF phase # page.phase THEN phase = "ready" /\ box.query # Empty ELSE timer

-----------------------------------------------------------------------------
(* Mounting and leaving.                                                     *)

\* the boot effect, once per nonce; a replayed mount finds its nonce booted
BootEffect ==
  /\ Supported /\ page.alive /\ ~page.booted /\ CanCall
  /\ page' = [page EXCEPT !.booted = TRUE]
  /\ Boots(engine, calls)
  /\ UNCHANGED <<box, timer, chain, shown, seq>>

\* unmount disarms alive and defers the disposal by one macrotask; StrictMode's replay of
\* the effects cancels it in the same task, which leaves everything as it was: no step
Unmount ==
  /\ page.alive
  /\ page' = [page EXCEPT !.alive = FALSE, !.disposal = "deferred"]
  /\ timer' = FALSE
  /\ UNCHANGED <<box, chain, shown, seq, engine, calls>>

DisposalFires ==
  /\ page.disposal = "deferred"
  /\ page' = [page EXCEPT !.disposal = "done"]
  /\ TearsDown("dispose")
  /\ UNCHANGED <<box, timer, chain, shown, seq>>

-----------------------------------------------------------------------------
(* The buttons of the banner and of the scope line.                          *)

IncludeAllLists ==
  /\ PhaseIs("booting", [page EXCEPT !.scope = "all-lists-streaming"])
  /\ ReloadsLists(calls) /\ UNCHANGED engine

\* a boot that was aborted stays the promise until its teardown ends, and rejects at once
RetryBoot ==
  /\ PhaseIs(IF engine.promise = "rejected" THEN "error" ELSE "booting",
             [page EXCEPT !.catalog = "unread", !.booted = TRUE, !.card = "idle"])
  /\ Boots(engine, calls)

\* onRetry: which of the two depends on the scope the page is in
OnRetry == IF page.scope = "all-lists-streaming" THEN IncludeAllLists ELSE RetryBoot

OptIn ==
  /\ page.alive /\ page.phase = "ready" /\ page.catalog # "unread"
  /\ page.scope = "us-only" /\ CanCall
  /\ IncludeAllLists
  /\ UNCHANGED <<box, chain, shown, seq>>

Retry ==
  /\ page.alive /\ page.phase = "error" /\ CanCall
  /\ OnRetry
  /\ UNCHANGED <<box, chain, shown, seq>>

\* CacheRecovery: two deliberate clicks, then the clear; only a recoverable refusal offers it
AskToClear ==
  /\ page.alive /\ page.phase = "error" /\ page.card \in {"offered", "confirming"}
  /\ page' = [page EXCEPT !.card = IF @ = "offered" THEN "confirming" ELSE "offered"]
  /\ UNCHANGED <<box, timer, chain, shown, seq, engine, calls>>

ConfirmClear ==
  /\ page.alive /\ page.phase = "error" /\ page.card = "confirming" /\ CanCall
  /\ page' = [page EXCEPT !.card = "clearing"]
  /\ TearsDown("clear")
  /\ UNCHANGED <<box, timer, chain, shown, seq>>

-----------------------------------------------------------------------------
(* The runtime answers the oldest call of the page.                          *)

Serves(scope, promise) ==
  [lists |-> ListsOf(scope), ready |-> TRUE, warm |-> TRUE, config |-> TRUE,
   promise |-> promise]
Gone == [lists |-> {}, ready |-> FALSE, warm |-> FALSE, config |-> FALSE, promise |-> "none"]

\* bootstrap resolves, and the page reads the catalog
BootResolves ==
  /\ Head(calls).kind = "boot" /\ Head(calls).live
  /\ engine' = Serves(Head(calls).scope, IF Head(calls).current /\ engine.promise = "pending"
                                         THEN "kept" ELSE engine.promise)
  /\ IF page.alive
     THEN /\ PhaseIs("ready", [page EXCEPT !.card = "idle"])
          /\ calls' = Append(Tail(calls), Call("catalog", page.scope, TRUE))
     ELSE calls' = Tail(calls) /\ UNCHANGED <<page, timer>>

ReloadResolves ==
  /\ Head(calls).kind = "reload" /\ engine.warm /\ engine.config
  /\ engine' = Serves(Head(calls).scope, "kept")
  /\ IF page.alive THEN PhaseIs("ready", [page EXCEPT !.card = "idle"])
                   ELSE UNCHANGED <<page, timer>>
  /\ calls' = Tail(calls)

\* the page shows why; the card offers the clear when it is a refusal of the bundle
PageFails(refused) ==
  IF page.alive
  THEN \E card \in IF refused THEN {"offered", "idle"} ELSE {"idle"} :
         PhaseIs("error", [page EXCEPT !.card = card])
  ELSE UNCHANGED <<page, timer>>

\* only the current boot cleans up after itself; one that was aborted leaves its rejected
\* promise behind, and a model when it was aborted before it had begun
BootRejects ==
  LET boot == Head(calls) IN
  /\ boot.kind = "boot"
  /\ IF boot.current
     THEN engine' = [engine EXCEPT !.warm = FALSE, !.config = FALSE, !.promise = "none"]
     ELSE \E warm \in {engine.warm, TRUE} :
            engine' = [engine EXCEPT
              !.warm = warm, !.config = TRUE,
              !.promise = IF @ = "pending" /\ \A k \in 2..Len(calls) : calls[k].kind # "boot"
                          THEN "rejected" ELSE @]
  /\ PageFails(boot.live) /\ calls' = Tail(calls)

\* a reload drops the engine before it loads, and keeps the model; without a model or a
\* config it throws before it does anything
ReloadRejects ==
  LET begins == engine.warm /\ engine.config IN
  /\ Head(calls).kind = "reload"
  /\ engine' = IF begins THEN [Gone EXCEPT !.warm = TRUE, !.config = TRUE] ELSE engine
  /\ PageFails(begins) /\ calls' = Tail(calls)

\* readCatalog: a refusal is "age unknown", never an error of the page
CatalogReads ==
  /\ Head(calls).kind = "catalog"
  /\ \E answer \in IF engine.config THEN {"read", "null"} ELSE {"null"} :
       page' = IF page.alive THEN [page EXCEPT !.catalog = answer] ELSE page
  /\ calls' = Tail(calls) /\ UNCHANGED <<timer, engine>>

\* clearListCache drops the engine and the model either way; onCleared is the onRetry of
\* the render that was clicked, and a page that was left boots nothing
ClearResolves ==
  /\ Head(calls).kind = "clear"
  /\ IF Head(calls).scope = "all-lists-streaming"
     THEN /\ PhaseIs("booting", [page EXCEPT !.card = "idle"])
          /\ engine' = Gone /\ ReloadsLists(Tail(calls))
     ELSE IF page.alive
     THEN /\ PhaseIs("booting", [page EXCEPT !.card = "idle", !.catalog = "unread"])
          /\ Boots(Gone, Tail(calls))
     ELSE engine' = Gone /\ calls' = Tail(calls) /\ UNCHANGED <<page, timer>>

ClearRejects ==
  /\ Head(calls).kind = "clear" /\ engine' = Gone
  /\ page' = IF page.card = "clearing" THEN [page EXCEPT !.card = "offered"] ELSE page
  /\ calls' = Tail(calls) /\ UNCHANGED timer

Disposes ==
  /\ Head(calls).kind = "dispose" /\ engine' = Gone
  /\ calls' = Tail(calls) /\ UNCHANGED <<page, timer>>

RuntimeAnswers ==
  /\ calls # <<>>
  /\ \/ BootResolves \/ ReloadResolves \/ BootRejects \/ ReloadRejects \/ CatalogReads
     \/ ClearResolves \/ ClearRejects \/ Disposes
  /\ UNCHANGED <<box, chain, shown, seq>>

-----------------------------------------------------------------------------
(* Searching.                                                                *)

\* typing, an example chip or a date; the empty box cancels what is in flight
Type(q) ==
  /\ page.alive /\ page.phase = "ready" /\ q # box.query
  /\ box' = [box EXCEPT !.query = q]
  /\ IF q = Empty
     THEN seq' = seq + 1 /\ shown' = NoAnswer /\ timer' = FALSE
     ELSE timer' = TRUE /\ UNCHANGED <<seq, shown>>
  /\ UNCHANGED <<page, chain, engine, calls>>

Choose(l) ==
  /\ page.alive /\ page.phase = "ready" /\ l # box.level
  /\ box' = [box EXCEPT !.level = l]
  /\ timer' = (box.query # Empty)
  /\ UNCHANGED <<page, chain, shown, seq, engine, calls>>

\* the debounce has passed: runSearch takes a number and the engine, and queues behind
\* the search in flight
DebounceFires ==
  /\ timer /\ page.phase = "ready" /\ seq < MaxSearches
  /\ timer' = FALSE
  /\ IF engine.ready
     THEN /\ seq' = seq + 1
          /\ chain' = Append(chain, [n |-> seq + 1, query |-> box.query, level |-> box.level,
                                     lists |-> engine.lists, on |-> FALSE])
     ELSE UNCHANGED <<seq, chain>>
  /\ UNCHANGED <<page, box, shown, engine, calls>>

\* the search before it is done: a superseded one is skipped, another asks its engine
SearchStarts ==
  /\ chain # <<>> /\ ~Head(chain).on
  /\ chain' = IF Head(chain).n # seq THEN Tail(chain) ELSE [chain EXCEPT ![1].on = TRUE]
  /\ UNCHANGED <<page, box, timer, shown, seq, engine, calls>>

Shows(outcome) ==
  shown' = IF Head(chain).n = seq /\ page.alive THEN outcome ELSE shown

SearchAnswers ==
  /\ chain # <<>> /\ Head(chain).on
  /\ LET s == Head(chain) IN
     Shows([kind |-> "matches", query |-> s.query, level |-> s.level, lists |-> s.lists,
            none |-> Found(s.query, s.level) \cap s.lists = {}])
  /\ chain' = Tail(chain)
  /\ UNCHANGED <<page, box, timer, seq, engine, calls>>

\* an engine dropped meanwhile, a list that no longer verifies, a Worker that died
SearchRejects ==
  /\ chain # <<>> /\ Head(chain).on
  /\ Shows([kind |-> "error", query |-> Head(chain).query])
  /\ chain' = Tail(chain)
  /\ UNCHANGED <<page, box, timer, seq, engine, calls>>

Typing == seq < MaxSearches
ScreenNext ==
  \/ BootEffect \/ Unmount \/ DisposalFires
  \/ OptIn \/ Retry \/ AskToClear \/ ConfirmClear
  \/ RuntimeAnswers
  \/ Typing /\ (\/ \E q \in Query \cup {Empty} : Type(q)
                \/ \E l \in Level : Choose(l))
  \/ DebounceFires \/ SearchStarts \/ SearchAnswers \/ SearchRejects

ScreenFairness ==
  /\ WF_screenVars(BootEffect) /\ WF_screenVars(RuntimeAnswers)
  /\ WF_screenVars(DebounceFires) /\ WF_screenVars(SearchStarts)
  /\ WF_screenVars(SearchAnswers \/ SearchRejects)
ScreenSpec == ScreenInit /\ [][ScreenNext]_screenVars /\ ScreenFairness

-----------------------------------------------------------------------------
(* Properties.                                                               *)

ScreenTypeOK ==
  /\ page.phase \in {"booting", "ready", "error", "unsupported"} /\ page.scope \in Scope
  /\ shown = NoAnswer \/ shown \in Outcome
  /\ \A k \in DOMAIN chain : chain[k].n \in 1..seq
  /\ timer \in BOOLEAN

ShowsClear ==
  page.phase = "ready" /\ box.query # Empty /\ shown # NoAnswer
  /\ shown.kind = "matches" /\ shown.none

\* ScreenPage.tsx:296-299: an unscreened name must never fall through to the no-match
\* (clear) render: the name on the clear line is one a search answered for.
NoUnscreenedClear == ShowsClear => shown.query = box.query

\* Once nothing is under way, what is on display answers the box as it stands: this name,
\* at this level, over the lists the page says it covers, whatever was typed, chosen,
\* reloaded or superseded on the way.
DisplayComesToRest ==
  page.alive /\ page.phase = "ready" /\ engine.ready /\ box.query # Empty
  /\ ~timer /\ chain = <<>> /\ calls = <<>> /\ shown # NoAnswer =>
    /\ shown.query = box.query
    /\ shown.kind = "matches" => /\ shown.level = box.level
                                 /\ shown.lists = ListsOf(page.scope)

\* A search is answered: the page does not stay on "searching".
Searching ==
  /\ page.alive /\ page.phase = "ready" /\ engine.ready /\ box.query # Empty
  /\ shown = NoAnswer
SearchIsAnswered == []<>(~Searching \/ (timer /\ seq = MaxSearches))

\* CacheRecovery.tsx:37-39: the error card is never a dead end: the call its Retry makes is
\* one the runtime can serve.
RetryCanWork ==
  page.phase = "error" /\ page.scope = "all-lists-streaming" /\ calls = <<>> =>
    engine.warm /\ engine.config
=============================================================================
