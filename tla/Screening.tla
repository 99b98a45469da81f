----------------------------- MODULE Screening -----------------------------
(***************************************************************************)
(* The asynchronous services of the workstation over the hit book: the     *)
(* onboarding service, the re-screen service and its per-customer guard,   *)
(* the watchlist sync, the poll for a new publish, the change of the       *)
(* enabled lists, and the engine they share, with its reload, disposal and *)
(* failures.  Everything runs in one tab's event loop: an action is the    *)
(* code between two awaits.  All store calls go through one first-in       *)
(* first-out channel to the database worker, so a call takes effect where  *)
(* it is posted; its continuation is a later action, at any later time.    *)
(*                                                                         *)
(* A stamp is what compositeVersion joins: the version of every list it    *)
(* covers.  An engine's stamp covers the lists it loaded, the stamp the    *)
(* poll fetches covers the whole catalog.                                  *)
(***************************************************************************)
EXTENDS HitBook, Naturals, FiniteSets

CONSTANTS
    List,         \* the catalog's lists
    MaxPublish,   \* bound: how many versions of a list are ever published
    HitsOf,       \* HitsOf[i][l][n]: what identity i matches in version n of l
    Selections,   \* bound: the sets of lists a user enables
    Events,       \* what happens from outside in this instance, see Happens
    NoOne         \* no customer

(* "leave" is a route change away from the pages that boot the engine, and *)
(* the disposal that follows when no workstation page is left; "close" is  *)
(* the tab closing or crashing; "edit at rest" edits only a customer no    *)
(* screen is concerned with at the time, "edit" any.                       *)
EventKind == {"publish", "select", "onboard", "import", "screen", "edit at rest",
              "edit", "delete", "leave", "fail", "reload fails", "close"}

ASSUME ScreeningAssumption ==
    /\ MaxPublish \in Nat \ {0}
    /\ Version = UNION {[S -> 1..MaxPublish] : S \in SUBSET List}
    /\ NoVersion \notin Version /\ NoOne \notin Customer
    /\ NoRow \notin Row /\ NoRow \notin Identity
    /\ HitsOf \in [Identity -> [List -> [1..MaxPublish -> SUBSET Entity]]]
    /\ Selections \subseteq SUBSET List /\ Selections # {}
    /\ Events \subseteq EventKind

Kind == {"guarded", "onboard"}       \* #replaceFor under the guard; onboard
Loop == {"sync", "import", "lists"}  \* the callers of #rescanEach

VARIABLES
    lastSynced, \* the LAST_SYNCED_VERSION_KEY setting
    selection,  \* the enabled_watchlists setting, resolved
    published,  \* the catalog: the published version of every list
    engine,     \* EngineRuntime: its lifecycle phase, the lists it loads or
                \* has loaded, and the stamp of the loaded engine
    screen,     \* screen[k][c]: the screen in flight, or Idle
    loop,       \* loop[l]: the rescan loop in flight, or Off
    asked,      \* asked[c]: identity a screenCustomer call has read, or NoRow
    gate,       \* a page that boots the engine is mounted
    poll,       \* the update check in flight
    serial,     \* what holds the queue of serial()
    quiet       \* auxiliary: from now on nothing happens from outside

runVars   == <<screen, loop, asked>>
worldVars == <<selection, published, quiet>>
callVars  == <<gate, poll, serial>>
vars == <<book, hits, lastSynced, engine, runVars, worldVars, callVars>>

Stamps == Version \cup {NoVersion}
Idle == [phase |-> "idle", identity |-> NoRow, proof |-> NoVersion]
Off  == [stage |-> "off", todo |-> [c \in Customer |-> NoRow],
         awaiting |-> NoOne, target |-> NoVersion, full |-> FALSE]
NoPoll == [phase |-> "off", seen |-> NoVersion, answer |-> NoVersion]
Syncing == [NoPoll EXCEPT !.phase = "syncing"]

TypeOK ==
    /\ BookTypeOK
    /\ lastSynced \in Stamps
    /\ selection \in SUBSET List
    /\ published \in [List -> 1..MaxPublish]
    /\ engine \in [phase: {"cold", "loading", "ready", "draining", "reloading",
                           "warm", "disposing"},
                   lists: SUBSET List, version: Stamps]
    /\ screen \in [Kind -> [Customer ->
          [phase: {"idle", "boot", "queued", "doomed", "active", "stored"},
           identity: Identity \cup {NoRow}, proof: Stamps]]]
    /\ loop \in [Loop ->
          [stage: {"off", "list", "each"},
           todo: [Customer -> Identity \cup {NoRow}],
           awaiting: Customer \cup {NoOne}, target: Stamps, full: BOOLEAN]]
    /\ asked \in [Customer -> Identity \cup {NoRow}]
    /\ gate \in BOOLEAN
    /\ poll \in [phase: {"off", "asked", "answered", "syncing"}, seen: Stamps, answer: Stamps]
    /\ serial \in {"free", "boot", "reload", "saved", "select"}
    /\ quiet \in BOOLEAN

Init ==
    /\ BookInit
    /\ lastSynced = NoVersion
    /\ selection \in Selections
    /\ published = [l \in List |-> 1]
    /\ engine = [phase |-> "cold", lists |-> {}, version |-> NoVersion]
    /\ screen = [k \in Kind |-> [c \in Customer |-> Idle]]
    /\ loop = [l \in Loop |-> Off]
    /\ asked = [c \in Customer |-> NoRow]
    /\ gate = FALSE
    /\ poll = NoPoll
    /\ serial = "free"
    /\ quiet = FALSE

Happens(e) == e \in Events /\ ~quiet

(* compositeVersion over the lists of S, as published now. *)
StampOf(S) == [l \in S |-> published[l]]

(* A screen by an engine stamped v: every list of it, one after the other. *)
MatchesIn(i, v) == UNION {HitsOf[i][l][v[l]] : l \in DOMAIN v}

(* runtime.version(): null from the start of a reload until it has loaded, *)
(* but still the old stamp while a disposal drains.                        *)
stamp == IF engine.phase \in {"ready", "disposing"} THEN engine.version
                                                    ELSE NoVersion

Active == \E k \in Kind, c \in Customer : screen[k][c].phase = "active"
SerialFree == serial = "free" /\ loop["lists"].stage = "off"

-----------------------------------------------------------------------------
(* A guarded run settles: the loops that await it go on, or reject with it *)
(* (#rescanEach does not catch).                                           *)
ResumedNever(c, ok) ==    \* mutant: a failed run leaves its awaiters hanging
    [l \in Loop |->
        IF loop[l].awaiting = c /\ ok THEN [loop[l] EXCEPT !.awaiting = NoOne]
                                      ELSE loop[l]]

Resumed(c, ok) ==
    [l \in Loop |->
        IF loop[l].awaiting # c THEN loop[l]
        ELSE IF ok THEN [loop[l] EXCEPT !.awaiting = NoOne] ELSE Off]

Settle(k, c, ok) ==
    /\ screen' = [screen EXCEPT ![k][c] = Idle]
    /\ loop' = IF k = "guarded" THEN Resumed(c, ok) ELSE loop

(* bootEngine() with no engine there: load the lists enabled now. *)
Boots ==
    /\ engine.phase \in {"cold", "warm"}
    /\ engine' = [phase |-> "loading", lists |-> selection, version |-> NoVersion]

BootsOrJoins == Boots \/ (engine.phase = "loading" /\ UNCHANGED engine)

(* The run's await of its engine: bootEngine() starts a boot, joins a boot *)
(* or a reload in progress, or returns the engine there is, which a        *)
(* disposal may already have closed.                                       *)
AskEngine(k, c) ==
    /\ screen[k][c].phase = "boot"
    /\ \/ Boots /\ UNCHANGED screen
       \/ /\ engine.phase \in {"ready", "disposing"}
          /\ screen' = [screen EXCEPT ![k][c].phase =
                IF engine.phase = "ready" THEN "queued" ELSE "doomed"]
          /\ UNCHANGED engine
    /\ UNCHANGED <<bookVars, lastSynced, loop, asked, worldVars, callVars>>

(* MultiListScreeningEngine.screen: one at a time. *)
StartScreen(k, c) ==
    /\ screen[k][c].phase = "queued"
    /\ ~Active
    /\ screen' = [screen EXCEPT ![k][c].phase = "active"]
    /\ UNCHANGED <<bookVars, lastSynced, engine, loop, asked, worldVars, callVars>>

Stored(k, c) ==
    [screen EXCEPT ![k][c] = [phase |-> "stored", identity |-> @.identity,
                              proof |-> stamp]]

(* The screen answers.  Up to the post of its matches there is no await:   *)
(* the stamp is read, and replaceMatches (or recordMatches, if there is    *)
(* any match, or else markScreened) is posted, in the same turn.           *)
FinishScreen(k, c) ==
    LET es == MatchesIn(screen[k][c].identity, engine.version) IN
    /\ screen[k][c].phase = "active"
    /\ \/ /\ k = "guarded" /\ Replace(c, es)
          /\ screen' = Stored(k, c)
          /\ UNCHANGED loop
       \/ /\ k = "onboard" /\ es # {} /\ Record(c, es)
          /\ screen' = Stored(k, c)
          /\ UNCHANGED loop
       \/ /\ k = "onboard" /\ es = {}
          /\ IF stamp = NoVersion THEN UNCHANGED bookVars ELSE Prove(c, stamp)
          /\ Settle(k, c, TRUE)
       \/ /\ ~Known(c)      \* NotFoundError
          /\ UNCHANGED bookVars
          /\ Settle(k, c, FALSE)
    /\ UNCHANGED <<lastSynced, engine, asked, worldVars, callVars>>

MarkedLate(k, c) ==       \* mutant: the stamp is read when the mark is posted
    /\ screen[k][c].phase = "stored"
    /\ IF stamp # NoVersion /\ Known(c) THEN Prove(c, stamp) ELSE UNCHANGED bookVars
    /\ Settle(k, c, TRUE)
    /\ UNCHANGED <<lastSynced, engine, asked, worldVars, callVars>>

(* markScreenedWith, once the matches are stored: with the stamp read      *)
(* then, unless that was null.                                             *)
MarkScreened(k, c) ==
    LET proof == screen[k][c].proof IN
    /\ screen[k][c].phase = "stored"
    /\ \/ proof # NoVersion /\ Prove(c, proof) /\ Settle(k, c, TRUE)
       \/ proof = NoVersion /\ UNCHANGED bookVars /\ Settle(k, c, TRUE)
       \/ proof # NoVersion /\ ~Known(c) /\ UNCHANGED bookVars /\ Settle(k, c, FALSE)
    /\ UNCHANGED <<lastSynced, engine, asked, worldVars, callVars>>

(* A screen that was queued on an engine since disposed throws; so does    *)
(* one whose embedding, index or sealing fails or times out.               *)
ScreenThrows(k, c) ==
    /\ \/ screen[k][c].phase = "doomed"
       \/ screen[k][c].phase = "active" /\ Happens("fail")
    /\ Settle(k, c, FALSE)
    /\ UNCHANGED <<bookVars, lastSynced, engine, asked, worldVars, callVars>>

-----------------------------------------------------------------------------
(* One caller of syncWatchlist runs; the others share its promise.         *)
SyncCalled(v) ==
    IF loop["sync"].stage = "off"
      THEN [loop EXCEPT !["sync"] = [Off EXCEPT !.stage = "list", !.target = v]]
      ELSE loop

RescanCalled(l) == [loop EXCEPT ![l] = [Off EXCEPT !.stage = "list"]]

(* The page that boots the engine is mounted: engineBoot, and then once    *)
(* the sync, at once when the engine is there.                             *)
GateBoots ==
    /\ ~gate /\ SerialFree
    /\ gate' = TRUE
    /\ \/ /\ BootsOrJoins
          /\ serial' = "boot"
          /\ UNCHANGED loop
       \/ /\ engine.phase \in {"ready", "disposing"}
          /\ loop' = SyncCalled(stamp)
          /\ UNCHANGED <<engine, serial>>
    /\ UNCHANGED <<bookVars, lastSynced, screen, asked, worldVars, poll>>

LoadDoneUnstamped ==      \* mutant: a reload keeps the version of the boot
    LET v == StampOf(engine.lists) IN
    /\ engine.phase \in {"loading", "reloading"}
    /\ engine' = [engine EXCEPT !.phase = "ready",
          !.version = IF serial = "reload" THEN poll.seen ELSE v]
    /\ loop' = CASE serial = "boot" /\ gate -> SyncCalled(v)
                 [] serial = "reload"       -> SyncCalled(poll.answer)
                 [] OTHER                   -> loop
    /\ poll' = IF serial = "reload" THEN Syncing ELSE poll
    /\ serial' = "free"
    /\ UNCHANGED <<bookVars, lastSynced, screen, asked, worldVars, gate>>

(* The load is done, of one consistent catalog (a publish while it runs is *)
(* one just after it: the poll waits for the load).  Its caller goes on:   *)
(* the gate and the poll sync, the change of the lists re-screens all.     *)
LoadDone ==
    LET v == StampOf(engine.lists) IN
    /\ engine.phase \in {"loading", "reloading"}
    /\ engine' = [engine EXCEPT !.phase = "ready", !.version = v]
    /\ loop' = CASE serial = "boot" /\ gate -> SyncCalled(v)
                 [] serial = "reload"       -> SyncCalled(poll.answer)
                 [] serial = "select"       -> RescanCalled("lists")
                 [] OTHER                   -> loop
    /\ poll' = IF serial = "reload" THEN Syncing ELSE poll
    /\ serial' = IF serial = "saved" THEN serial ELSE "free"
    /\ UNCHANGED <<bookVars, lastSynced, screen, asked, worldVars, gate>>

(* A load that fails, or a boot that a disposal aborts.  A failed reload   *)
(* keeps the embedder.  The screens that await the load reject with it;    *)
(* those still on their way to it ask again.                               *)
LoadFails ==
    /\ \/ engine.phase = "loading" /\ Happens("fail")
       \/ engine.phase = "reloading" /\ Happens("reload fails")
    /\ engine' = [phase |-> IF engine.phase = "loading" THEN "cold" ELSE "warm",
                  lists |-> {}, version |-> NoVersion]
    /\ \E failed \in [Kind -> SUBSET Customer] :
          /\ \A k \in Kind : \A c \in failed[k] : screen[k][c].phase = "boot"
          /\ screen' = [k \in Kind |-> [c \in Customer |->
                IF c \in failed[k] THEN Idle ELSE screen[k][c]]]
          /\ loop' = [l \in Loop |->
                IF loop[l].awaiting \in failed["guarded"] THEN Off ELSE loop[l]]
    /\ gate' = (gate /\ serial # "boot")
    /\ poll' = IF serial = "reload" THEN NoPoll ELSE poll
    /\ serial' = IF serial = "saved" THEN serial ELSE "free"
    /\ UNCHANGED <<bookVars, lastSynced, asked, worldVars>>

(* reload() and dispose() close the engine: what is queued on it is lost,  *)
(* the active screen is waited for.  A reload clears the stamp first.      *)
Closing(phase) ==
    /\ engine.phase \in {"ready", "warm"}
    /\ engine' = [engine EXCEPT !.phase = phase]
    /\ screen' = [k \in Kind |-> [c \in Customer |->
          IF screen[k][c].phase = "queued"
            THEN [screen[k][c] EXCEPT !.phase = "doomed"] ELSE screen[k][c]]]

Drained ==
    /\ ~Active
    /\ \/ /\ engine.phase = "draining"
          /\ engine' = [phase |-> "reloading", lists |-> selection, version |-> NoVersion]
       \/ /\ engine.phase = "disposing"
          /\ engine' = [phase |-> "cold", lists |-> {}, version |-> NoVersion]
    /\ UNCHANGED <<bookVars, lastSynced, runVars, worldVars, callVars>>

Leave ==
    /\ Happens("leave")
    /\ gate /\ gate' = FALSE
    /\ UNCHANGED <<bookVars, lastSynced, engine, runVars, worldVars, poll, serial>>

(* The page mounted has no engine, and boots none by itself. *)
NoEngine == gate /\ engine.phase \in {"cold", "warm"} /\ serial # "boot"

(* The user leaves such a page, for whatever reason. *)
Revisit ==
    /\ NoEngine
    /\ gate' = FALSE
    /\ UNCHANGED <<bookVars, lastSynced, engine, runVars, worldVars, poll, serial>>

(* The last workstation page is left, or the cached lists are cleared.     *)
Dispose ==
    /\ Happens("leave")
    /\ ~gate
    /\ Closing("disposing")
    /\ UNCHANGED <<bookVars, lastSynced, loop, asked, worldVars, callVars>>

-----------------------------------------------------------------------------
(* screenCustomer and each turn of #rescanEach end in #guardedReplaceFor:  *)
(* join the run in flight for this customer or start one with the identity *)
(* the caller has read.                                                    *)
Guarded(c, identity) ==
    IF screen["guarded"][c] # Idle THEN screen
    ELSE [screen EXCEPT !["guarded"][c] =
             [Idle EXCEPT !.phase = "boot", !.identity = identity]]

LoopListsAllOrNone(l) ==  \* mutant: a sync of the recorded version does nothing
    LET full == lastSynced # loop[l].target IN
    /\ loop[l].stage = "list"
    /\ loop' = [loop EXCEPT ![l].stage = "each",
                            ![l].full = (l = "sync" /\ full),
                            ![l].todo = [c \in Customer |->
                                IF Known(c) /\ (l # "sync" \/ full)
                                  THEN book[c].identity ELSE NoRow]]
    /\ UNCHANGED <<bookVars, lastSynced, engine, screen, asked, worldVars, callVars>>

(* listCustomers: rescanAll takes everybody; #syncWatchlist too if the     *)
(* version moved, or else whoever has no proof for it.                     *)
LoopLists(l) ==
    LET v == loop[l].target
        full == lastSynced # v
        takes(c) == Known(c) /\ (l # "sync" \/ full \/ book[c].proof # v)
    IN
    /\ loop[l].stage = "list"
    /\ loop' = [loop EXCEPT ![l].stage = "each",
                            ![l].full = (l = "sync" /\ full),
                            ![l].todo = [c \in Customer |->
                                IF takes(c) THEN book[c].identity ELSE NoRow]]
    /\ UNCHANGED <<bookVars, lastSynced, engine, screen, asked, worldVars, callVars>>

LoopNext(l, c) ==
    /\ loop[l].stage = "each" /\ loop[l].awaiting = NoOne
    /\ loop[l].todo[c] # NoRow
    /\ screen' = Guarded(c, loop[l].todo[c])
    /\ loop' = [loop EXCEPT ![l].todo[c] = NoRow, ![l].awaiting = c]
    /\ UNCHANGED <<bookVars, lastSynced, engine, asked, worldVars, callVars>>

LoopDone(l) ==
    /\ loop[l].stage = "each" /\ loop[l].awaiting = NoOne
    /\ \A c \in Customer : loop[l].todo[c] = NoRow
    /\ loop' = [loop EXCEPT ![l] = Off]
    /\ lastSynced' = IF loop[l].full THEN loop[l].target ELSE lastSynced
    /\ UNCHANGED <<bookVars, engine, screen, asked, worldVars, callVars>>

(* screenCustomer, of the edit dialog among others: the customer has been  *)
(* read ...                                                                *)
ScreenOne(c) ==
    /\ Happens("screen")
    /\ Known(c) /\ asked[c] = NoRow
    /\ asked' = [asked EXCEPT ![c] = book[c].identity]
    /\ UNCHANGED <<bookVars, lastSynced, engine, screen, loop, worldVars, callVars>>

(* ... and is screened.                                                    *)
ScreenOneRuns(c) ==
    /\ asked[c] # NoRow
    /\ screen' = Guarded(c, asked[c])
    /\ asked' = [asked EXCEPT ![c] = NoRow]
    /\ UNCHANGED <<bookVars, lastSynced, engine, loop, worldVars, callVars>>

-----------------------------------------------------------------------------
(* checkForWatchlistUpdates, every half hour while the gate is mounted:    *)
(* read the stamp, fetch the published one, reload if they differ, sync    *)
(* against the published one.  Fetch and reload queue in serial(), and     *)
(* behind the engine's own loads and disposals.                            *)
PollStart ==
    /\ gate /\ poll.phase = "off" /\ stamp # NoVersion
    /\ poll' = [NoPoll EXCEPT !.phase = "asked", !.seen = stamp]
    /\ UNCHANGED <<bookVars, lastSynced, engine, runVars, worldVars, gate, serial>>

PollFetched ==
    /\ poll.phase = "asked" /\ SerialFree
    /\ engine.phase \in {"ready", "warm"}
    /\ IF poll.seen = StampOf(List)
         THEN poll' = Syncing /\ loop' = SyncCalled(StampOf(List))
         ELSE /\ poll' = [poll EXCEPT !.phase = "answered", !.answer = StampOf(List)]
              /\ UNCHANGED loop
    /\ UNCHANGED <<bookVars, lastSynced, engine, screen, asked, worldVars, gate, serial>>

(* No other poll starts before the sync of this one has ended.             *)
PollEnds ==
    /\ poll.phase = "syncing" /\ loop["sync"].stage = "off"
    /\ poll' = NoPoll
    /\ UNCHANGED <<bookVars, lastSynced, engine, runVars, worldVars, gate, serial>>

PollReloads ==
    /\ poll.phase = "answered" /\ SerialFree
    /\ Closing("draining")
    /\ serial' = "reload"
    /\ UNCHANGED <<bookVars, lastSynced, loop, asked, worldVars, gate, poll>>

(* Fetch and reload throw once a disposal has dropped the runtime's config *)
(* and embedder.                                                           *)
PollThrows ==
    /\ poll.phase \in {"asked", "answered"} /\ SerialFree
    /\ engine.phase = "cold"
    /\ poll' = NoPoll
    /\ UNCHANGED <<bookVars, lastSynced, engine, runVars, worldVars, gate, serial>>

-----------------------------------------------------------------------------
(* A new version of a list is published. *)
Publish(l) ==
    /\ Happens("publish")
    /\ published[l] < MaxPublish
    /\ published' = [published EXCEPT ![l] = @ + 1]
    /\ UNCHANGED <<bookVars, lastSynced, engine, runVars, selection, quiet, callVars>>

(* setEnabledLists: persist the selection, ...                             *)
SetLists(S) ==
    /\ Happens("select")
    /\ SerialFree
    /\ S # selection
    /\ selection' = S
    /\ serial' = "saved"
    /\ UNCHANGED <<bookVars, lastSynced, engine, runVars, published, quiet, gate, poll>>

(* ... reload the engine over it, or boot or join it if it has no stamp    *)
(* (the rescan follows the load).  A reload behind a disposal throws.      *)
SetListsLoads ==
    /\ serial = "saved"
    /\ \/ /\ engine.phase = "ready" /\ Closing("draining")
          /\ serial' = "select"
       \/ /\ BootsOrJoins
          /\ serial' = "select"
          /\ UNCHANGED screen
       \/ /\ engine.phase = "disposing"
          /\ serial' = "free"
          /\ UNCHANGED <<engine, screen>>
    /\ UNCHANGED <<bookVars, lastSynced, loop, asked, worldVars, gate, poll>>

-----------------------------------------------------------------------------
(* Nothing in flight concerns c. *)
Untouched(c) ==
    /\ \A k \in Kind : screen[k][c] = Idle
    /\ asked[c] = NoRow
    /\ \A l \in Loop : loop[l].todo[c] = NoRow

(* onboard: a fresh id, screened outside the guard.                        *)
Onboard(c, i) ==
    /\ Happens("onboard")
    /\ Untouched(c)
    /\ Enrol([d \in {c} |-> i])
    /\ screen' = [screen EXCEPT !["onboard"][c] =
          [Idle EXCEPT !.phase = "boot", !.identity = i]]
    /\ UNCHANGED <<lastSynced, engine, loop, asked, worldVars, callVars>>

(* importCustomers: one batch, then a rescan of everybody.  The empty      *)
(* batch stands for a change of the sensitivity, which re-screens          *)
(* everybody too.                                                          *)
Import(batch) ==
    /\ Happens("import")
    /\ loop["import"].stage = "off"
    /\ \A c \in DOMAIN batch : Untouched(c)
    /\ Enrol(batch)
    /\ loop' = RescanCalled("import")
    /\ UNCHANGED <<lastSynced, engine, screen, asked, worldVars, callVars>>

(* The edit dialog saves; its screenCustomer is a ScreenOne of its own.    *)
Edit(c, i) ==
    /\ Happens("edit") \/ (Happens("edit at rest") /\ Untouched(c))
    /\ Amend(c, i)
    /\ UNCHANGED <<lastSynced, engine, runVars, worldVars, callVars>>

Delete(c) ==
    /\ Happens("delete")
    /\ Erase(c)
    /\ UNCHANGED <<lastSynced, engine, runVars, worldVars, callVars>>

(* The tab closes, and the next one opens on the durable database.         *)
TabCloses ==
    /\ Happens("close")
    /\ engine' = [phase |-> "cold", lists |-> {}, version |-> NoVersion]
    /\ screen' = [k \in Kind |-> [c \in Customer |-> Idle]]
    /\ loop' = [l \in Loop |-> Off]
    /\ asked' = [c \in Customer |-> NoRow]
    /\ gate' = FALSE
    /\ poll' = NoPoll
    /\ serial' = "free"
    /\ UNCHANGED <<bookVars, lastSynced, worldVars>>

Quieten ==
    /\ ~quiet /\ quiet' = TRUE
    /\ UNCHANGED <<bookVars, lastSynced, engine, runVars, selection, published, callVars>>

Environment ==
    \/ Leave \/ Dispose \/ LoadFails \/ TabCloses \/ Quieten
    \/ \E l \in List : Publish(l)
    \/ \E S \in Selections : SetLists(S)
    \/ \E batch \in Batches : Import(batch)
    \/ \E c \in Customer :
          \/ ScreenOne(c) \/ Delete(c)
          \/ \E i \in Identity : Onboard(c, i) \/ Edit(c, i)

EngineNext == GateBoots \/ Revisit \/ LoadDone \/ Drained
PollNext   == PollStart \/ PollFetched \/ PollReloads \/ PollThrows \/ PollEnds
RunNext(k, c) ==
    \/ AskEngine(k, c) \/ StartScreen(k, c) \/ FinishScreen(k, c)
    \/ MarkScreened(k, c) \/ ScreenThrows(k, c)
RunLoop(l) == LoopLists(l) \/ LoopDone(l) \/ \E c \in Customer : LoopNext(l, c)

Next ==
    \/ Environment \/ EngineNext \/ PollNext \/ SetListsLoads
    \/ \E k \in Kind, c \in Customer : RunNext(k, c)
    \/ \E l \in Loop : RunLoop(l)
    \/ \E c \in Customer : ScreenOneRuns(c)

Spec == Init /\ [][Next]_vars

(* The event loop runs every continuation, loads and screens end (they are *)
(* under timeouts), and on a page with an engine the poll comes round      *)
(* again and again.  Nothing makes the user open a page, press Retry after *)
(* a failed boot, or leave a page that has lost its engine: that is a      *)
(* hypothesis of the properties.                                           *)
Fairness ==
    /\ WF_vars(LoadDone) /\ WF_vars(Drained)
    /\ WF_vars(PollStart) /\ WF_vars(PollFetched)
    /\ WF_vars(PollReloads) /\ WF_vars(PollThrows) /\ WF_vars(PollEnds)
    /\ WF_vars(SetListsLoads)
    /\ \A l \in Loop : WF_vars(RunLoop(l))
    /\ \A k \in Kind, c \in Customer : WF_vars(RunNext(k, c))
    /\ \A c \in Customer : WF_vars(ScreenOneRuns(c))

FairSpec == Spec /\ Fairness

-----------------------------------------------------------------------------
(* A customer whose proof names the lists loaded now has, on the board,    *)
(* every entity its present identity matches in them: no screen of older   *)
(* lists or of an older identity, and no failed one, can leave it reading  *)
(* "No matches".                                                           *)
NoFalseClear ==
    \A c \in Customer :
        Known(c) /\ stamp # NoVersion /\ book[c].proof = stamp =>
            MatchesIn(book[c].identity, stamp) \subseteq hits[c]

(* The user does not stay away, nor for ever on a page without an engine.  *)
UserReturns == []<>gate /\ []<>~NoEngine

(* Once nothing happens from outside, every customer comes to a proof      *)
(* against the published versions of the enabled lists, with exactly the   *)
(* matches it has in them, and keeps both, if the user returns.            *)
Screened ==
    \A c \in Customer : Known(c) =>
        /\ book[c].proof = StampOf(selection)
        /\ hits[c] = MatchesIn(book[c].identity, StampOf(selection))

BoardConverges == UserReturns => (quiet ~> []Screened)

(* Once nothing is published any more, the poll stops reloading the engine *)
(* and re-screening the customers, if the user returns.                    *)
PollRests ==
    UserReturns => (quiet ~> []( /\ engine.phase = "ready"
                                 /\ \A c \in Customer : screen["guarded"][c] = Idle ))

(* Whatever fails in a check, it comes to an end and lets the next one     *)
(* begin (isChecking, WorkstationGate.tsx:302-312); and one begins, again  *)
(* and again, on a page that has an engine or gets one.                    *)
PollGoesOn ==
    <>quiet => /\ []<>(poll.phase = "off")
               /\ UserReturns => []<>(poll.phase # "off")

(* What the comment says of the poll, "a transient fetch failure never     *)
(* stops future polls" (WorkstationGate.tsx:288), of a page that stays     *)
(* open.  Violated: a reload that fails leaves no version, and every later *)
(* tick of the poll returns at once (sync.ts:74).                          *)
PollNeverStops == <>[](quiet /\ gate) => []<>(poll.phase # "off")

(* What dispose says of itself, "the instance stays usable (a later        *)
(* bootstrap re-boots from scratch)" (runtime.ts:537-538), of a page that  *)
(* stays open when nothing fails.  Violated: a bootstrap called while a    *)
(* disposal is under way is handed the engine that dies.                   *)
BootsAgain == <>[](quiet /\ gate) => []<>(engine.phase = "ready")
=============================================================================
