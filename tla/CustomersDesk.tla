--------------------------- MODULE CustomersDesk ---------------------------
(* The customers page (CustomersPage.tsx with customerScreening.ts,          *)
(* useLoadedListVersion.ts and the customer slice of localApi.ts): what a    *)
(* row may claim, from three reads taken one after the other (the customers  *)
(* with their proof of screening, their matches page by page, the version of *)
(* the lists that are loaded), while handlers of the page and the watchlist  *)
(* poll write the store.  Modules MatchStore and Screening are the store and *)
(* the screens in full: here an identity either matches a list version or    *)
(* does not, and one screen of a customer runs at a time.                    *)
EXTENDS Naturals, FiniteSets

CONSTANTS Customer, Order,  \* the customers, and the order their matches are listed in
          Names,            \* the identities an edit may give
          NoRow, Unread,
          Matched(_, _, _), \* does a customer under a name match a list version?
          PageSize,         \* REVIEW_PAGE_SIZE
          MaxVersion, MaxTasks, MaxDecisions  \* bounds: publishes, handlers run, decisions

ASSUME DeskAssumption ==
  /\ {MaxTasks, MaxDecisions} \subseteq Nat /\ {MaxVersion, PageSize} \subseteq Nat \ {0}
  /\ DOMAIN Order \subseteq Nat /\ \A c \in Customer : \E i \in DOMAIN Order : Order[i] = c
  /\ NoRow \notin Customer
  /\ NoRow \notin [name : Names, proof : Nat, match : {"none", "toReview", "confirmed", "cleared"}]

VARIABLES row,       \* customers: name, proof of screening (0: none), the match on the board
          published, \* the version the origin serves
          engine,    \* the version loaded, 0 before the boot
          screen,    \* per customer: the screen under way
          desk,      \* the page: the three reads and its flags
          task,      \* per actor, the page and the poll: the handler under way
          spent      \* handlers started and decisions taken

deskVars == <<row, published, engine, screen, desk, task, spent>>

Actors == {"page", "poll"}
NoScreen == [at |-> "idle", name |-> NoRow, version |-> 0]
NoTask == [at |-> "idle", left |-> {}, on |-> NoRow, offset |-> 0, read |-> {}]
Fresh(n) == [name |-> n, proof |-> 0, match |-> "none"]
Here == {c \in Customer : row[c] # NoRow}

DeskInit ==
  /\ \E r \in {NoRow} \cup {Fresh(n) : n \in Names} : row = [c \in Customer |-> r]
  /\ published = 1 /\ engine = 0
  /\ screen = [c \in Customer |-> NoScreen]
  /\ desk = [list |-> [c \in Customer |-> NoRow], sums |-> Unread, version |-> 0,
             failed |-> FALSE, loading |-> TRUE]
  /\ task = [a \in Actors |-> IF a = "page" THEN [NoTask EXCEPT !.at = "listing"] ELSE NoTask]
  /\ spent = [tasks |-> 0, decisions |-> 0]

-----------------------------------------------------------------------------
(* What a row claims.                                                        *)

\* screeningSummaries: by customer; a customer without a match is clear
Summary(c) == IF c \in DOMAIN desk.sums THEN desk.sums[c] ELSE "clear"

\* screeningStateFor, and viewFor: a failed boot proves nothing
Claim(c) ==
  IF desk.sums = Unread THEN "unknown"
  ELSE IF Summary(c) \in {"toReview", "confirmed"} THEN Summary(c)
  ELSE IF desk.version = 0 THEN IF desk.failed THEN "unknown" ELSE "listsLoading"
  ELSE IF desk.list[c].proof = desk.version THEN Summary(c)
  ELSE "notScreened"

Listed == {c \in Customer : desk.list[c] # NoRow}
Unscreened == {c \in Listed : Claim(c) = "notScreened"}

-----------------------------------------------------------------------------
(* The engine and the screens.                                               *)

PublishesList ==
  /\ published < MaxVersion /\ published' = published + 1
  /\ UNCHANGED <<row, engine, screen, desk, task, spent>>

\* the boot the gate kicks; the hook re-reads the version when it is done
Boots ==
  /\ engine = 0 /\ engine' = published
  /\ desk' = [desk EXCEPT !.version = published]
  /\ UNCHANGED <<row, published, screen, task, spent>>
BootFails ==
  /\ engine = 0 /\ ~desk.failed /\ desk' = [desk EXCEPT !.failed = TRUE]
  /\ UNCHANGED <<row, published, engine, screen, task, spent>>

\* one customer after the other; the screen reads the identity it was handed and the
\* lists loaded at its end, and a screen of the same customer under way is shared
StartsScreen(a, c) ==
  /\ task[a].at = "screening" /\ task[a].on = NoRow /\ c \in task[a].left
  /\ row[c] # NoRow /\ engine # 0
  /\ task' = [task EXCEPT ![a].on = c]
  /\ screen' = IF screen[c].at # "idle" THEN screen
               ELSE [screen EXCEPT ![c] = [at |-> "found", name |-> row[c].name, version |-> engine]]
  /\ UNCHANGED <<row, published, engine, desk, spent>>

\* replaceMatches, then markScreened; a match that stays keeps its decision
Found(c) == Matched(c, screen[c].name, screen[c].version)
StoresMatches(c) ==
  /\ screen[c].at = "found" /\ row[c] # NoRow
  /\ row' = [row EXCEPT ![c].match = IF ~Found(c) THEN "none"
                                     ELSE IF @ = "none" THEN "toReview" ELSE @]
  /\ screen' = [screen EXCEPT ![c].at = "stored"]
  /\ UNCHANGED <<published, engine, desk, task, spent>>
\* whoever waits for this screen goes on
Ended(c) == [a \in Actors |-> IF task[a].on # c THEN task[a]
                              ELSE [task[a] EXCEPT !.on = NoRow, !.left = @ \ {c}]]
MarksScreened(c) ==
  /\ screen[c].at = "stored" /\ row[c] # NoRow
  /\ row' = [row EXCEPT ![c].proof = screen[c].version]
  /\ screen' = [screen EXCEPT ![c] = NoScreen]
  /\ task' = Ended(c)
  /\ UNCHANGED <<published, engine, desk, spent>>

\* a handler that fails says so and loads nothing; the poll is silent
Fails(a) ==
  /\ task[a].at \in {"reloading", "screening"} /\ task[a].on = NoRow
  /\ task' = [task EXCEPT ![a] = NoTask]
  /\ UNCHANGED <<row, published, engine, screen, desk, spent>>
\* the screen fails, or its customer was deleted and the write is refused: so do all
\* that wait for it, and what was stored without its proof stays
ScreenLost(c) ==
  /\ screen[c].at # "idle"
  /\ screen' = [screen EXCEPT ![c] = NoScreen]
  /\ task' = [a \in Actors |-> IF task[a].on = c THEN NoTask ELSE task[a]]
  /\ UNCHANGED <<row, published, engine, desk, spent>>
AllScreened(a) ==
  /\ task[a].at = "screening" /\ task[a].left = {}
  /\ task' = [task EXCEPT ![a] = IF a = "page" THEN [NoTask EXCEPT !.at = "listing"] ELSE NoTask]
  /\ desk' = IF a = "page" THEN [desk EXCEPT !.loading = TRUE] ELSE desk
  /\ UNCHANGED <<row, published, engine, screen, spent>>

-----------------------------------------------------------------------------
(* The handlers, one at a time of the page's, and the poll beside them.      *)

Starts(a, t) ==
  /\ task[a].at = "idle" /\ spent.tasks < MaxTasks
  /\ spent' = [spent EXCEPT !.tasks = @ + 1]
  /\ task' = [task EXCEPT ![a] = t]
Screening(S) == [NoTask EXCEPT !.at = "screening", !.left = S]
Listing == [NoTask EXCEPT !.at = "listing"]

\* handleOnboard: the row first, then its screen
Onboards(c, n) ==
  /\ row[c] = NoRow /\ screen[c].at = "idle" /\ Starts("page", Screening({c}))
  /\ row' = [row EXCEPT ![c] = Fresh(n)] /\ UNCHANGED <<published, engine, screen, desk>>

\* handleImportConfirm: every customer of the file, in one transaction, and a rescan
Imports(S, n) ==
  /\ S # {} /\ S \cap Here = {} /\ \A c \in S : screen[c].at = "idle"
  /\ Starts("page", Screening(Here \cup S))
  /\ row' = [c \in Customer |-> IF c \in S THEN Fresh(n) ELSE row[c]]
  /\ UNCHANGED <<published, engine, screen, desk>>

\* handleDelete: then the lists are read again
Deletes(c) ==
  /\ ~desk.loading /\ c \in Listed /\ c \in Here /\ Starts("page", Listing)
  /\ row' = [row EXCEPT ![c] = NoRow] /\ desk' = [desk EXCEPT !.loading = TRUE]
  /\ UNCHANGED <<published, engine, screen>>

\* handleEditSave: a new identity voids the proof, and is screened.  An edit under a
\* screen of the same customer is the subject of module Screening
Edits(c, n) ==
  /\ ~desk.loading /\ c \in Listed /\ c \in Here /\ n # desk.list[c].name
  /\ screen[c].at = "idle" /\ Starts("page", Screening({c}))
  /\ row' = [row EXCEPT ![c].name = n, ![c].proof = IF n = row[c].name THEN @ ELSE 0]
  /\ UNCHANGED <<published, engine, screen, desk>>

\* handleScreenUnscreened
ScreensUnscreened ==
  /\ ~desk.loading /\ Unscreened # {} /\ Unscreened \subseteq Here
  /\ Starts("page", Screening(Unscreened))
  /\ UNCHANGED <<row, published, engine, screen, desk>>

\* handleCheckForUpdates and the poll of the gate: reload when another version is
\* published, then every customer
ChecksForUpdates(a) ==
  /\ Starts(a, [NoTask EXCEPT !.at = "reloading"])
  /\ UNCHANGED <<row, published, engine, screen, desk>>
Reloads(a) ==
  /\ task[a].at = "reloading" /\ engine' = published
  /\ task' = [task EXCEPT ![a] = Screening(Here)]
  /\ UNCHANGED <<row, published, screen, desk, spent>>

\* the review board, in another view of the tab
Decides(c, to) ==
  /\ c \in Here /\ row[c].match \notin {"none", to} /\ spent.decisions < MaxDecisions
  /\ row' = [row EXCEPT ![c].match = to]
  /\ spent' = [spent EXCEPT !.decisions = @ + 1]
  /\ UNCHANGED <<published, engine, screen, desk, task>>

-----------------------------------------------------------------------------
(* loadCustomers: the customers, their matches page by page, the version.    *)

ListsCustomers ==
  /\ task["page"].at = "listing"
  /\ desk' = [desk EXCEPT !.list = row]
  /\ task' = [task EXCEPT !["page"] = [NoTask EXCEPT !.at = "paging"]]
  /\ UNCHANGED <<row, published, engine, screen, spent>>

\* listAllReviewMatches: the strongest first, by offset, until a short page
Board == {c \in Here : row[c].match # "none"}
Place(c) == CHOOSE i \in DOMAIN Order : Order[i] = c
Rank(c) == Cardinality({d \in Board : Place(d) <= Place(c)})
Page == {c \in Board : Rank(c) \in task["page"].offset + 1 .. task["page"].offset + PageSize}
Read == task["page"].read \cup {<<c, row[c].match>> : c \in Page}
SumsOf(read) == [c \in {p[1] : p \in read} |-> (CHOOSE p \in read : p[1] = c)[2]]
ReadsPage ==
  /\ task["page"].at = "paging" /\ Cardinality(Page) = PageSize
  /\ task' = [task EXCEPT !["page"].offset = @ + PageSize, !["page"].read = Read]
  /\ UNCHANGED <<row, published, engine, screen, desk, spent>>
ReadsLastPage ==
  /\ task["page"].at = "paging" /\ Cardinality(Page) < PageSize
  /\ desk' = [desk EXCEPT !.sums = SumsOf(Read)]
  /\ task' = [task EXCEPT !["page"] = [NoTask EXCEPT !.at = "refreshing"]]
  /\ UNCHANGED <<row, published, engine, screen, spent>>
\* the matches could not be read: every row is unknown
ReadFails ==
  /\ task["page"].at = "paging"
  /\ desk' = [desk EXCEPT !.sums = Unread]
  /\ task' = [task EXCEPT !["page"] = [NoTask EXCEPT !.at = "refreshing"]]
  /\ UNCHANGED <<row, published, engine, screen, spent>>

ReadsVersionOfRows ==  \* mutant: the customers of now stand beside the matches of before
  /\ task["page"].at = "refreshing"
  /\ desk' = [desk EXCEPT !.version = engine, !.loading = FALSE, !.list = row]
  /\ task' = [task EXCEPT !["page"] = NoTask]
  /\ UNCHANGED <<row, published, engine, screen, spent>>
ReadsVersion ==
  /\ task["page"].at = "refreshing"
  /\ desk' = [desk EXCEPT !.version = engine, !.loading = FALSE]
  /\ task' = [task EXCEPT !["page"] = NoTask]
  /\ UNCHANGED <<row, published, engine, screen, spent>>
\* listCustomers failed: the rows of before stay
ListFails ==
  /\ task["page"].at = "listing"
  /\ desk' = [desk EXCEPT !.loading = FALSE]
  /\ task' = [task EXCEPT !["page"] = NoTask]
  /\ UNCHANGED <<row, published, engine, screen, spent>>

DeskNext ==
  \/ PublishesList \/ Boots \/ BootFails
  \/ \E a \in Actors : ChecksForUpdates(a) \/ Reloads(a) \/ AllScreened(a) \/ Fails(a)
                       \/ \E c \in Customer : StartsScreen(a, c)
  \/ \E c \in Customer :
       \/ StoresMatches(c) \/ MarksScreened(c) \/ ScreenLost(c) \/ Deletes(c)
       \/ \E n \in Names : Onboards(c, n) \/ Edits(c, n)
       \/ \E to \in {"confirmed", "cleared"} : Decides(c, to)
  \/ \E S \in SUBSET Customer : \E n \in Names : Imports(S, n)
  \/ ScreensUnscreened \/ ListsCustomers \/ ReadsPage \/ ReadsLastPage \/ ReadFails
  \/ ReadsVersion \/ ListFails

DeskSpec == DeskInit /\ [][DeskNext]_deskVars

-----------------------------------------------------------------------------
(* Properties.                                                               *)

DeskTypeOK ==
  /\ {published, engine, desk.version} \subseteq 0..MaxVersion
  /\ \A c \in Here : row[c].proof \in 0..engine
  /\ spent.tasks \in 0..MaxTasks /\ spent.decisions \in 0..MaxDecisions
  /\ {desk.failed, desk.loading} \subseteq BOOLEAN

\* customerScreening.ts:20-24: a row says "No matches" only of a customer whose identity
\* does not match the lists it names, whatever was screened, edited, deleted or reloaded
\* while the three reads were taken.
ClearIsTrue ==
  ~desk.loading => \A c \in Listed :
    Claim(c) = "clear" => ~Matched(c, desk.list[c].name, desk.version)
=============================================================================
