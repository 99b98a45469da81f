# aml-filter: a verification project

TLA+ modules, TLC instances and machine-checked proofs about
[aml-filter](../src/README.md), a sanctions-screening workstation that runs
entirely in the browser, and about the pipeline that builds, signs and releases
the watchlists it screens against.

Paths below are relative to `src/`. Abbreviations:
W = `frontend/packages/amlfilter-workstation/src/`,
A = `frontend/app/src/`,
B = `frontend/packages/amlfilter-browser/src/`,
P = `frontend/packages/amlfilter-publisher/src/`,
D = `.dagger/src/aml_filter/`.

1. [The system](#1-the-system) — components, state, interactions, what is hard
2. [The modules](#2-the-modules) — which module models what, and how
3. [The runs](#3-the-runs) — what TLC checks, on which instances, and why they suffice
4. [Fairness](#4-fairness)
5. [The proofs](#5-the-proofs)
6. [Findings](#6-findings)
7. [Known, and in no run](#7-known-and-in-no-run)
8. [Not modelled](#8-not-modelled)
9. [What could come next](#9-what-could-come-next)
10. [Running it](#10-running-it)

## 1. The system

A signed bundle of watchlists goes through a release pipeline (Dagger, run by
GitHub Actions) onto a static origin (Cloudflare). Every visitor's browser
downloads it, verifies it, builds an engine over the lists it has enabled, and
screens its own customers, who are in an SQLite database in the browser's
private file system. Nothing is computed on a server.

```
 feeds -> publisher -> signed bundle -> origin <- browser bundle source
             ^                            ^              |
      release pipeline  ------------------+        engine runtime -> multi-list engine -> matching
             ^                                           ^                                embedder (worker)
      release queue (GitHub)                             |
                                    gate, poll, onboarding, rescan, review
                                                         |
                                        database client -> database worker -> SQLite on OPFS
```

### 1.1 Components

| component | state it keeps | operations | what makes it correct |
|---|---|---|---|
| **workstation store** (W `db/operations.ts`, `db/schema.ts`) | `customers`, `kyc_matches`, `match_events`, `app_settings` | create (one, batch), update, delete, mark screened; record, replace and resolve matches; settings | the ledger explains the board and is append-only while the customer lives; a decision is never lost and never shown for facts it was not made on; deletion leaves nothing; references are unique; an identity change voids the proof of screening |
| **store boot** (W `db/worker.ts`, `client.ts`, `acquire.ts`, `schema.ts` migrate) | the shared open, pending calls, the pool lock, the schema version | open, retry on contention, call, terminate, migrate | every call is settled; a failed open is retried by the next call; no request runs below the schema or without the triggers |
| **onboarding, rescan, review** (W `rescan.ts`, `onboarding.ts`, `review.ts`) | runs in flight per customer, the shared sync, `last_synced_version` | onboard, screenCustomer, rescanAll, syncWatchlist, resolve | no customer reads "No matches" unless its present identity was screened against the lists loaded now; the board converges to the published lists |
| **screening configuration**, tiering (W `screening_config.ts`, `tiering.ts`, `fingerprint.ts`; A `pages/SettingsPage.tsx`) | four settings, a form | load, edit, apply | no list goes out of the screening unasked; Apply ends |
| **composition root, sync** (A `lib/workstation.ts`, `lib/sync.ts`) | the serial queue, the retained runtime | engineBoot, setEnabledLists, reloadWatchlist, checkForWatchlistUpdates, importCustomers | loads, reloads and selections exclude each other; the poll goes on after a failure and rests when nothing is new |
| **gate and pages** (A `components/WorkstationGate.tsx`, `pages/`) | what is mounted, the poll's timer, what was read and is on display | boot, retry, poll, leave; search, decide, list, edit | a page that stays open gets an engine and keeps it current; what is on display answers what was asked, of the lists and the key it names |
| **import/export** (A `lib/customerTransfer*.ts`, the handlers of `pages/CustomersPage.tsx`) | the files being read, a preview, an import under way | pick, preview, confirm, export | what is written is what was shown, each reference once |
| **engine runtime** (B `engine/runtime.ts`, `version.ts`) | lifecycle, generation, engine, embedder, version stamp | bootstrap, reload, dispose, version, fetchPublishedVersion, clearListCache | the stamp is that of the loaded lists; nothing is used after it was disposed of |
| **multi-list engine** (B `engine/multiEngine.ts`) | screens in flight, closed | screen, disposeWhenIdle | a screen ends before what it uses is torn down; no deadlock between the drain and the screens |
| **matching** (B `scoring.ts`, `vectorIndex.ts`, `lexicalIndex.ts`, …) | an index file per list on OPFS, shared by tabs | open, fill, search, score | a query sees its list whole; whoever bears the typed alias is listed |
| embedding worker (B `embedderClient.ts`, …) | pending requests | embed, dispose | every request is settled |
| **bundle source** (B `engine/bundleSource.ts`) | the fence (highest pointer accepted), the cache | open catalog, open lists, poll, clear | lists bear the versions of the catalog they were chosen from; no older bundle is accepted |
| **install keys**, receipts (B `engine/installKey*.ts`) | the row of the key on OPFS, the old seed and note in localStorage, a cached promise per tab | load or create, migrate, reset, import, announce | the seed of an older release is never lost; a key that was reset stays gone; a tab that would sign with another key is about to be told |
| **publisher** (P `buildRealBundle.ts`, `carryForwardList.ts`, …) | — | fetch, carry, stage, sign | a bundle is complete or not built; a carried list states its own age |
| **checks of the live origin** (P `verifyPublishedOrigin.ts`, `mirrorPublishedOrigin.ts`, `checkPublishedFreshness.ts`) | — | next sequence, mirror, freshness | a sequence names one bundle |
| **feeds, snapshots** (P `sources/`, `snapshotSources.ts`) | requests, a lock file, a staging directory | fetch with retries, capture, promote, parse a stream | a snapshot is whole or absent; no name is lost where a chunk ends |
| **release queue** (D `queue.py`, the two workflows) | the life of every GitHub run | wait, enter the group, be cancelled, be re-run | one writer at a time, in order, none dropped |
| **release pipeline** (D `main.py`, `policy.py`) | job, deployment, rollback target | check the source, build or mirror, upload, smoke, roll back | what is live was checked; code does not regress |
| **production alert** (D `alert.py`) | the body of one issue | raise, clear | the issue says what fails, and is closed when nothing does |

The components in bold are modelled, entirely or in the part `PROJECT.json`
states; the others are in sections 8 and 9.

### 1.2 What is hard here

* **Interleavings in one tab.** Everything in a tab is one event loop, so every
  `await` is a point where anything else may run: a re-screen reads a customer,
  awaits an engine that may be loading, reloading or closing, awaits a screen,
  stores its matches, awaits the store, and then marks the customer as screened.
  Edits, deletions, a new selection, a poll or the closing of the tab fall in
  between.
* **Two versions of one thing.** The stamp of the loaded lists, the stamp of the
  published ones, the stamp of the last sync and the stamp each customer is
  proven with are compared in four places; each comparison decides whether
  somebody is screened again.
* **Histories.** A match is detected, decided, changed, dropped and detected
  again; the ledger and the row are written by three different operations.
* **Durability.** Only SQLite survives a tab. Most operations are one
  transaction; `resolveMatch` is two statements.
* **Writers of production.** Two workflows, two commits, runs that wait, give
  up, are re-run or killed, a check that comes after the upload, a rollback that
  takes production to an older pointer, and browsers behind a fence that only
  lets pointers grow.
* **Tabs of one origin.** They share a row on OPFS and localStorage entries of an
  older release, under a lock, but each keeps the key it loaded; any of them may
  close between two steps of a migration that spans both storages. They compete
  for the pool of the store's file, and for the index file of every list.
* **Work that is given up but goes on.** A boot past its ceiling, a search that a
  newer one has superseded, the handler of a page that was left, a load of a key
  that changed: none is cancelled, and each may answer later.
* **Reads that are not one snapshot.** A page that combines three reads, a mirror
  that follows a pointer through many requests, a stream cut anywhere, a
  workflow that rewrites an issue it read before.

`PROJECT.json` lists these hazards at their lines, with the properties that
would catch each going wrong.

## 2. The modules

| module | models | state | builds on |
|---|---|---|---|
| `HitBook` | what the store promises to its callers: customers with an identity and a proof of screening, and the entities on the board | `book`, `hits` | — |
| `MatchStore` | the tables and the operations of W `db/operations.ts` | `customers`, `matches`, `trail` (+ `decidedOn`) | implements `HitBook` |
| `StoreBoot` | client, worker, pool and migrations, in two tabs | `memo`, `worker`, `pool`, `disk` (+ `ranAt`) | — |
| `Screening` | the services, the poll, the gate and the engine of one tab | the book, `lastSynced`, `selection`, `published`, `engine`, `screen`, `loop`, `asked`, `gate`, `poll`, `serial` (+ `quiet`) | extends `HitBook` |
| `EngineRuntime` | the lifecycle of `runtime.ts`, operation by operation | `rt`, `queue`, `work`, `call`, `screenOn` | — |
| `ScreenPage` | the public page that screens one name | `page`, `box`, `timer`, `chain`, `shown`, `seq`, `engine`, `calls` | — |
| `SettingsPage` | the settings form and what Apply makes of it | `stored`, `loaded`, `book`, `serial`, `mounted`, `applies` (+ `unticked`) | — |
| `ReviewBoard` | filters, rows, decisions and history on the review board | `match`, `replaced`, `wire`, `filter`, `board`, `drawer` (+ `decisions`) | — |
| `CustomersDesk` | what a row of the customers page may claim | `row`, `published`, `engine`, `screen`, `desk`, `task`, `spent` | — |
| `CustomerTransfer` | import and export of customers | `onFile`, `sheet`, `pick`, `import`, `exported`, `others` | — |
| `NameScreen` | one screen from the query to the bands on the page | `asked`, `step`, `todo`, `hits`, `found`, `shown` | — |
| `ListIndex` | the vector index of a list: file, marker, fallback | `file`, `holder`, `index`, `told`, `loads` (+ `seen`) | — |
| `InstallKeys` | the signing key in the tabs of one origin | `row`, `quarantine`, `seed`, `note`, `holder`, `call`, `memory`, `cached`, `inbox` (+ `used`, `past`) | — |
| `KeyViews` | what pages show of the signing key | `key`, `changes`, `stored`, `signer`, `view`, `notice`, `form` | — |
| `ReleaseQueue` | the turnstile of `queue.py` and GitHub's concurrency group | `status` | — |
| `Publication` | the release jobs, production, and the browsers that follow it | `now`, `upstream`, `head`, `job`, `live`, `seen`, `catalog`, `page` (+ `past`) | extends `ReleaseQueue` |
| `FeedFetch` | one request of a feed, with its retries | `req` | — |
| `SourceSnapshot` | the captures of all feeds into one directory | `snap`, `lockFile`, `staging`, `target` | extends `FeedFetch` |
| `AliasStream` | the streaming parser of OFAC's aliases | `feed`, `at`, `window`, `scripts`, `aliases`, `outcome` | — |
| `ListAge` | the one rule of a list's age (`watchlist.ts`) | — | — |
| `BundleBuild` | a bundle made list by list, refreshed or carried | `clock`, `pub`, `origin`, `builds` | extends `ListAge` |
| `OriginGate` | gate, mirror, carry and grading of the live origin | `day`, `held`, `deploys`, `tool`, `out` | extends `ListAge` |
| `AlertIssue` | the alert jobs over one GitHub issue | `failing`, `flips`, `faults`, `overlaps`, `issues`, `job` (+ `told`) | — |
| `MatchStoreProofs`, `ScreeningProofs`, `PublicationProofs`, `InstallKeysProofs`, `EngineProofs`, `TabProofs`, `PagesProofs`, `ToolsProofs` | theorems | — | — |
| `MCMatchStore`, `MCInstallKeys`, `MCScreening`, `MCPublication`, `MCAlert` | model values and small sets for TLC | — | — |
| `MCDesk` | model values and small sets for `CustomersDesk` | — | — |
| `MCOrigin`, `MCConvergence`, `MCTab`, `MCTools`, `MCPages` | several of the modules in one run (section 3) | `part` | — |

Variables in parentheses are auxiliary: no guard that stands for code reads
them. Operators commented as mutants (`MarkedLate`, `UploadsThenAsks`, …) are
plausible bugs, each the mutated form of one definition; no specification uses
them, and `PROJECT.json` says which property each of them must break.

### 2.1 Store: `HitBook` and `MatchStore`

The database worker is one thread and takes one request at a time, so an
operation of `db/operations.ts` is one action of `MatchStore` — with its guard
from `requireCustomer`, the UNIQUE constraints and the triggers, and with
everything it writes. The exception is `resolveMatch`, whose UPDATE and INSERT
are two autocommit statements: `ResolveMatch` is both, `ResolveMatchTorn` is
the first without the second, when the worker dies (or the INSERT fails).

A pair of customer and entity has at most one row in `kyc_matches`, so rows are
`matches[c][e]`; `match_events` is the pair's `trail[c][e]`, in the order
`getMatchEvents` reads it. A name, a country or a fingerprint is a model value:
what the code distinguishes is whether it changed. `Carried` and `Ledgered` are
`planReplacement` and the suppressions: for every still-matching, new or
vanished entity, the row it gets and the event it leaves. `Init` is any database
a schema-v1 release may have left: rows with a disposition but without ledger
and without fingerprint.

`HitBook` is the abstraction the services above rely on. It keeps no ledger and
no dispositions, and its five operations say which writes void a proof, which
add to a match set and which replace it. `MatchStore!ImplementsBook` is the
refinement (`bookOf`, `onBoard`): checked by TLC in `origin_stores` and proved in
`MatchStoreProofs`. So `Screening` may use the book in place of the tables.

`StoreBoot` is what comes before the first operation. `worker[k]` is a database
worker with the client in front of it: its pending requests, its inbox, the one
open that requests share, the attempt and its back-off, and whether it is past
the triggers and the migrations. `pool` is the set of exclusive file handles: a
page that is left keeps them for up to `ReleaseTime`, which the back-off
(`NextDelay`: doubled, up to `MaxDelay`, `MaxAttempts` times) must outwait. `Guards`,
`MigratesOne` and `Opens` are the statements of `migrate`, in their transactions.

### 2.2 Services: `Screening`

An action is the code between two awaits. The main actors:

| code | in the model |
|---|---|
| one run of `#replaceFor` or `onboard` for customer *c* | `screen[k][c]`: `boot` (awaits the engine) → `queued` → `active` → `stored` (awaits the store) → idle; `doomed` is a screen queued on an engine that has since closed |
| the guard `#inFlight` of `rescan.ts` | kind `"guarded"`: a second call joins (`Guarded`); `onboard` is outside it |
| `rescanAll` of an import or a list change, `syncWatchlist` | `loop[l]`: `list` (reads the customers), then `each`, one customer at a time, `awaiting` the run it started or joined; a rejection ends the loop |
| `screenCustomer` | `asked[c]`: the identity it has read, before it gets to the guard |
| `EngineRuntime` | `engine.phase` with the lists being loaded or loaded and their stamp; `stamp` is `version()` |
| `MultiListScreeningEngine` | one active screen at a time; `Closing` dooms the queued ones, `Drained` waits for the active one |
| `checkForWatchlistUpdates` | `poll`: asked → answered → reload → syncing |
| the `serial()` queue of `lib/workstation.ts` | `serial`, with the list-change rescan holding it too |
| `WorkstationGate` | `gate`, `GateBoots`, `Leave`, `Revisit` (a user who leaves a page with `NoEngine`) |
| closing the tab | `TabCloses`: everything but the database is lost |

Choices that matter:

* **Store calls** go through one first-in first-out channel to the worker, so a
  call takes effect where it is posted, and its continuation is a later action
  at any later time. This allows more interleavings than the message queue does,
  never fewer.
* **The stamp is read in the turn of the post.** After the screen answers there
  is no `await` until `replaceMatches` or `recordMatches` is posted, and
  `version()` is read in between; `FinishScreen` is that turn. It is what makes
  `NoFalseClear` true: the mutant `MarkedLate` reads the stamp one await later.
* **A reload clears the stamp before it drains, a disposal keeps it.** Hence
  `stamp` in the phases `draining` and `disposing`.
* **A stamp** is a function from the lists it covers to their versions, as
  `compositeVersion` joins them: the poll's stamp covers the catalog, the
  engine's the enabled lists.
* **A load reads one consistent catalog.** The two-phase sync of the bundle
  source and its version skew are in `Publication`.
* **Customer ids** are UUIDs; an id may stand for a new customer once nothing in
  flight concerns the old one.
* `Events` names what may come from outside in an instance, and `Selections`,
  `MaxPublish` bound it. `quiet` marks the moment after which nothing does; the
  liveness properties speak of what happens then.

### 2.3 The tab and its pages

Each of these modules takes the layer below it as a few operations that succeed,
fail or answer late, because another module has that layer in detail.

* **`EngineRuntime`** has one object. Public operations are records on `queue`
  (`#lifecycleTail`) and run alone; the asynchronous body of one is a record in
  `work`, cut at its awaits (`pc`). A boot that is aborted or passes its ceiling
  settles (`AbortWins`, `BootTimesOut`) but its body stays in `work`: only
  `Current`, the generation it carries, keeps it from publishing. `rt.memo` is
  the memoized bundle source, `rt.srcs` every source ever opened with its
  Worker's life, `rt.models` the model workers. `Screening`'s `engine` is the
  abstraction of it; the refinement is not stated, since `Screening` serialises
  what a page may call (`CallersWait`).
* **`ScreenPage`** is the public page: the runtime is a queue of its calls
  (`calls`) and the boot promise it hands out (`engine.promise`), the effects of
  React are `BootEffect`, `PhaseIs` and the debounce (`timer`), a search is an entry
  of `chain` with the value of `seq` it compares. Two marks on a call say what the
  lifecycle code compares: `current`, the boot whose abort controller the runtime
  still holds, and `live`, FALSE for a boot that a teardown has superseded
  (`Superseded`, `Torn`): it stays in the queue and can only reject. A boot that is
  asked for while a promise stands is that promise (`Boots`), a reload that is asked
  for while one is pending is that one (`ReloadsLists`).
* **`SettingsPage`** is the form (`mounted`) and Apply (`applies[i]`), which goes
  name → lists → reload → re-screen → sensitivity → overrides → re-screen and may
  fail at each; what was saved stays saved. `book` is the level each list was last
  screened at.
* **`ReviewBoard`**: requests to the store are a sequence, answered in order;
  `Replaces` is a rescan, which deals new ids. `MatchStore` has the store.
* **`CustomersDesk`**: a load of the page is four steps (customers, then pages
  of the board, then the version), with screens, edits, deletions, publishes and
  overlapping tasks between them; `Claim` is `customerScreening.ts`.
* **`CustomerTransfer`**: a file is read in a worker, previewed against the rows
  the page listed when it was *picked*, imported in one transaction. Handlers of a
  page that was left write nothing (`Sets`). A reference is a model value with
  two functions: `KeyOf` (what `referenceKey` folds together) and `SafeOf` (what
  `spreadsheetSafe` writes).
* **`NameScreen`** is one screen, step by step: canonical query, vector and word
  lookup per list, scoring, merge, strictness, bands. Names are sequences of
  words; the letters of a word do not exist: what the scores take from
  them (`cosine`, `sequence`, `tier`) is an input, chosen from `Letters`, and the
  arithmetic on it is the code's, in ten-thousandths.
* **`ListIndex`**: the file of a list, which one index at a time holds
  (`holder`), filled batch by batch with rows that carry the marker of the whole
  content. `Leaves` closes a tab in the middle of anything.

### 2.4 Releases: `ReleaseQueue`, `Publication`, and the tools

`status[r]` is the life of GitHub run `r`: it waits at the turnstile until
every older run of either workflow has completed, asks for the group, is
`pending` if another run holds it, and is `cancelled` when a third arrives. A
re-run keeps its id. `Publication` says what the job of a running run does:

`Starts` (its source must be the newest green commit; the next sequence is one
above live) → `Builds` (every list fetched, or carried from the live bundle when
its feed fails and its copy is young enough) or `Mirrors` (a code deploy
without a new bundle takes the live one along) → `Uploads` (having recorded the
deployment to go back to) → `Passes`, `RollsBack` or `Lost`. `Fails` ends it
anywhere before the upload.

Time is counted in ticks, `TicksPerDay` to a UTC day, because the code measures
age in whole days in one place, in hours in another, and versions are dates. The
revision of a list is the tick of its last change upstream: what a copy *says*
(its `version`, its `fetched`) and what it *is* (its `rev`) are apart, which is
what `StatedAgeIsTrue` and `VisitorsConverge` relate.

A visitor has the fence (`seen`), the catalog it is opening (`catalog`) and the
lists in use (`page`). `Opens` and `Loads` are the two syncs of
`bundleSource.ts`, `Polls` is the catalog-only sync of the running page, and
`ClearsCache` the only way past the fence.

How GitHub orders runs, how Cloudflare rolls back and how the edgeproc client
compares pointers is not in the repository; these parts are modelled from how
the code uses them and marked external.

**What a release is made of.** `FeedFetch` is `fetchWithTimeout`: attempts with
back-off, a deadline, a body read under a limit; an answer is genuine, a refusal
or a challenge page with status 200. `SourceSnapshot` captures every feed at once
into a staging directory under a lock file, waits for all of them, renames the
directory; a publisher may die anywhere. `AliasStream` is the parser of OFAC's
aliases: symbols for letters, two symbols for a tag, chunks that end anywhere, and
the window that is carried over. `ListAge` is `resolveListAge` and what is built on
it, used by three readers. `BundleBuild` makes a bundle list by list, each
refreshed or carried, over the bundle that is live, which may have been written
before a list had an age of its own. It measures ages in units of its clock, and leaves
out that a feed may be dated up to 24 hours ahead (P `buildRealBundle.ts:223`): what is
dated later than the clock is refused.

**What reads the live origin back.** In `OriginGate` a tool is a record that goes
from pointer to manifests to chunks with a pool of workers; while a deploy
spreads, every request may be answered from any tree an edge still holds
(`held`). It stands for the gate, the next sequence, the mirror, the carried copy
and the grader, which share these steps.

**The alert.** `AlertIssue`: an alert job lists the open issues, plans, and makes
one or two requests; nothing locks the issue. `told` is auxiliary: what the last
report of a workflow was, and whether its job was alone and answered.

### 2.5 The signing key: `InstallKeys` and `KeyViews`

A call of `load`, `reset` or `importEncrypted` is `call[i]`, with its tab and
its place; its session holds the origin-wide Web Lock (`holder`), so the steps
of one session do not mix with those of another, whatever tab it runs in. A
session is cut where something durable happens — the commit of a statement, a
turn that removes a localStorage entry — because a tab may close (`TabCloses`)
or its database fail (`SessionFails`) between any two of them:

| code | in the model |
|---|---|
| `migrateLegacyQuarantine` | `RecordsNote`, then the retirement in `Resolves`, in whose turn the old seed is read |
| `migrateLegacySeed`: copy, verify, retire | `Copies`, `Retires` (which verifies that the row is the seed's own) |
| `quarantineCorruptSeed` | `Marks`, `Drops` |
| `db.read`, `generate` | `Reads`, `Generates` |
| `reset`, `importEncrypted` | `Changes` (`clear` or `replace`, one transaction), `RemovesOld`, `SessionEnds`, `Announces` |
| the channel's `message` event | `Hears`, after any delay |
| an OPFS refusal | `Opens` may give a tab of `Refused` a database in memory, which it keeps |

`cached[t]` is the tab's promise: none, the call that is to settle it, or a key.
`Removes` may leave an entry where it is: `retireLegacy` logs a refusal of the
browser and goes on. The lock is granted in any order (the standard says first
come, first served, and the code does not need it). A row that is damaged, a
localStorage that cannot be read and a browser without Web Locks are left out;
`exportEncrypted` is a load and changes nothing.

`KeyViews` is what the pages make of it: the badge of a receipt and the settings
section each load the key in an effect that listens for changes, and forget an
older load when a newer one begins; three forms export, import and reset it.

### 2.6 How the modules fit

`MatchStore` implements `HitBook`; `Screening` runs the services on `HitBook`,
so its results hold over the tables. `StoreBoot` is what hands `MatchStore` its
requests one at a time. `Publication` and `Screening` meet in the catalog:
`Publish` in `Screening` is what `Uploads` in `Publication` does to the versions.
`Screening` assumes that a published change comes with a new version of the list;
`Publication` shows when that is so (one release a day, which is what
`publication_converges` assumes; section 7 says what happens otherwise).
`SourceSnapshot`, `AliasStream` and `BundleBuild` are the step `Builds` of
`Publication`, `OriginGate` its `Starts`, `Mirrors` and `Passes`. `NameScreen` and
`ListIndex` are what a screen does inside the engine, `ScreenPage` and
`SettingsPage` two users of the runtime, `ReviewBoard`, `CustomersDesk` and
`CustomerTransfer` three users of the store. `InstallKeys` shares no state with
the others: the key signs receipts, which nothing else reads.

## 3. The runs

`states` are distinct states; times are for two TLC workers.

### 3.1 Runs that pass

| run | question | instance | states | time |
|---|---|---|---|---|
| `origin_stores` | Do ledger, board and decisions stay consistent over every history of a customer? Is a key lost, does one come back, does a tab go on signing with one that is gone? | *store*: 1 customer, 2 entities, 2 fingerprints, 1 disposition, 3 events a pair. *keys*: 2 tabs, 2 keys, 2 calls in flight; one tab may be refused OPFS and resets and imports; an old note; 1 announcement on its way | 1.46 M | 125 s |
| `screening_edits` | Can a stale screen, reload or disposal make a customer read clear? | 1 customer, 2 identities, 2 entities, 1 list of 2 versions; onboarding, screens, edits at rest, publishes, failures, leaving, closing | 1.1 M | 80 s |
| `screening_rescans` | Do deletions in the middle of rescans, imports and list changes leave orphans? | 1 customer, 2 lists with selection {A} or {B}; onboarding, import, selection, deletion | 1.7 M | 125 s |
| `convergence` | Does the board reach the published lists after any failures, and does the poll go on and rest, if the user returns? Does the alert issue say what fails, and come to say it? | *board*: 1 customer, 1 list of 2 versions; everything but edits, imports and selections. *alert*: 2 workflows, one with a schedule and one without, 3 alert jobs, 3 changes, 1 fault, 2 overlaps | 162 k | 130 s |
| `publication_safety` | What may production serve, and under which sequences? | 2 releases, 1 list, 1 visitor, 2 ticks a day, 3 ticks, 2 commits; rollbacks work; no re-runs | 0.9 M | 30 s |
| `publication_converges` | Do visitors come to screen against what is live? | 2 releases of which the older may be re-run, 1 release a day, no rollback, 2 days | 0.9 M | 140 s |
| `tab` | Does one tab keep a single, current engine, show what was asked, open its store, save its settings, and answer every call? Does its store delete and keep what it should while the worker dies? | *runtime*: 3 calls, 2 lists, 2 selections. *screen page*: a phone, 2 searches, 3 runtime calls. *store boot*: 2 tabs, 3 workers, 4 attempts against a release of 4 units. *settings*: 2 lists, 2 levels, 2 applies, 2 mounts, every step may fail. *tables*: 2 customers, 2 references, 2 identities, 1 entity, 2 events a pair, torn statements | 384 k | 75 s |
| `pages_and_tools` | Is what a user reads, and what the lists are made of, true whatever happens between two reads? | *board*: 1 entity, 2 rescans, 2 requests. *desk*: 2 customers, 2 names, 2 versions, pages of 2. *key views*: 2 keys, 1 change. *index*: 2 tabs, 2 handles, 2 contents, 2 loads. *name*: 5 entries of 2 lists, 4 queries. *transfer*: 3 files, 2 picks, 2 imports. *snapshot*: 2 publishers, 2 feeds, 2 attempts. *stream*: 162 feeds in chunks of 1 to 4. *build*: 2 lists, 2 builds. *gate*: 7 trees, a pool of 2 | 1.91 M | 155 s |

**Sums.** `origin_stores`, `convergence`, `tab` and `pages_and_tools` check several
modules in one run. The modules of a sum share no variable; a behaviour moves one of them,
chosen in `Init` (`part`), while the others stay in one initial state. So the
states are the sum of the parts' states, not their product, and a property of a
module is checked on exactly the behaviours of its own specification. `CallsEnd`
of `tab` is the conjunction of the four modules' "every call ends", and its
fairness, like that of `convergence`, is that of the part that moves. In `origin_stores` the names of key calls and
of keys are symmetric (`SYMMETRY`, with safety properties only).

What they show, in the store and the services:

* `LedgerExplainsBoard`, `TrailIsAChain`, `AppendOnlyLedger` — the newest event
  of a pair names the status its row shows, each event starts where the one
  before ended, and no operation drops or rewrites an event of a customer that
  stays. Three operations write both tables; one that wrote one of them wrongly,
  at any point of any history, would be seen.
* `DecisionFitsFacts` — a decision reads as current only for the fingerprint it
  was made on: through any sequence of suppressions, returns, identity changes
  and fresh decisions.
* `RecordedDecisionSurvives` — with `resolveMatch` cut in two at any time, a
  decision the ledger records does not turn into an open question on the board
  without a new detection.
* `ErasureComplete` — a deleted customer leaves no row and no event behind;
  `ImplementsBook` — the tables refine the book.
* `NoFalseClear` — a customer whose proof is the stamp of the lists loaded now
  has on its board every entity its *present* identity matches in them.
* `NoOrphanHits` — a screen that ends after its customer was deleted does not
  bring its matches back.
* `BoardConverges` — once nothing happens from outside, every customer gets a
  proof against the published versions, with exactly the matches it has there,
  and keeps both. `PollRests` — and the poll stops reloading and re-screening.
  Both have the user's return to a page without an engine as a hypothesis
  (`UserReturns`), since the code does not bring it about: section 4.
* `PollGoesOn` — every check of the poll ends, whatever fails in it, and lets the
  next one begin; and checks begin for ever, again if the user returns. Without
  the user they do not (`PollNeverStops`, finding 3).
* `StatedAgeIsTrue` — however often a list was carried or mirrored, the age it
  states is that of the fetch it comes from, in production and on every page.
* `LiveWasVerified` — when no job is at work, what is live passed the checks
  after its upload, or was left by a job that was killed or whose rollback was
  refused after the upload.
* `NothingPending` — the group has one writer and never a pending run a newcomer
  could cancel. `CodeNeverRegresses` — only the rollback of the job that deployed
  newer code brings older code back.
* `OldStorageKept` — until somebody resets or imports, the old seed is in its
  entry or in the row, and a corrupt seed or a note in its entry or on record:
  over any number of crashes, repeated migrations, and tabs that work in memory.
* `ToldOrCurrent` — a tab whose promise holds another key than the row has an
  announcement on its way, or the change is still to be announced, or its author
  died before announcing it.
* `ResetHolds` — a key that a reset removed is not written back by a load that
  was under way, by a migration or by another tab.
* `SequenceNamesOneBundle` — of the bundles that production kept or serves no two have
  one sequence, with rollbacks; the theorem says so with runs that are run again, too. What
  a rollback took back is not among them: its sequence is given again (section 7).
* `VisitorsConverge` — a page that stays open comes to screen against what is live, with
  syncs cut by releases; with one release a day (section 7).

In the tab:

* `EngineIsCurrent` — the engine a page screens with is the one its boot promise
  stands for, over the model that runs and an open source, unless a disposal is on
  its way: no build that lost its race publishes.
* `OneModel` — a boot given up during its download leaves no second model behind.
* `DisplayComesToRest` — when nothing is under way, the page answers the box as it
  stands, at this level, over the lists it says it covers.
* `BusyIsNotOurPast` — the back-off outwaits the page that was left: "already open
  in another tab" is not said of this tab's own past. `RequestsSeeTheSchema` — no
  request runs on a file below the schema or before the triggers.
* `OffWasAsked` — no list goes out of the screening unless somebody unticked it:
  not by a form that was not loaded, a persist that failed half way or one that
  outlived its page.
* `CallsEnd` — runtime calls settle, searches are answered, requests to the store
  are answered or rejected, Apply ends.

On the pages:

* `DecisionOnSeenFacts` — a decision posted from a row that a rescan has replaced
  is refused; it never falls on facts nobody saw.
* `ClearIsTrue` — "No matches" is said only of an identity that does not match the
  lists the row names, whatever happened between the three reads (with all rows in
  one page: finding 4).
* `ViewsFollowTheKey` — a receipt is not judged against a key that was replaced.
* `QueriesSeeTheList` — a query is answered from the rows of the list its engine was
  loaded with, all of them and no other, whatever another tab or an earlier version
  left in the file.
* `PublishedAliasIsListed` — below Strict, whoever bears the typed name as an alias is
  on the screen, or is outranked by `K` better ones, with the note that says so.
* `ImportsAreAsShown` — every row of a file is on the preview once; an import brings
  no reference of the list its preview was made against, nor one twice, in any
  spelling; it is refused only for a customer that came since.

In the tools:

* `SnapshotIsWhole` — a snapshot is complete or absent, whatever failed, raced or
  died, and a publisher that ended leaves no lock, directory or open response.
* `StreamFindsTheWhole` — however the network cuts the feed, the stream yields the
  names the feed read whole holds, on the same entities.
* `BundleSaysWhatItIs` — a bundle opens in the browser; no list looks younger than its
  records through any number of carries; "stale" and "enriched" are said when so.
* `GateIsSound` — what a tool accepted from a changing origin is one signed tree, of
  which it has seen all it asked for; it is what was expected, a carried list states its
  age, and a list graded fresh is no older than its ceiling.
* `AlertSaysWhatFailed`, `AlertComesTrue` — between alert jobs the issue lists what
  failed, if the jobs did not overlap. What lasts comes to be on the alert, or off it,
  for the workflows that a schedule runs; for the deploys, which only a push or a hand
  starts, if they go on reporting, and then the alert is closed when nothing fails.

### 3.2 Runs that are violated

| run | property | what TLC finds |
|---|---|---|
| `screening_midscreen` | `NoFalseClear` | an edit of the name while the old name is being screened |
| `screening_polls` | `PollNeverStops` | a reload of the poll fails, and no check begins on that page any more |
| `desk_paging` | `ClearIsTrue` | a row deleted between two pages of the board: the second page skips one |
| `alert_overlap` | `StillFailingIsListed` | two alert jobs that read the same body: the second write drops the first one's workflow |

Each is a disagreement with a sentence of the repository: section 6. Their instances
are those of the passing runs but for the one thing that is in question: edits in the
middle of a screen, alert jobs that overlap, pages of one row, a page that nobody leaves.
Each ends within 20 seconds.

### 3.3 The bounds, and why they are enough

* **One customer in `Screening`.** Runs of different customers share only the
  engine's one-at-a-time queue and the order of a loop; every property is about
  one customer at a time, and the interference of another is what the actions
  "queued for any time" already allow. A loop's rejection, which a second
  customer would cause, is caused by the first as well. In the store, customers
  meet in the reference constraint, and that run has two.
* **Two identities, two versions, two entities** are the old and the new one of
  each; `Matrix` gives every combination a different match set, so that a screen
  of the wrong identity or version is visible on the board.
* **Three events a pair** allow detected → decided → changed or suppressed, and
  what follows a suppression: every pair of consecutive events occurs.
* **Two runs** in `Publication` are the older and the younger. Three would add a
  cancelled pending run, which needs two waiting runs at the group; that no run
  waits there is proved for any number of runs.
* **`TicksPerDay` 2** is the least that tells whole days from hours; `CarryDays`
  and `FallbackDays` 1 reach both sides of each ceiling within `MaxTick`.
* **Two tabs, two keys, two calls** in `InstallKeys`: a holder and somebody who
  waits, in one tab or in two; the key that was and the key that comes. Which of
  the two may be refused OPFS, and may change the key, is fixed (`t2`), because
  the tabs are otherwise alike; keys and names of calls are symmetric. The
  theorems of section 5 hold for any number of each, and any tab in either role.
* **Three calls** in `EngineRuntime` are a boot that loses its race, what takes it
  down, and what comes after; **two lists** let a selection differ from the catalog.
* **Three calls** in the queue of `ScreenPage` are a boot that was superseded, the clear
  that superseded it and the boot behind the clear; with room for seven and with three
  searches, on a phone and elsewhere, TLC finds no queue longer than three.
* **Three workers in two tabs** in `StoreBoot`: the page that is left, the one that
  comes, and another tab. The delays keep the code's proportions: the back-off adds
  up to more than a release takes.
* **Two picks, two imports, two mounts** in `CustomerTransfer`: the one under way and
  the one that overlaps it; picks and imports are numbered in their order.
* **The five entries** of `NameScreen` have a shared word, two spellings of a word, an
  alias that is another's name, dates and countries; the queries reach each of them in
  another way. `MaxLexical` 1 and `K` 2 are exceeded by some queries and not by others.
* **Two tabs, two handles, two contents** in `ListIndex`: who holds the file and who
  falls back; a content and its successor, which differ in the keys of one entity.
* **The feeds** of `AliasStream` put a record, a tag and the reference data at every
  position relative to a cut; a chunk of 4 symbols spans two tags. In one a party begins
  inside another, and a close has no party.
* **The seven trees** of `OriginGate` are one from before the sequence, a whole one, one
  that lost a chunk, one that cannot be believed, one not signed, one with a field
  dropped and files that are not the ones addressed, one with an instant to come and an
  empty list; they share chunks, so that a tool may mix them.
* **Three alert jobs** for two workflows: two of one workflow and one of the other,
  which is every way two jobs can meet.
* **Events split over instances.** The outside world of `Screening` is divided
  so that each instance ends. `"select"` and `"close"` are in no instance together, where
  `NoFalseClear` is violated (section 7).

Deadlock is checked in `origin_stores` and in the screening, convergence and alert runs.
In `Publication`, in `tab`, in `pages_and_tools` and in `desk_paging` the system may
really stop: the bounds on clocks, events, calls, searches, loads or builds run out and
nothing is left to do, so `CHECK_DEADLOCK FALSE`; that nothing *waits* there for ever is
what `CallsEnd` and `VisitorsConverge` say.

## 4. Fairness

`Screening.FairSpec` asks weak fairness of what the runtime does by itself:
continuations of settled promises (the event loop runs them all), the end of a
load and of a screen (both are under timeouts; a screen or load that fails is an
event of its own), and the poll's interval timer on a page with an engine.
Nothing is asked of users, publishes or failures. In particular nobody has to
open a page, to press Retry after a failed boot (`GateBoots`), or to leave a page
that has lost its engine (`Revisit`). The code needs the last two: a failed reload
leaves `version()` null, and then `checkForWatchlistUpdates` returns before it does
anything (A `lib/sync.ts:74`). So the user is a hypothesis of the properties that
need one, and is named there: `UserReturns`, there is a page again and again, and
no page stays without an engine for ever.

`Publication.FairSpec` asks that a page which is open finishes what it began and
polls, and that its user comes back: `VisitorsConverge` is about such a visitor. It asks nothing of the pipeline: releases
may stop at any time, and visitors must then converge to what is live.

`MCTab.TabFairness` asks, in the behaviours that move a part, weak fairness of: the
queue of the runtime, its bodies (an await whose value is there goes on), the
opening of sources (the storage Worker bounds its silence) and the end of a screen;
of the page's boot effect, its debounce, its searches and the runtime's answers; of
the clock and every worker in `StoreBoot`; of every step of an Apply. Nothing makes
a user call, type or click, and a step may always fail instead. The bounded calls,
workers and applies take finitely many steps each, so fairness to all of a kind
together is fairness to each.

`AlertIssue.AlertFairness` asks that an alert job under way goes on (`WF`), and that
a workflow with a schedule reports again and again (`SF`, since a report has to wait
for the job before it). `publish-watchlist.yml`, `live-smoke.yml` and
`watchlist-freshness.yml` have a cron; these are `Scheduled`. `deploy.yml` has not: it
is started by the CI of a push or by hand (`deploy.yml:4-9`), so that no further report
of it is taken for granted. What a deploy's alert job lost, or another overwrote, may
then stay wrong for ever, and a deploy's alert stay open; `AlertComesTrue` speaks of
the deploys only where they report on (`ReportsOn`). It also speaks of the alert the
next report is written into (`Shown`): if overlapping jobs opened two, the other one is
reached only when that one is closed, which takes the green of all it lists.

## 5. The proofs

`tlapm` proves, for every value of the constants that satisfies the assumptions
named in the modules:

| theorem | statement |
|---|---|
| `MatchStoreProofs!TypeCorrect` | `Spec => []TypeOK` |
| `MatchStoreProofs!ErasureSafe` | `Spec => []ErasureComplete` |
| `MatchStoreProofs!DecisionsSurvive` | `Spec => []RecordedDecisionSurvives` |
| `MatchStoreProofs!LedgerTrue` | `WorkerMayDie = FALSE => (Spec => [](LedgerExplainsBoard /\ TrailIsAChain))` |
| `MatchStoreProofs!TrailsAreChains` | `WorkerMayDie = FALSE => (Spec => []TrailIsAChain)` |
| `MatchStoreProofs!DecisionsFit` | `Spec => []DecisionFitsFacts` |
| `MatchStoreProofs!LedgerAppendOnly` | `Spec => AppendOnlyLedger` |
| `MatchStoreProofs!ReferencesStayUnique` | `Spec => []ReferencesUnique` |
| `MatchStoreProofs!BookRefinement` | `Spec => ImplementsBook` |
| `ScreeningProofs!ScreeningTypeCorrect` | `Spec => [](TypeOK /\ EngineInv)` |
| `ScreeningProofs!ServicesUseTheBook` | `Spec => BookSpec` |
| `ScreeningProofs!BookHasNoOrphans` | `BookSpec => []NoOrphanHits` |
| `ScreeningProofs!NoOrphans` | `Spec => []NoOrphanHits` |
| `ScreeningProofs!ClearMeansClear` | `Undisturbed => (Spec => []NoFalseClear)` |
| `PublicationProofs!QueueKeepsGroup` | without re-runs, `QueueSpec => []NothingPending` |
| `PublicationProofs!PublicationQueues` | `Publication!Spec => QueueSpec` |
| `PublicationProofs!PublicationKeepsGroup` | without re-runs, `Publication!Spec => []NothingPending` |
| `PublicationProofs!PublicationTypeCorrect` | `Publication!Spec => []TypeOK` |
| `PublicationProofs!StatedAgesAreTrue` | `Publication!Spec => []StatedAgeIsTrue` |
| `PublicationProofs!LiveIsVerified` | `Publication!Spec => []LiveWasVerified` |
| `PublicationProofs!AppNeverRegresses` | `Publication!Spec => CodeNeverRegresses` |
| `PublicationProofs!SequencesNameBundles` | `Publication!Spec => []SequenceNamesOneBundle` |
| `InstallKeysProofs!KeysTypeCorrect` | `KeysSpec => []KeysTypeOK` |
| `InstallKeysProofs!OneSession` | `KeysSpec => [](two calls in a session are the same call)` |
| `InstallKeysProofs!OldStorageSafe` | `KeysSpec => []OldStorageKept` |
| `InstallKeysProofs!TabsAreTold` | `KeysSpec => []ToldOrCurrent` |
| `InstallKeysProofs!ResetsHold` | `KeysSpec => []ResetHolds` |
| `EngineProofs!RuntimeTypeCorrect` | `RuntimeSpec => []RuntimeTypeOK` |
| `EngineProofs!OneModelRuns` | `RuntimeSpec => []OneModel` |
| `EngineProofs!ReadyEngineIsCurrent` | if `CallersWait`, `RuntimeSpec => []EngineIsCurrent` |
| `EngineProofs!IndexTypeCorrect` | `IndexSpec => []IndexTypeOK` |
| `EngineProofs!QueriesSeeLists` | `IndexSpec => []QueriesSeeTheList` |
| `TabProofs!BootTypeCorrect` | `BootSpec => []BootTypeOK` |
| `TabProofs!SchemaIsThere` | `BootSpec => []RequestsSeeTheSchema` |
| `TabProofs!OwnPastIsOutwaited` | `Outwaits => (BootSpec => []BusyIsNotOurPast)` |
| `TabProofs!SettingsTypeCorrect` | `SettingsSpec => []SettingsTypeOK` |
| `TabProofs!NoListGoesUnasked` | `SettingsSpec => []OffWasAsked` |
| `TabProofs!ScreenTypeCorrect` | `ScreenSpec => []ScreenTypeOK` |
| `TabProofs!DisplayRests` | `ScreenSpec => []DisplayComesToRest` |
| `PagesProofs!KeyViewsTypeCorrect` | `KeySpec => []KeyViewsTypeOK` |
| `PagesProofs!ViewsFollow` | `KeySpec => []ViewsFollowTheKey` |
| `PagesProofs!ReviewTypeCorrect` | `ReviewSpec => []ReviewTypeOK` |
| `PagesProofs!DecisionsFallOnSeenFacts` | `ReviewSpec => []DecisionOnSeenFacts` |
| `PagesProofs!DeskTypeCorrect` | `DeskSpec => []DeskTypeOK` |
| `PagesProofs!NoMatchesIsTrue` | if `OnePage`, `DeskSpec => []ClearIsTrue` |
| `PagesProofs!TransferTypeCorrect` | `TransferSpec => []TransferTypeOK` |
| `PagesProofs!ImportsStayAsShown` | `TransferSpec => []ImportsAreAsShown` |
| `PagesProofs!NameTypeCorrect` | `NameSpec => []NameTypeOK` |
| `PagesProofs!AliasesAreListed` | `NameSpec => []PublishedAliasIsListed` |
| `ToolsProofs!SnapshotTypeCorrect` | `SnapshotSpec => []SnapshotTypeOK` |
| `ToolsProofs!SnapshotStaysWhole` | `SnapshotSpec => []SnapshotIsWhole` |
| `ToolsProofs!StreamTypeCorrect` | `StreamSpec => []StreamTypeOK` |
| `ToolsProofs!StreamFindsWhole` | if every feed has a `ScriptsClose`, `StreamSpec => []StreamFindsTheWhole` |
| `ToolsProofs!BuildTypeCorrect` | `BuildSpec => []BuildTypeOK` |
| `ToolsProofs!BundlesSayWhatTheyAre` | `BuildSpec => []BundleSaysWhatItIs` |
| `ToolsProofs!AlertTypeCorrect` | `AlertSpec => []AlertTypeOK` |
| `ToolsProofs!AlertKeepsItsWord` | `AlertSpec => []AlertSaysWhatFailed` |
| `ToolsProofs!GateTypeCorrect` | `GateSpec => []GateTypeOK` |
| `ToolsProofs!GatesStaySound` | `GateSpec => []GateIsSound` |

The type invariants and `ReferencesUnique` are in no run of section 3, whose
properties are those that relate several steps; they are proved here because the
others rest on them.

**Assumptions.** TLC evaluates all of them. They are of five kinds.

* *Bounds are numbers* (`BoundsAssumption`, `RuntimeAssumption`, `FeedAssumption` and the
  like): `MaxTrail`, `MaxTick`, `MaxCalls` keep TLC finite, and the theorems hold
  whatever they are.
* *A marker is no value*: NULL is not a fingerprint, a version or a row
  (`NullAssumption`, `RowAssumption`, `ScreeningAssumption`, `DeskAssumption`); the same of
  the keys (`InstallKeysAssumption`, `KeyViewsAssumption`), a handle and a publisher
  (`IndexAssumption`, `SnapshotAssumption`), and of the ages of a list
  (`ListAgeAssumption`).
* *What the code fixes*: the three resolutions of `RESOLUTION_PATTERN`, so that `PENDING`
  is none of them (`DispositionAssumption`); run ids are numbers (`RunAssumption`), a day
  has a tick (`PublicationAssumption`); a version tells for each of its lists which
  publication it has (`ScreeningAssumption`); the default lists are in the catalog and 65
  is a threshold (`SettingsAssumption`); there is a level (`ScreenAssumption`); no source
  occurs twice in `BUNDLE_SOURCES` (`BuildAssumption`); a job is a workflow's
  (`AlertAssumption`); every customer has a place in the order of the board
  (`DeskAssumption`).
* *What is finite*: a content of an index has finitely many rows (`IndexAssumption`); a
  customer file, a manifest and a feed are sequences (`TransferAssumption`,
  `GateAssumption`, `AliasAssumption`); the lists hold finitely many persons, with
  finitely many countries each, and a name is a sequence of words
  (`NameScreenAssumption`).
* *What the data is*: the rows of a file are customers, wrong or blank, and a reference in
  the spelling of an export is a reference (`TransferAssumption`); a tree has the fields of
  a pointer, a manifest and a catalog, of which those that the tools check for themselves
  may be missing or malformed (`GateAssumption`). What the computations on letters return
  for a person is a share between 0 and 100, a cosine any integer, and a floor that
  overrides a list's is a number (`NameScreenAssumption`).

Nine theorems have a hypothesis besides:

* `WorkerMayDie = FALSE` (the two of the ledger): a worker that dies inside
  `resolveMatch` leaves a row moved and no event; the code has no transaction there.
* `Undisturbed` (`ClearMeansClear`): the events "edit" and "select" do not happen; "edit
  at rest" may. Both break the property in the code: finding 1 and section 7.
* `Rerunnable = {}` (the two of the queue): no run is run again, section 7.
* `CallersWait` (`ReadyEngineIsCurrent`): no page boots while a dispose or a clear of its
  own is queued; otherwise it is given the engine that dies, section 7.
* `Outwaits` (`OwnPastIsOutwaited`): the attempts to open, together, last at least as long
  as a release. The delays of the code are 50 ms doubling up to 800 ms over eight attempts,
  3150 ms in all; how long a browser takes to release is not in the code.
* `OnePage` (`NoMatchesIsTrue`): the customers fit on one page of the board, 500 in the
  code; beyond it reading by offset skips, finding 4.
* A feed has a `ScriptsClose` (`StreamFindsWhole`): without `</ScriptValues>` the stream
  collects nothing, section 7. Nothing is asked of the parties: one may begin inside
  another, stay open, or be closed twice, as the two forms read that alike.

**The store.** `TypeOK` is inductive by itself, one lemma per action. The others
are inductive relative to `TypeOK`, and each needs something of its own:

* `ErasureComplete` is inductive with `TypeOK`: every write is behind
  `requireCustomer`, so nothing is added to a customer that is gone.
* `RecordedDecisionSurvives`: `PairStep` says what one step does to one pair —
  its row and its trail change together in one of a few ways — and `NewestAfter`
  what the last event then is. The torn `resolveMatch` is the one step that moves
  the row alone; it moves it to a disposition, never to `PENDING`, which is why
  the property is stated with "not pending" and not with equality.
* `LedgerExplainsBoard` and `TrailIsAChain` are proved together: an event starts
  from the status of the row (code), the newest event names that status
  (`LedgerExplainsBoard`), so it starts where the trail ended. Neither is
  inductive without the other, and both need that no statement is torn.
* `DecisionFitsFacts`: through `Carried`, a row either keeps its fingerprint or
  is flagged; `decidedOn` only moves with the row's own fingerprint.
* `ReferencesUnique` needs the batch's own rows to differ, which is
  `CreateCustomers`' second guard (SQLite's UNIQUE within one transaction).
* `BookRefinement` has one lemma per action, each mapping it to one operation of
  the book or to a stutter (`ResolveStutters`).

**The services.** `TypeOK` is inductive with `EngineInv`, by which a screen is active only
on a ready engine. Every action of the services is then one operation of the book or a
stutter (`ServicesUseTheBook`), so `NoOrphans` is the book's. `ClearMeansClear` has to say
what each proof is worth before anybody reads it. `SameIdentity`: a screen, a question and
a loop's list have the identity that the book has, since nobody edits in the middle.
`LoadsSelection` and `StampsArePast`: what is loaded are the enabled lists, and no stamp is
younger than what is published or loaded. `ProofsExplained`: a proof that reads current, in
the book or on its way there, has all its matches among the hits. The last one is the
point: a screen that ends late stores a set that may be *smaller* than what a younger screen
stored, but then its stamp is past and no longer counts; and a reload only makes proofs
past, unless the selection goes back to lists it had before, which is the second of the two
events that are excluded.

**The queue.** `NothingPending` is not inductive. The invariant that is,
`QueueInv`, adds `InOrder`: a run past the turnstile finds every older run
completed, and runs are created in the order of their ids. A run takes its turn
only when nothing older is alive, and nothing older can come alive later since
younger ids are created later — which is false once a run may be re-run under
its old id, hence the hypothesis `Rerunnable = {}`. `PublicationQueues` then maps
every action of the pipeline to a step of the queue or to a stutter.

**The signing key.** None of the three properties is inductive: a session acts
on what it read some steps ago. `SessionInv` says what that still is worth — a
copied seed is the row, a marked one is on record and corrupt, a load that closes
has the row's key, a reset that has committed left no row — and is kept because
of `LockInv`: whoever is in a session holds the lock, so only the call that moves
knows anything (`OthersKnow`), also when a tab closes and its lock goes to the
next. `ResetHolds` needs two more facts: `UsedInv`, no key is anywhere that was
not made or imported before, so a generated key is none that is gone; and
`GoneInv`, that a removed key is not in the old entry either, from where the next
load would take it back.

**The releases.** `Types` says that a job that holds an artifact holds a whole one
and that a job is at work only in a run that has the group. `Ages` says of every
copy that is live, built, kept as the way back or on a page that it holds each
change made before the time it states: a fetch establishes it, a carry keeps the
time and the revision together, and a later change upstream has a later time.
`LiveWasVerified` is not inductive: between an upload and its verdict what is live
is not verified, and a rollback must find something that is. `Writers` says so with
`AtWork`, how far the job at work has come: until the upload the live deployment is
verified and is the target to go back to, afterwards the target is. It rests on
`OneWriter`, which needs the group alone, so that both theorems hold also when runs
may be run again. `CodeNeverRegresses` comes out of the same invariant: a job
starts at the newest commit (`Starts`), nothing else changes what is live while it
works, so that its upload is never of an older commit.

`SequencesNameBundles` needs that what is live is above all that was kept (`Above`), and
so is what the job at work would go back to; and that this job either numbers its bundle
one above the live one or has the live bundle itself (`FromLive`): a mirror takes over
bundle and sequence together. A rollback lowers the live sequence, but only to the target,
which is above what was kept before the upload, and the upload itself was not kept.

**The boot of the store.** `StoreInv`: whoever may post has the database open, with its
triggers and up to date (`Guarded`, `UpToDate`), and before that its inbox has nothing but
the first open; a number is given once (`Numbered`), so an answer settles its own request
only. `OwnPastIsOutwaited` compares two clocks. `PastInv` takes the delays of the attempts
`D` and their sums `S` as functions; while the handles of the tab's former worker are on
their way, what is left of the release plus the delays up to the next attempt is at most a
release plus what is left to wait. So at the last attempt nothing is left, and a store
that is still held is another tab's.

**The settings.** `OffWasAsked` compares the lists in force with those whose box was
unticked; in between, a draft passes through a form, a persist of several steps and a
store. `OffInv` says of every copy on this way that it lacks no default list that was not
unticked. `QueueIsHeld`: one persist reloads or re-screens at a time.

**The engine runtime.** A build that was given up goes on, with a source and a model of
its own, and reports at the end. `QueueInv` and `WorkInv` say by generation which build
counts: one that runs no longer is of a past generation, one of this generation holds the
model that is held now, and its source is shared and not given up. No boot waits behind a
reload or a teardown: it joins the one, and `CallersWait` excludes the other. With that `ReadyInv` follows: the
ready engine is of the call that was promised last, until a teardown begins. `OneModelRuns`
needs the part of it about models only, and no hypothesis.

**The page that screens.** When the page is ready, nothing on display may be of another
query, level or set of lists than the box once the searches are done. `Searched` says it of
the searches: the last one is of the box, or what is shown answers the box. It rests on the
page showing "ready" only over an engine with the lists of its scope, which is a fact about
the *order* of the calls that the page has queued with the runtime (`QueueOfPage`): a boot
that may still resolve has no clear and no reload behind it, a clear is the last of its
kind, a reload leaves the phase on "booting" until it ends. The queue changes by taking the
first (`PopKeeps`) and by three kinds of additions (`PushesBoot`, `PushesReload`,
`PushesClear`), one lemma each; the actions of the page are compositions of those.

**The customers page.** The page reads the customers, then the board, then the version of
the lists, while screens, decisions and publishes go on. `StoreTrue` is the book's part: a
screen is of the identity in the row, what it stored is what it found but for decisions,
and a proof on the loaded lists means what it says. `ReadsTrue` is the page's part, by how
far the reads have come: whoever was listed with a proof on the loaded lists has it still
when the board is read, so that whoever the board does not have does not match; and if a
reload comes between, the engine counts up and the claim is about nobody. That the version
is read *last* is what the proof turns on; reading it with the rows is the mutant.

**The import.** A preview is of *some* file and *some* list of references
(`Previews`): its parts share out the rows of the file, and the references it accepts are
new to that list and each there once. An import only carries this along (`Brings`): what it
has brought and what it has left are the accepted rows of its preview, so a row that the
table refuses was not on the list the preview knew, and its customer came since. Which list
that was, and what another tab did to the table in the meantime, the argument does not ask.
An export is a file because a finite set can be put in a sequence.

**The screen of one name.** The property is about the last step, and what it needs is lost
or kept in each of the five before it. `Wanted` is who must not be lost: a person whose
published alias was typed, whom a rare enough word of it reaches, and whose list has a
floor of at most 35.00. Three facts are about the question alone. `PublishedSharesWord`:
canonicalizing only drops titles (`CanonicalWords`), so that an alias with the words of the
query shares a key with it, and passes the gate of the page. `MatchIsAShare`: such an alias
has the greatest tier there is, 100. `ScoreTypes`: its weight alone makes the score at least
35.00, whatever the embedding says, and no other part takes from it. The invariant then
follows the person: a candidate of the list once the words are looked up, since the cap of
that search is what "rare enough" means; a hit of the list once scored, or `Beaten`, which
is to say that `K` hits as good are there; and the same of the merged ones. A cut at `K`
keeps this up: whom it drops is behind `K` that it keeps, and whom those drop later is
behind them. `NameInv` has one part for each stage and `QuestionStays` carries the facts
about the question through.

**The review board.** An id names the entity and the rescan that dealt the row
(`Ids`), rescans only count up, and `Denotes(id, f)` is then stable: whoever bears the
id later shows those facts, or nobody does. `RowsName` and `WireNames` say it of what
is on the screen and on the wire, so the row that a decision reaches has the facts
that were seen.

**The views of the key.** `LoadsAreCurrent`: a load that still counts is of the key
there is, and so is what it showed. Every change makes all views due in the same
step, which cancels what is under way.

**The query index.** The invariant has three parts. `Held`: who has a file open is
the one index that reads and writes it, so another's steps leave its rows alone
(`OthersKeep`). `HandleInv`: what an index has written is the part of its content
that is not left, and all of it once it is ready. And the reuse of a file found on
opening: `ExactlyMeansAll` shows by counting that as many rows as the content has,
all of them with its mark, are its rows — `MarkTells`, because the mark determines
the content, and `MarkingIsOneToOne`.

**The tools.** *Snapshot*: whoever is at work holds the lock, and what its staging
directory has goes by how far it is (`PublisherInv`). The files are whole once they are
captured because the wait is for every capture, also after one has failed: responses are
open only while a publisher captures. *Aliases*: the window shows the feed from some place
on (`Shows`), at which no party is open (`NoneOpenAt`); up to there every name is collected,
and behind it no party is complete (`Exhausted`). A chunk only adds to what is shown.
`DrainTakes` moves the place over all complete parties of the window: its recursion ends
because it goes on behind the party it takes (`DrainPlaces`), each party's names are those
between its tags, since tags do not overlap (`PartyTaken`, `TagsApart`), and where no party
begins nothing is lost but what may be the head of a tag (`NothingTaken`, `LeftoverIs`). At
the end a name that is not collected would lie in a party that is complete and behind the
place. *Bundle*: `Good` is what a copy made by the builder
satisfies — it states an age, no younger than its records, and is stale exactly if it is
carried — and it is kept when the next build carries it. What was live before the first
build may be of another version of the program, and is only `NotYounger`. *Alert*: what
was surely told of a workflow is on the list of the one open issue, or on none (`KeptOn`,
`KeptOff`), *and in every plan under way* of another workflow, since a plan writes the whole
body; a job that was alone from the start to its write finds the issues it has read
(`AloneInv`). The open issue that the code takes is the one with the least number
(`LeastOf`, as the intervals from 0 are well-founded).
*Gates*: from the pointer on a tool follows one tree that it admitted
(`Follows`), whatever the edge answers. What it has taken of the chunks it asks for is seen
or on its way with a worker (`PoolInv`), so once the pool is done all of them are seen
(`DoneIsSeen`), and what a mirror has written is a beginning of what it is to write
(`Pending`). That what is asked for is a sequence, and of the whole tree, takes two lemmas
on the operators of the library, which are defined by recursion and by choice:
`FlattenIsSeq` and `ListedOnce`.

*Induction over data* has no theorem in the library that these provers can use. What a
recursion computes is proved by `NoFirst` instead: what holds of a number whenever it holds
of all smaller ones holds of all, since there is no first one where it fails (`LeastOf`).
A recursive function has to be shown to exist in the same way, place by place, before it
can be unfolded (`CanonicalWords`, `FlattenIsSeq`, `DrainedIs`).

Finiteness is used in six places: the counting of the index, the open issues of the
alert ("one" is a cardinality), the page of customers that holds the board, the rows of an
export, the chunks of a tree (a finite set can be listed), and the hits of a name ("behind
`K` others" is a cardinality).

**Only model-checked**: liveness (`BoardConverges`, `PollGoesOn`, `PollRests`,
`VisitorsConverge`, `CallsEnd`, `AlertComesTrue`): it rests on fairness and on `ENABLED`,
which these provers do not have. Every safety and action property of a passing run is
stated by a theorem.

## 6. Findings

Where a run contradicts what the repository says of itself; the quotations are
in `PROJECT.json`.

1. **An edit during a screen is taken for screened** (`screening_midscreen`; W
   `rescan.ts:126`). A run that read the old name goes on after `updateCustomer`
   has cleared the proof, stores the old name's matches and marks the customer;
   a re-screen asked for after the edit *joins* that run. The new name reads
   "No matches" against lists it was never screened against, until the next
   change of the lists. `screening_edits` shows that the edit is the only cause:
   with edits at rest the property holds.
2. **Two alert jobs overwrite each other** (`alert_overlap`; D `alert.py:140`).
   Nothing serialises the alert jobs of different workflows; one that read the
   body before the other wrote it drops the other's failure, or writes it into an
   issue the other has just closed. `AlertSaysWhatFailed` shows that overlaps are
   the only cause, and `AlertComesTrue` that later reports repair it: the smoke and
   the freshness check report again by their schedules, a deploy only when it runs again.
3. **One failed reload ends the poll** (`screening_polls`; A `lib/sync.ts:74`). A
   reload clears the stamp before it builds; if it fails there is none, and every
   later tick returns at once. The page shows no error and no Retry, and goes on
   without an engine until the user leaves it or asks for a screen. The comment of
   the poll says a failure never stops it.
4. **The board is read by offset** (`desk_paging`; A `lib/customerScreening.ts:51`). A
   rescan that deletes a row between two pages makes the second skip one, and a customer
   with a match reads clear until the page loads again.

## 7. Known, and in no run

Met while modelling and traced in the code. Those with a name in brackets are
stated as properties next to the model, where TLC finds them violated; they are in
no run.

**Lists and releases.**

* The version of a release is its UTC date (D `policy.py:68`), and poll and sync compare
  versions only: an open page does not take up the second release of a day, and customers,
  whose proof bears the same stamp, are not screened again before a release of a later day
  (`VisitorsConverge`, with two releases a day).
* The next sequence is one above *live*, which a rollback moves back (P
  `verifyPublishedOrigin.ts:151`): the release after it has the sequence of the one taken
  back, and a browser that synced in between refuses it as a collision until a later
  release. `publishBundle.ts:24` calls the sequence repository-wide and monotonic.
* The publisher counts whole days, the smoke hours (P `carryForwardList.ts:156`,
  `checkPublishedFreshness.ts:358`), at what a comment calls the same ceiling: a list
  carried for seven days and some hours is built, uploaded, found too old and rolled back
  (`OneCarryCeiling`).
* With part of the catalog enabled, every poll is a new publish: A `lib/sync.ts:78`
  compares the stamp of the enabled lists with that of the whole catalog, so each
  poll reloads and re-screens everyone, for ever. (`convergence` has one
  list; the two stamps are then alike.)
* Re-runs keep their id, so they can make a run pending and cancelled, which
  `queue.py:6-8` excludes. `publication_converges` contains re-runs; `NothingPending`
  is checked and proved without them.
* A mirrored bundle may be up to seven days old for the publisher
  (`FALLBACK_DAYS`) and 26 hours for the live smoke, so that a code deploy that
  mirrors an older one is always rolled back.
* `mirrorPublishedOrigin` reads `/latest` twice and verifies one of the two; a disk
  failure in the middle of its writes leaves a partial tree.
* `buildRealBundle` keeps the alias report of a list whose staging then failed and
  which was carried; `carryForwardList` passes the source's date on without a check;
  `checkPublishedFreshness` does not look at it either, nor at the flags of an entry from
  before `fetchedAt`. It calls fresh what the browser will not open, although its comment
  (P `checkPublishedFreshness.ts:29-31`) says it "can never grade a bundle the browser would
  itself reject"; `GateIsSound` says which fields those are (`Unlooked`).
* An instant to come is believed (P `carryForwardList.ts:156-159`): its age is negative and
  within every ceiling.
* `snapshotSources` leaves its lock file when it is killed. An alias capture whose
  file cannot be opened does not cancel its response. A feed without
  `</ScriptValues>` yields no alias in the stream and some in the whole-string form.
* `fetchWithTimeout` retries a request whose headers fail; a body that breaks off is
  called retryable, and nobody retries it.

**Screening.**

* A page opened while the engine of the one before is being disposed of is handed the
  promise of that engine (B `engine/runtime.ts:571`), and nothing boots another for it,
  although no step fails (`BootsAgain`).
* `replaceMatches` and the mark of the proof are two calls (W `rescan.ts:155`); between
  them the matches of one selection stand under the proof of another. A tab that closes
  there, and lists that are changed back, leave a customer that reads clear until it is
  screened again (`NoFalseClear`, with `"select"` and `"close"` in one instance).
* `ResolveMatchTorn` by itself contradicts `docs/ARCHITECTURE.md:304` ("every
  transition is written to the … audit trail"); `RecordedDecisionSurvives` covers
  what must not follow from it.
* `setEnabledLists` persists the selection before the reload; if the reload
  fails, the setting is ahead of the engine. If a boot over the old selection is
  in flight, it is joined and the re-screen runs over the old lists.
* The engine takes the best 25 and filters by strictness afterwards: a page may say
  "no match" though a candidate further down passes. A query of titles alone is
  empty after canonicalisation, and every alias scores 0.5. An earlier date of birth
  with the same year hides a later exact one.

**The tab.**

* A source that fails to open clears the memo whatever it holds by then (B
  `runtime.ts:902`): a source opened meanwhile is lost with its Worker running
  (`NoLostSource`).
* A boot past its ceiling goes on reporting its stages, and the page may stay on
  "Downloading". A Retry during a clear starts a second engine; the runtime keeps its
  selection over a disposal.
* The public page renders its clear line for a name that was typed after the answer
  (`NoUnscreenedClear`); after "Clear cached lists" in the all-lists scope its Retry
  asks for a reload, which cannot work without an engine (`RetryCanWork`).
* A per-list level does not reach an engine that is loaded: the floors given at load
  win over the query's (`ApplyTakesEffect`; `docs/QUICKSTART.md:109`). An Apply that
  failed after it had saved the rows is a no-op when it is tried again, and the banner
  says "applied". A page mounted during a persist loads the old level. A list that
  came into the catalog between load and Apply is switched off.
* An index that was given up while it opened is heard of late and takes the "in
  memory" flag of its successor (`MemoryIsTold`); the list of fallbacks never
  shrinks on disposal.
* `database` is assigned before `migrate` runs; a build of the store whose open fails
  after it took the pool does not end its worker; the client listens to `message`
  only, so a worker that cannot be loaded leaves its calls pending.

**The pages.**

* The customers page is not reloaded after a background rescan; overlapping loads
  clear each other's flags and errors.
* The history drawer is not reloaded after a decision made on the page.
* `spreadsheetSafe` prefixes a quote on export and the import does not strip it, so a
  reference like `-7` comes back as another (a test calls the file re-importable).
  The table compares spellings while the preview folds them, so `acme` may be imported
  beside `ACME` that came meanwhile. An import that ends closes whatever preview is on
  screen. Blank rows count towards the reader's row limit.
* An exported key file is named after a key that came after the sealing
  (`FileNamesItsKey`). The notice of a temporary key does not listen to changes.

**The signing key.**

* A tab that closes, or a session whose `close` fails, after the commit of a
  reset or import and before `announce` leaves the other tabs signing with the
  key that is gone until they load again (`past.untold` in `InstallKeys`).
* A reset whose removal of the old entry the browser refuses is undone by the
  next load: the old seed migrates back. A reset in a tab that works in memory
  leaves the row on OPFS as it is, and an import there removes the old entry,
  which was the only durable copy of the old seed.
* A tab that closes after a corrupt old seed was quarantined and retired, and
  before a key was generated, leaves nothing by which the next load knows:
  `resetFromCorruptSeed` (B `installKey.ts:245-248`) is then false.

`docs/ARCHITECTURE.md:467` says `SCHEMA_VERSION = 3`; `schema.ts:11` says 5.

## 8. Not modelled

* **Embeddings and the arithmetic on letters** (the model, cosine, edit distance,
  Soundex): floating-point arithmetic and text. `NameScreen` takes their results as
  inputs and has everything that is decided on them; `Screening` takes which entities
  an identity matches in a version of a list as the constant `HitsOf`.
* **The embedding worker** (`embedderClient.ts`): a warm-up that answers or fails in
  `EngineRuntime`; its pending requests are not a module. The **streaming loader**
  is the one source a load keeps; which lists are resident when is left out. A worker
  **that cannot be loaded** at all is left out of `StoreBoot`.
* **Cryptography** (signatures, hashes, receipts): taken to work. A bundle that
  does not verify is a sync that fails.
* **Parsers and formatters** of the feeds' records and of customer files: text. What a
  row is (a customer, wrong, blank) is an input of `CustomerTransfer`.
* **Presentation, locale, the build, the recall and decision studies**: no state of the
  system.
* **The outside**: GitHub, Cloudflare, the edgeproc client, SQLite and the
  browser, except for what the code relies on (marked external).

## 9. What could come next

* A refinement from `EngineRuntime` to the `engine` of `Screening`, which needs the
  page's discipline (`CallersWait`) as part of the abstraction; and one from
  `BundleBuild` and `OriginGate` to the steps of `Publication`.
* The embedding worker and its pending requests; the streaming residency.
* Proofs: the liveness of section 4 down to its fairness, should the provers be given
  fairness.

## 10. Running it

```
tlc -workers 2 -config Origin.cfg          MCOrigin.tla
tlc -workers 2 -config Screening_edits.cfg MCScreening.tla
tlc -workers 2 -config Pages.cfg           MCPages.tla
tlapm MatchStoreProofs.tla
```

`PROJECT.json` names the module and the configuration of every run. One that is
listed there as a violation ends with a counterexample.
