---------------------------- MODULE SettingsPage ----------------------------
(* The settings page (SettingsPage.tsx): a form over four settings, and what *)
(* Apply makes of it, through the workstation's queue (lib/workstation.ts),  *)
(* the screening config (localApi.ts) and the floors that an engine was      *)
(* loaded with (multiEngine.ts).  A level is its threshold in hundredths.    *)
(* The re-screen of the book is one step here: module Screening takes it     *)
(* apart.                                                                    *)
EXTENDS Naturals, FiniteSets

CONSTANTS Catalog,       \* the lists of the signed catalog
          DefaultLists,  \* those a device screens that has no selection stored
          Threshold,         \* the presets' thresholds
          Overridable,   \* bound: the lists whose override the user edits
          Name, Blank,   \* analyst names; the empty field
          Unset,         \* a setting without a row
          BookSize,      \* customers
          MayFail,       \* "load", "name", "lists", "reload", "screen", "config"
          MaxEdits, MaxApplies, MaxMounts  \* bounds

ASSUME SettingsAssumption ==
  /\ DefaultLists \subseteq Catalog /\ Overridable \subseteq Catalog
  /\ 65 \in Threshold /\ Threshold \subseteq Nat \ {0}
  /\ Blank \notin Name /\ BookSize \in Nat /\ MaxApplies \in Nat

VARIABLES stored,   \* the settings rows
          loaded,   \* the loaded lists and the per-list floors given to the engine
          book,     \* the floor each list was last screened at, 0 if it was not
          serial,   \* operationTail: who is running in the queue
          mounted,  \* the mounted page
          applies,  \* persist(), which an unmounted page does not stop
          unticked  \* auxiliary: the lists whose box was ever unticked

settingsVars == <<stored, loaded, book, serial, mounted, applies, unticked>>

None == 0    \* no override, no floor, nobody
Off == [on |-> FALSE, lists |-> {}, perList |-> [l \in Catalog |-> None]]
Fresh == [sens |-> 65, over |-> [l \in Catalog |-> None], name |-> Blank, enabled |-> {}]
Idle == [at |-> "idle", mount |-> 0, draft |-> Fresh, changed |-> FALSE, scanned |-> 0]

\* effectiveEnabledIds: the stored selection, or the device's default
Effective(st) == IF st.enabled = {Unset} THEN DefaultLists ELSE st.enabled
\* resolveThreshold: an override, else the global sensitivity
Wanted(c, l) == IF c.over[l] # None THEN c.over[l] ELSE c.sens
\* #thresholdFor: the floors given at load, else the query's threshold
Floor(e, sens, l) == IF e.perList[l] # None THEN e.perList[l] ELSE sens

Shown(st) == [sens |-> st.sens, over |-> st.over, name |-> st.name, enabled |-> Effective(st)]
\* a page just mounted: its form is empty until the load has filled it
Mounted(n) == [mount |-> n, edits |-> 0, load |-> "config", config |-> Fresh,
               loaded |-> FALSE, failed |-> FALSE, form |-> Fresh, baseline |-> Fresh,
               applying |-> FALSE, error |-> FALSE, banner |-> "none", cleared |-> FALSE]

SettingsInit ==
  /\ stored = [Fresh EXCEPT !.enabled = {Unset}]
  /\ loaded \in {Off, [Off EXCEPT !.on = TRUE, !.lists = DefaultLists]}
  /\ book = [l \in Catalog |-> IF l \in DefaultLists THEN 65 ELSE None]
  /\ serial = None /\ mounted = Mounted(1) /\ unticked = {}
  /\ applies = [i \in 1..MaxApplies |-> Idle]

Loaded(st) == [on |-> TRUE, lists |-> Effective(st), perList |-> st.over]

-----------------------------------------------------------------------------
(* Loading the form, and editing it.                                         *)

\* the config is read first; the rest waits its turn in the queue
ReadsConfig ==
  /\ mounted.load = "config"
  /\ mounted' = [mounted EXCEPT !.load = "rest", !.config = Shown(stored)]
  /\ UNCHANGED <<stored, loaded, book, serial, applies, unticked>>

Filled(p, form) == [p EXCEPT !.load = "none", !.loaded = TRUE, !.form = form, !.baseline = form]
LoadFills ==
  /\ mounted.load = "rest" /\ serial = None
  /\ mounted' = Filled(mounted, [mounted.config EXCEPT !.name = stored.name, !.enabled = Effective(stored)])
  /\ UNCHANGED <<stored, loaded, book, serial, applies, unticked>>

LoadFails ==
  /\ mounted.load # "none" /\ "load" \in MayFail
  /\ mounted' = [mounted EXCEPT !.load = "none", !.failed = TRUE, !.error = TRUE]
  /\ UNCHANGED <<stored, loaded, book, serial, applies, unticked>>

RetriesLoad ==
  /\ mounted.failed /\ mounted.error
  /\ mounted' = [mounted EXCEPT !.load = "config", !.failed = FALSE, !.error = FALSE, !.loaded = FALSE]
  /\ UNCHANGED <<stored, loaded, book, serial, applies, unticked>>

\* what one edit makes of a form
Edited(form) ==
  {[form EXCEPT !.sens = v] : v \in Threshold}
  \cup {[form EXCEPT !.over[l] = v] :
          l \in Overridable \cap form.enabled, v \in Threshold \cup {None}}
  \cup {[form EXCEPT !.name = n] : n \in Name \cup {Blank}}
  \cup {[form EXCEPT !.enabled = s] : s \in {form.enabled \cup {l} : l \in Catalog}
                                          \cup {form.enabled \ {l} : l \in Catalog}}
Edits ==
  /\ mounted.loaded /\ mounted.edits < MaxEdits
  /\ \E form \in Edited(mounted.form) :
       /\ form # mounted.form
       /\ mounted' = [mounted EXCEPT !.form = form, !.edits = @ + 1]
       /\ unticked' = unticked \cup (mounted.form.enabled \ form.enabled)
  /\ UNCHANGED <<stored, loaded, book, serial, applies>>

\* another route and back: a load of the page that is left is cancelled, a persist is not
Remounts ==
  /\ mounted.mount < MaxMounts
  /\ mounted' = Mounted(mounted.mount + 1)
  /\ UNCHANGED <<stored, loaded, book, serial, applies, unticked>>

-----------------------------------------------------------------------------
(* Apply: handleApply and persist.                                           *)

\* snapshotsDiffer: a blank name is never persisted, so it is no change
Differs(draft, base) ==
  \/ draft.sens # base.sens \/ draft.over # base.over \/ draft.enabled # base.enabled
  \/ draft.name # Blank /\ draft.name # base.name

\* Mutant of CanApply: the button does not wait for the load.
CanApplyBeforeLoad == ~mounted.applying
CanApply == mounted.loaded /\ ~mounted.applying
Applies(i) ==
  /\ CanApply
  /\ applies[i] = Idle /\ \A j \in 1..(i-1) : applies[j] # Idle
  /\ mounted' = [mounted EXCEPT !.applying = TRUE, !.error = FALSE, !.banner = "none"]
  /\ applies' = [applies EXCEPT ![i] =
       [at |-> "name", mount |-> mounted.mount, draft |-> mounted.form,
        changed |-> Differs(mounted.form, mounted.baseline), scanned |-> 0]]
  /\ UNCHANGED <<stored, loaded, book, serial, unticked>>

At(i, step) == applies[i].at = step
Goes(i, step) == applies' = [applies EXCEPT ![i].at = step]

SavesName(i) ==
  /\ At(i, "name") /\ Goes(i, "lists")
  /\ stored' = [stored EXCEPT !.name =
                  IF applies[i].draft.name # Blank THEN applies[i].draft.name ELSE @]
  /\ UNCHANGED <<loaded, book, serial, mounted, unticked>>

\* Mutant of Freed: an operation that failed keeps the queue.
FreedOnlyOnSuccess(i) ==
  serial' = IF serial = i /\ At(i, "rescan lists") THEN None ELSE serial
\* serial: the queue goes on when its operation has ended, whatever became of it
Freed(i) == serial' = IF serial = i THEN None ELSE serial

\* setEnabledLists takes the queue; a selection that is no change gives it back at once
SameLists(i) ==
  /\ At(i, "lists") /\ serial = None
  /\ applies[i].draft.enabled = Effective(stored) /\ Goes(i, "config")
  /\ UNCHANGED <<stored, loaded, book, serial, mounted, unticked>>
SavesLists(i) ==
  /\ At(i, "lists") /\ serial = None
  /\ applies[i].draft.enabled # Effective(stored) /\ Goes(i, "reload")
  /\ stored' = [stored EXCEPT !.enabled = applies[i].draft.enabled]
  /\ serial' = i
  /\ UNCHANGED <<loaded, book, mounted, unticked>>
\* a first boot on a page that had no engine, a reload over the new set on another
Reloads(i) ==
  /\ At(i, "reload") /\ Goes(i, "rescan lists")
  /\ loaded' = [Loaded(stored) EXCEPT !.lists = applies[i].draft.enabled]
  /\ UNCHANGED <<stored, book, serial, mounted, unticked>>

\* rescanAll: each screen boots an engine if there is none, and asks for the stored level
Rescanned(e) == [l \in Catalog |-> IF l \in e.lists THEN Floor(e, stored.sens, l) ELSE None]
Rescans(i) ==
  /\ At(i, "rescan lists") \/ At(i, "rescan config")
  /\ LET e == IF loaded.on THEN loaded ELSE Loaded(stored) IN
       /\ loaded' = IF BookSize = 0 THEN loaded ELSE e
       /\ book' = IF BookSize = 0 THEN book ELSE Rescanned(e)
  /\ Freed(i)
  /\ applies' = [applies EXCEPT ![i].scanned = BookSize,
                   ![i].at = IF At(i, "rescan lists") THEN "config" ELSE "ends"]
  /\ UNCHANGED <<stored, mounted, unticked>>

\* setScreeningConfig: nothing to do, or two rows one after the other, and a re-screen
SameConfig(i) ==
  /\ At(i, "config") /\ Goes(i, "ends")
  /\ applies[i].draft.sens = stored.sens /\ applies[i].draft.over = stored.over
  /\ UNCHANGED <<stored, loaded, book, serial, mounted, unticked>>
SavesSensitivity(i) ==
  /\ At(i, "config") /\ Goes(i, "overrides")
  /\ applies[i].draft.sens # stored.sens \/ applies[i].draft.over # stored.over
  /\ stored' = [stored EXCEPT !.sens = applies[i].draft.sens]
  /\ UNCHANGED <<loaded, book, serial, mounted, unticked>>
SavesOverrides(i) ==
  /\ At(i, "overrides") /\ Goes(i, "rescan config")
  /\ stored' = [stored EXCEPT !.over = applies[i].draft.over]
  /\ UNCHANGED <<loaded, book, serial, mounted, unticked>>

\* what a persist still tells the page, if it is the page it was started on
Tells(i, p) == mounted' = IF applies[i].mount = mounted.mount THEN p ELSE mounted
Ends(i) ==
  /\ At(i, "ends") /\ Goes(i, "done")
  /\ Tells(i, [mounted EXCEPT
       !.applying = FALSE,
       !.baseline = [applies[i].draft EXCEPT !.name = IF @ = Blank THEN mounted.baseline.name ELSE @],
       !.banner = CASE applies[i].scanned # 0 -> "rescanned"
                    [] applies[i].changed     -> "applied"
                    [] OTHER                  -> "unchanged"])
  /\ UNCHANGED <<stored, loaded, book, serial, unticked>>

\* a step that fails ends the persist where it stands: what was saved stays saved, the
\* queue goes on, and a reload that failed leaves no engine
Fails(i) ==
  /\ \/ At(i, "name") /\ "name" \in MayFail
     \/ At(i, "lists") /\ "lists" \in MayFail /\ serial = None
     \/ At(i, "reload") /\ "reload" \in MayFail
     \/ At(i, "rescan lists") /\ "screen" \in MayFail
     \/ At(i, "rescan config") /\ "screen" \in MayFail
     \/ At(i, "config") /\ "config" \in MayFail
     \/ At(i, "overrides") /\ "config" \in MayFail
  /\ Goes(i, "done")
  /\ loaded' = IF At(i, "reload") THEN Off ELSE loaded
  /\ Freed(i)
  /\ Tells(i, [mounted EXCEPT !.applying = FALSE, !.error = TRUE])
  /\ UNCHANGED <<stored, book, unticked>>

\* "Clear cached lists" releases the engine, in its turn
ClearsCache ==
  /\ serial = None /\ (loaded.on \/ ~mounted.cleared)
  /\ loaded' = Off /\ mounted' = [mounted EXCEPT !.cleared = TRUE, !.error = FALSE]
  /\ UNCHANGED <<stored, book, serial, applies, unticked>>

ApplyStep(i) ==
  \/ SavesName(i) \/ SameLists(i) \/ SavesLists(i) \/ Reloads(i) \/ Rescans(i)
  \/ SameConfig(i) \/ SavesSensitivity(i) \/ SavesOverrides(i) \/ Ends(i) \/ Fails(i)

SettingsNext ==
  \/ ReadsConfig \/ LoadFills \/ LoadFails \/ RetriesLoad \/ Edits \/ Remounts \/ ClearsCache
  \/ \E i \in 1..MaxApplies : Applies(i) \/ ApplyStep(i)

SettingsFairness == \A i \in 1..MaxApplies : WF_settingsVars(ApplyStep(i))
SettingsSpec == SettingsInit /\ [][SettingsNext]_settingsVars /\ SettingsFairness

-----------------------------------------------------------------------------
(* Properties.                                                               *)

SettingsTypeOK ==
  /\ stored.sens \in Threshold /\ stored.over \in [Catalog -> Threshold \cup {None}]
  /\ stored.enabled \subseteq Catalog \/ stored.enabled = {Unset}
  /\ loaded.lists \subseteq Catalog /\ book \in [Catalog -> Threshold \cup {None}]
  /\ serial \in 0..MaxApplies
  /\ serial # None => applies[serial].at \in {"reload", "rescan lists"}

\* No list goes out of the screening unless somebody unticked it: not by a form that has
\* not been loaded, not by a persist that failed half way or outlived its page.
OffWasAsked == DefaultLists \ Effective(stored) \subseteq unticked

\* Apply always comes to an end.
NothingApplying == \A i \in 1..MaxApplies : applies[i] = Idle \/ At(i, "done")
ApplyEnds == []<>NothingApplying

\* When the page says that the settings are applied, the book has been screened under
\* them: every enabled list at its own level, and no other list.
ApplyTakesEffect ==
  mounted.banner \in {"applied", "rescanned", "unchanged"} /\ BookSize # 0
    => \A l \in Catalog :
         book[l] = IF l \in Effective(stored) THEN Wanted(stored, l) ELSE None
=============================================================================
