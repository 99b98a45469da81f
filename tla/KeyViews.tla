------------------------------ MODULE KeyViews ------------------------------
(* What the pages show of the signing key: the badge of a receipt            *)
(* (DossierCard.tsx), the settings section with its three forms              *)
(* (SigningKeySection.tsx) and the notice of a key that is not kept          *)
(* (SigningKeyNotice.tsx), over the key service of their tab.  Module        *)
(* InstallKeys is that service: here it is a key, an announcement of every   *)
(* change, and a load that may be refused.                                   *)
EXTENDS Naturals

CONSTANTS Key, NoKey,
          MaxChanges   \* bound: how often the key changes

ASSUME KeyViewsAssumption ==
  NoKey \notin Key /\ MaxChanges \in Nat

VARIABLES key,     \* the key a load of this tab resolves to
          changes, \* how often it has changed
          stored,  \* FALSE when the browser refused storage, and the key is the tab's alone
          signer,  \* who sealed the receipt on the screen, NoKey for a match without one
          view,    \* per view: what is shown, and the effect under way
          notice,  \* the notice of a temporary key
          form     \* the export, the import and the reset form

keyVars == <<key, changes, stored, signer, view, notice, form>>

Views == {"badge", "section"}
Form == {"export", "import", "reset"}
View == [at |-> "loading", key |-> NoKey, due |-> TRUE, load |-> NoKey]
FormIdle == [at |-> "idle", key |-> NoKey, filed |-> NoKey]

KeyInit ==
  /\ key \in Key /\ changes = 0 /\ stored \in BOOLEAN
  /\ signer \in Key \cup {NoKey}
  /\ view = [v \in Views |-> View]
  /\ notice = "loading" /\ form = [f \in Form |-> FormIdle]

-----------------------------------------------------------------------------
(* The views.                                                                *)

\* changed(): the listeners of the views ask React for another run of their effect
NotDue(w) == w  \* mutant: the views do not listen
Due(w) == [v \in Views |-> [w[v] EXCEPT !.due = TRUE]]

\* the effect: the load before it does not count any more, and the badge, unlike the
\* section, forgets what it has shown; a match without a receipt needs no key
Shows(v) == v = "section" \/ signer # NoKey
Restarted(v) ==
  [at   |-> IF v = "badge" THEN "loading" ELSE view[v].at,
   key  |-> IF v = "badge" THEN NoKey ELSE view[v].key,
   due  |-> FALSE,
   load |-> IF Shows(v) THEN key ELSE NoKey]
EffectRuns(v) ==
  /\ view[v].due
  /\ view' = [view EXCEPT ![v] = Restarted(v)]
  /\ UNCHANGED <<key, changes, stored, signer, notice, form>>

Shown(at, k) == [at |-> at, key |-> k, due |-> FALSE, load |-> NoKey]
Settles(v, shown) ==
  /\ view[v].load # NoKey
  /\ view' = [view EXCEPT ![v] = [shown EXCEPT !.due = view[v].due]]
  /\ UNCHANGED <<key, changes, stored, signer, notice, form>>
LoadsKey(v) == Settles(v, Shown("ready", view[v].load))
LoadRefused(v) == Settles(v, Shown("failed", NoKey))

\* ReceiptVerdict: every state of the key is rendered, and only this key is trusted
Verdict ==
  IF signer = NoKey THEN "no badge"
  ELSE CASE view["badge"].at = "loading" -> "pending"
         [] view["badge"].at = "failed"  -> "unavailable"
         [] OTHER -> IF view["badge"].key = signer THEN "verified" ELSE "wrong-key"

\* another screen: its match is sealed with the key of the moment, or goes without a
\* receipt when the key cannot be loaded (createMatchReceiptSealer)
Screens(k) ==
  /\ k \in {key, NoKey} /\ k # signer
  /\ signer' = k
  /\ view' = [v \in Views |-> IF v = "badge" THEN [view[v] EXCEPT !.due = TRUE] ELSE view[v]]
  /\ UNCHANGED <<key, changes, stored, notice, form>>

\* the notice asks once, and listens to no change
NoticeLoads ==
  /\ notice = "loading"
  /\ notice' \in {IF stored THEN "none" ELSE "temporary", "none"}
  /\ UNCHANGED <<key, changes, stored, signer, view, form>>

-----------------------------------------------------------------------------
(* The forms.                                                                *)

Becomes(k) ==
  /\ key' = k /\ changes' = changes + 1 /\ view' = Due(view)

\* a reset or an import of another tab
ChangedElsewhere(k) ==
  /\ k # key /\ changes < MaxChanges
  /\ Becomes(k) /\ UNCHANGED <<stored, signer, notice, form>>

Says(f, what) == form' = [form EXCEPT ![f].at = what]

\* handleExport: the key of the moment is sealed in a worker; then the file is named
\* after the key a second load finds
Exports ==
  /\ form["export"].at = "idle"
  /\ form' = [form EXCEPT !["export"] = [FormIdle EXCEPT !.at = "sealing", !.key = key]]
  /\ UNCHANGED <<key, changes, stored, signer, view, notice>>
SavesFile ==
  /\ form["export"].at = "sealing"
  /\ form' = [form EXCEPT !["export"].at = "idle", !["export"].filed = key]
  /\ UNCHANGED <<key, changes, stored, signer, view, notice>>

\* handleImport: the file is opened in a worker, and the key in it becomes this one
OpensFile(k) ==
  /\ form["import"].at = "idle"
  /\ form' = [form EXCEPT !["import"] = [FormIdle EXCEPT !.at = "opening", !.key = k]]
  /\ UNCHANGED <<key, changes, stored, signer, view, notice>>
ImportsKey ==
  /\ form["import"].at = "opening" /\ changes < MaxChanges
  /\ Becomes(form["import"].key) /\ Says("import", "idle")
  /\ UNCHANGED <<stored, signer, notice>>

\* ResetControl: a warning to confirm or cancel, then the next load makes a new key
Warns ==
  /\ form["reset"].at = "idle"
  /\ Says("reset", "confirming") /\ UNCHANGED <<key, changes, stored, signer, view, notice>>
Cancels ==
  /\ form["reset"].at = "confirming"
  /\ Says("reset", "idle") /\ UNCHANGED <<key, changes, stored, signer, view, notice>>
Resets(k) ==
  /\ form["reset"].at = "confirming" /\ changes < MaxChanges /\ k # key
  /\ Becomes(k) /\ Says("reset", "idle")
  /\ UNCHANGED <<stored, signer, notice>>

\* what the worker refuses is said, and the form is free again (an empty, short or
\* mismatched passphrase, or no file, never leaves it)
FormFails(f) ==
  /\ form[f].at # "idle"
  /\ Says(f, "idle") /\ UNCHANGED <<key, changes, stored, signer, view, notice>>

KeyNext ==
  \/ \E v \in Views : EffectRuns(v) \/ LoadsKey(v) \/ LoadRefused(v)
  \/ \E k \in Key : ChangedElsewhere(k) \/ OpensFile(k) \/ Resets(k)
  \/ \E k \in Key \cup {NoKey} : Screens(k)
  \/ NoticeLoads \/ Exports \/ SavesFile \/ ImportsKey \/ Warns \/ Cancels
  \/ \E f \in Form : FormFails(f)

KeySpec == KeyInit /\ [][KeyNext]_keyVars

-----------------------------------------------------------------------------
(* Properties.                                                               *)

KeyViewsTypeOK ==
  /\ key \in Key /\ changes \in 0..MaxChanges /\ signer \in Key \cup {NoKey}
  /\ notice \in {"loading", "none", "temporary"}
  /\ \A v \in Views : view[v].at \in {"loading", "ready", "failed"} /\ view[v].due \in BOOLEAN
                     /\ {view[v].key, view[v].load} \subseteq Key \cup {NoKey}

\* DossierCard.tsx:127-134: a receipt is never judged against a key that a reset or an
\* import, of this tab or another, has replaced; and the section shows no other key
\* than the badge trusts.
ViewsFollowTheKey ==
  /\ \A v \in Views :
       view[v].at = "ready" /\ ~view[v].due /\ view[v].load = NoKey => view[v].key = key
  /\ Verdict \in {"verified", "wrong-key"} /\ ~view["badge"].due =>
       (Verdict = "verified" <=> signer = key)

\* The export file is named after the key that is in it. It does not hold: the name is taken
\* from a load after the sealing, and the key may change in between.
FileNamesItsKey == form["export"].filed # NoKey => form["export"].filed = form["export"].key
=============================================================================
