------------------------------- MODULE MCTab -------------------------------
(* One tab of the app for TLC: its engine runtime, the public page that      *)
(* screens, the boot of the store's worker and the tables it keeps, and the  *)
(* settings page. The five share no variable, so a behaviour moves one of    *)
(* them, chosen at the start, and the run explores the sum of their state    *)
(* spaces.                                                                   *)
EXTENDS EngineRuntime, ScreenPage, StoreBoot, SettingsPage, MCMatchStore

CONSTANTS A, B,          \* two lists
          q1, q2         \* two queries

VARIABLE part

Parts == {"runtime", "screen", "boot", "settings", "tables"}
tabVars == <<part, runtimeVars, screenVars, bootVars, settingsVars, vars>>

UsOnly == [lists |-> {A}, streaming |-> FALSE]
Everything == [lists |-> {A, B}, streaming |-> TRUE]
TabSelections == {UsOnly, Everything}
TabKinds == {"boot", "dispose", "clear", "reload", "catalog", "only", "poll"}
TabLevels == {"balanced", "strict"}
\* q1 finds a name of the list B, at the looser level only
FoundIn(q, l) == IF q = q1 /\ l = "balanced" THEN {B} ELSE {}

TabInit ==
  /\ part \in Parts /\ RuntimeInit /\ ScreenInit /\ BootInit /\ SettingsInit /\ Init
  /\ loaded = Off \/ part = "settings"
  /\ customers = [c \in Customer |-> NoRow] \/ part = "tables"
InRuntime == part = "runtime" /\ UNCHANGED <<part, screenVars, bootVars, settingsVars, vars>>
InScreen == part = "screen" /\ UNCHANGED <<part, runtimeVars, bootVars, settingsVars, vars>>
InBoot == part = "boot" /\ UNCHANGED <<part, runtimeVars, screenVars, settingsVars, vars>>
InSettings == part = "settings" /\ UNCHANGED <<part, runtimeVars, screenVars, bootVars, vars>>
InTables == part = "tables" /\ UNCHANGED <<part, runtimeVars, screenVars, bootVars, settingsVars>>

TabNext ==
  \/ InRuntime /\ RuntimeNext
  \/ InScreen /\ ScreenNext
  \/ InBoot /\ BootNext
  \/ InSettings /\ SettingsNext
  \/ InTables /\ Next

\* The fairness of each module, in the behaviours that move it. The bounded calls, workers
\* and applies take finitely many steps, so that fairness to all of them together is
\* fairness to each.
TabFairness ==
  /\ WF_tabVars(InRuntime /\ QueueStep) /\ WF_tabVars(InRuntime /\ ScreenEnds)
  /\ WF_tabVars(InRuntime /\ \E f \in work : BodyStep(f))
  /\ WF_tabVars(InRuntime /\ \E s \in DOMAIN rt.srcs : SourceSettles(s))
  /\ WF_tabVars(InScreen /\ BootEffect) /\ WF_tabVars(InScreen /\ RuntimeAnswers)
  /\ WF_tabVars(InScreen /\ DebounceFires) /\ WF_tabVars(InScreen /\ SearchStarts)
  /\ WF_tabVars(InScreen /\ (SearchAnswers \/ SearchRejects))
  /\ WF_tabVars(InBoot /\ Tick) /\ WF_tabVars(InBoot /\ \E k \in Workers : WorkerStep(k))
  /\ WF_tabVars(InSettings /\ \E i \in 1..MaxApplies : ApplyStep(i))
TabSpec == TabInit /\ [][TabNext]_tabVars /\ TabFairness

-----------------------------------------------------------------------------
TabTypeOK == RuntimeTypeOK /\ ScreenTypeOK /\ BootTypeOK /\ SettingsTypeOK

\* Whatever is asked of the runtime, of the engine, of the store or of the settings page is
\* answered: the shares CallsSettle, SearchIsAnswered, StoreCallsSettle and ApplyEnds of the
\* four modules, as one formula (in a behaviour that moves one of them the others are at rest).
CallsEnd ==
  []<>(/\ NoCallPending /\ NoRequestPending /\ NothingApplying
       /\ ~Searching \/ (timer /\ seq = MaxSearches))
=============================================================================
