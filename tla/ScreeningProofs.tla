-------------------------- MODULE ScreeningProofs --------------------------
(***************************************************************************)
(* The services that screen, for any customers, entities, lists and        *)
(* events: their types, that they use the tables only through the hit      *)
(* book's operations, that no hit outlives its customer, and that a        *)
(* customer proven against the lists in force shows every hit of them, as  *)
(* long as nobody is edited in the middle of a screen and the selection    *)
(* of lists stays as it is.                                                *)
(***************************************************************************)
EXTENDS Screening, TLAPS

(* What a screen in its phase knows of its customer and of the engine: it has *)
(* an identity, is queued only on an engine that is ready, and runs only on *)
(* one that has its lists.                                                 *)
EngineInv ==
    /\ engine.phase = "ready" => engine.version # NoVersion
    /\ \A k \in Kind, c \in Customer :
          /\ screen[k][c].phase # "idle" => screen[k][c].identity \in Identity
          /\ screen[k][c].phase = "queued" => engine.phase = "ready"
          /\ screen[k][c].phase = "active" =>
                /\ engine.phase \in {"ready", "draining", "disposing"}
                /\ engine.version # NoVersion

Inv == TypeOK /\ EngineInv

(* The stamp of a set of lists is a version of them, and never none.       *)
LEMMA StampsAreVersions ==
    ASSUME TypeOK, NEW S \in SUBSET List
    PROVE  /\ StampOf(S) \in [S -> 1..MaxPublish]
           /\ StampOf(S) \in Version
           /\ StampOf(S) # NoVersion
BY ScreeningAssumption DEF StampOf, TypeOK

(* The engine has a stamp or none.                                         *)
LEMMA StampTyped == TypeOK => stamp \in Stamps
BY DEF TypeOK, stamp, Stamps

(* What a list version holds of an identity is a set of entities.          *)
LEMMA MatchesTyped ==
    ASSUME NEW i \in Identity, NEW v \in Version
    PROVE  MatchesIn(i, v) \in SUBSET Entity
BY ScreeningAssumption DEF MatchesIn

(* Every operation of the hit book keeps its types.                        *)
LEMMA BookStepTyped ==
    ASSUME BookTypeOK, [BookNext]_bookVars PROVE BookTypeOK'
<1> USE DEF BookTypeOK, bookVars, Row
<1>1. CASE \E batch \in Batches : Enrol(batch)
  BY <1>1 DEF Enrol, Batches, Unproven
<1>2. ASSUME NEW c \in Customer, NEW i \in Identity, Amend(c, i) PROVE BookTypeOK'
  BY <1>2 DEF Amend, Unproven, Known
<1>3. ASSUME NEW c \in Customer, NEW v \in Version, Prove(c, v) PROVE BookTypeOK'
  BY <1>3 DEF Prove, Known
<1>4. ASSUME NEW c \in Customer, NEW es \in SUBSET Entity, Record(c, es) \/ Replace(c, es)
      PROVE  BookTypeOK'
  BY <1>4 DEF Record, Replace
<1>5. ASSUME NEW c \in Customer, Erase(c) PROVE BookTypeOK'
  BY <1>5 DEF Erase
<1> QED BY <1>1, <1>2, <1>3, <1>4, <1>5 DEF BookNext

(* What every step of the services does to the tables is one operation of the *)
(* hit book or nothing.                                                    *)
LEMMA StepsAreBookSteps ==
    ASSUME Inv, [Next]_vars
    PROVE  [BookNext]_bookVars
<1> USE DEF Inv, TypeOK, bookVars
<1>1. ASSUME NEW k \in Kind, NEW c \in Customer, RunNext(k, c)
      PROVE  [BookNext]_bookVars
  <2>1. CASE AskEngine(k, c) \/ StartScreen(k, c) \/ ScreenThrows(k, c)
    BY <2>1 DEF AskEngine, StartScreen, ScreenThrows
  <2>2. CASE FinishScreen(k, c)
    <3> DEFINE es == MatchesIn(screen[k][c].identity, engine.version)
    <3>0. stamp = NoVersion \/ stamp \in Version
      BY StampTyped DEF Stamps
    <3>1. es \in SUBSET Entity
      <4>1. screen[k][c].identity \in Identity /\ engine.version \in Version
        BY <2>2 DEF FinishScreen, EngineInv, Stamps
      <4> QED BY <4>1, MatchesTyped
    <3>2. CASE Replace(c, es) \/ Record(c, es)
      BY <3>1, <3>2 DEF BookNext
    <3>3. CASE UNCHANGED bookVars
      BY <3>3
    <3>4. CASE stamp # NoVersion /\ Prove(c, stamp)
      BY <3>4, <3>0 DEF BookNext
    <3> QED BY <2>2, <3>2, <3>3, <3>4 DEF FinishScreen
  <2>3. CASE MarkScreened(k, c)
    <3>1. screen[k][c].proof # NoVersion => screen[k][c].proof \in Version
      BY DEF Stamps
    <3> QED BY <2>3, <3>1 DEF MarkScreened, BookNext
  <2> QED BY <1>1, <2>1, <2>2, <2>3 DEF RunNext
<1>2. CASE Environment
  <2>1. CASE Leave \/ Dispose \/ LoadFails \/ TabCloses \/ Quieten
             \/ (\E l \in List : Publish(l)) \/ (\E S \in Selections : SetLists(S))
             \/ (\E c \in Customer : ScreenOne(c))
    BY <2>1 DEF Leave, Dispose, LoadFails, TabCloses, Quieten, Publish, SetLists, ScreenOne
  <2>2. CASE \E batch \in Batches : Import(batch)
    BY <2>2 DEF Import, BookNext
  <2>3. CASE \E c \in Customer : Delete(c)
    BY <2>3 DEF Delete, BookNext
  <2>4. CASE \E c \in Customer, i \in Identity : Edit(c, i)
    BY <2>4 DEF Edit, BookNext
  <2>5. ASSUME NEW c \in Customer, NEW i \in Identity, Onboard(c, i)
        PROVE  [BookNext]_bookVars
    <3>1. [d \in {c} |-> i] \in [{c} -> Identity] /\ {c} \in SUBSET Customer
      OBVIOUS
    <3>2. [d \in {c} |-> i] \in Batches
      BY <3>1 DEF Batches
    <3>3. Enrol([d \in {c} |-> i])
      BY <2>5 DEF Onboard
    <3> QED BY <3>2, <3>3 DEF BookNext
  <2> QED BY <1>2, <2>1, <2>2, <2>3, <2>4, <2>5 DEF Environment
<1>3. CASE EngineNext \/ PollNext \/ SetListsLoads
  BY <1>3 DEF EngineNext, PollNext, SetListsLoads, GateBoots, Revisit, LoadDone, Drained,
              PollStart, PollFetched, PollReloads, PollThrows, PollEnds
<1>4. CASE \E l \in Loop : RunLoop(l)
  BY <1>4 DEF RunLoop, LoopLists, LoopDone, LoopNext
<1>5. CASE \E c \in Customer : ScreenOneRuns(c)
  BY <1>5 DEF ScreenOneRuns
<1>6. CASE UNCHANGED vars
  BY <1>6 DEF vars
<1> QED BY <1>1, <1>2, <1>3, <1>4, <1>5, <1>6 DEF Next

(* So the types of the book are kept by every step of the services.        *)
LEMMA BookTyped == ASSUME Inv, [Next]_vars PROVE BookTypeOK'
BY StepsAreBookSteps, BookStepTyped DEF Inv, TypeOK

(* The records of the type invariant, by name.                             *)
ScreenRecord == [phase: {"idle", "boot", "queued", "doomed", "active", "stored"},
                 identity: Identity \cup {NoRow}, proof: Stamps]
LoopRecord == [stage: {"off", "list", "each"},
               todo: [Customer -> Identity \cup {NoRow}],
               awaiting: Customer \cup {NoOne}, target: Stamps, full: BOOLEAN]
EngineRecord == [phase: {"cold", "loading", "ready", "draining", "reloading",
                         "warm", "disposing"},
                 lists: SUBSET List, version: Stamps]
PollRecord == [phase: {"off", "asked", "answered", "syncing"}, seen: Stamps, answer: Stamps]

(* The types of what runs: screens, loops and edits that wait for a screen. *)
RunsTyped ==
    /\ screen \in [Kind -> [Customer -> ScreenRecord]]
    /\ loop \in [Loop -> LoopRecord]
    /\ asked \in [Customer -> Identity \cup {NoRow}]

(* The types of everything but the book and the runs.                      *)
RestTyped ==
    /\ lastSynced \in Stamps
    /\ selection \in SUBSET List
    /\ published \in [List -> 1..MaxPublish]
    /\ engine \in EngineRecord
    /\ gate \in BOOLEAN
    /\ poll \in PollRecord
    /\ serial \in {"free", "boot", "reload", "saved", "select"}
    /\ quiet \in BOOLEAN

(* The type invariant in three parts.                                      *)
LEMMA TypeParts == TypeOK <=> BookTypeOK /\ RunsTyped /\ RestTyped
BY DEF TypeOK, RunsTyped, RestTyped, ScreenRecord, LoopRecord, EngineRecord, PollRecord

(* The same of the next state.                                             *)
LEMMA TypePartsNext == TypeOK' <=> BookTypeOK' /\ RunsTyped' /\ RestTyped'
BY DEF TypeOK, RunsTyped, RestTyped, ScreenRecord, LoopRecord, EngineRecord, PollRecord

(* What is at rest has its type.                                           *)
LEMMA IdleTyped == Idle \in ScreenRecord /\ Off \in LoopRecord /\ NoPoll \in PollRecord
BY DEF Idle, ScreenRecord, Off, LoopRecord, NoPoll, PollRecord, Stamps

(* The invariant holds at the start.                                       *)
LEMMA InitInv == ASSUME Init PROVE Inv
<1> USE DEF Init
<1>1. BookTypeOK
  BY DEF BookInit, BookTypeOK, Row
<1>2. RestTyped
  <2>1. published \in [List -> 1..MaxPublish] /\ selection \in SUBSET List
    BY ScreeningAssumption
  <2> QED BY <2>1, IdleTyped DEF RestTyped, EngineRecord, Stamps
<1>3. RunsTyped
  BY IdleTyped DEF RunsTyped
<1>4. EngineInv
  BY DEF EngineInv, Idle
<1> QED BY <1>1, <1>2, <1>3, <1>4, TypeParts DEF Inv

(* One screen and the loops that await it.                                 *)
LEMMA SettleTyped ==
    ASSUME RunsTyped, EngineInv, UNCHANGED <<engine, asked>>,
           NEW k \in Kind, NEW c \in Customer, NEW ok \in BOOLEAN, Settle(k, c, ok)
    PROVE  RunsTyped' /\ EngineInv'
<1>1. screen' \in [Kind -> [Customer -> ScreenRecord]]
  BY IdleTyped DEF RunsTyped, Settle
<1>2. \A l \in Loop : [loop[l] EXCEPT !.awaiting = NoOne] \in LoopRecord
  BY DEF RunsTyped, LoopRecord
<1>3. loop' \in [Loop -> LoopRecord]
  BY <1>2, IdleTyped DEF RunsTyped, Settle, Resumed
<1>4. EngineInv'
  BY DEF EngineInv, Settle, Idle, RunsTyped
<1> QED BY <1>1, <1>3, <1>4 DEF RunsTyped

(* A screen that moves on.                                                 *)
LEMMA ScreenTyped ==
    ASSUME RunsTyped, EngineInv, NEW k \in Kind, NEW c \in Customer, NEW r \in ScreenRecord,
           UNCHANGED <<engine, asked, loop>>, screen' = [screen EXCEPT ![k][c] = r],
           r.phase \in {"queued", "doomed", "active", "stored", "boot"},
           r.identity \in Identity,
           r.phase = "queued" => engine.phase = "ready",
           r.phase = "active" => screen[k][c].phase \in {"queued", "active"}
    PROVE  RunsTyped' /\ EngineInv'
<1>1. RunsTyped'
  BY DEF RunsTyped
<1>2. \A k2 \in Kind, c2 \in Customer :
         screen'[k2][c2] = IF k2 = k /\ c2 = c THEN r ELSE screen[k2][c2]
  BY DEF RunsTyped
<1>3. EngineInv'
  BY <1>2 DEF EngineInv
<1> QED BY <1>1, <1>3

(* A step of one screen keeps it.                                          *)
LEMMA RunInv ==
    ASSUME Inv, NEW k \in Kind, NEW c \in Customer, RunNext(k, c), BookTypeOK'
    PROVE  Inv'
<1> USE TypeParts, TypePartsNext DEF Inv, worldVars, callVars, runVars
<1>0. screen[k][c] \in ScreenRecord
  BY DEF RunsTyped
<1>1. CASE AskEngine(k, c)
  <2>1. CASE Boots /\ UNCHANGED screen
    BY <1>1, <2>1, ScreeningAssumption
       DEF AskEngine, Boots, Stamps, RunsTyped, RestTyped, EngineRecord, EngineInv
  <2>2. ASSUME NEW r, r = [screen[k][c] EXCEPT !.phase =
                IF engine.phase = "ready" THEN "queued" ELSE "doomed"],
                screen' = [screen EXCEPT ![k][c] = r], UNCHANGED engine
        PROVE  Inv'
    <3>1. r \in ScreenRecord /\ r.identity = screen[k][c].identity
      BY <1>0, <2>2 DEF ScreenRecord
    <3>2. r.phase = IF engine.phase = "ready" THEN "queued" ELSE "doomed"
      BY <1>0, <2>2 DEF ScreenRecord
    <3>3. r.identity \in Identity
      BY <1>1, <3>1 DEF AskEngine, EngineInv
    <3>4. UNCHANGED <<engine, asked, loop>>
      BY <1>1, <2>2 DEF AskEngine
    <3>5. screen' = [screen EXCEPT ![k][c] = r]
      BY <2>2
    <3>6. RunsTyped' /\ EngineInv'
      BY <3>1, <3>2, <3>3, <3>4, <3>5, ScreenTyped
    <3> QED BY <1>1, <2>2, <3>6 DEF AskEngine, RestTyped
  <2> QED BY <1>1, <2>1, <2>2 DEF AskEngine
<1>2. CASE StartScreen(k, c)
  <2> DEFINE r == [screen[k][c] EXCEPT !.phase = "active"]
  <2>1. r \in ScreenRecord /\ r.identity = screen[k][c].identity /\ r.phase = "active"
    BY <1>0 DEF ScreenRecord
  <2>2. screen' = [screen EXCEPT ![k][c] = r]
    BY <1>2 DEF StartScreen
  <2>3. r.identity \in Identity
    BY <1>2, <2>1 DEF StartScreen, EngineInv
  <2>4. RunsTyped' /\ EngineInv'
    BY <1>2, <2>1, <2>2, <2>3, ScreenTyped DEF StartScreen
  <2> QED BY <1>2, <2>4 DEF StartScreen, RestTyped
<1>3. ASSUME NEW ok \in BOOLEAN, Settle(k, c, ok),
             UNCHANGED <<lastSynced, engine, asked, worldVars, callVars>>
      PROVE  Inv'
  BY <1>3, SettleTyped DEF RestTyped
<1>4. CASE FinishScreen(k, c)
  <2>1. CASE screen' = Stored(k, c) /\ UNCHANGED loop
    <3> DEFINE r == [phase |-> "stored", identity |-> screen[k][c].identity, proof |-> stamp]
    <3>1. r \in ScreenRecord /\ r.identity = screen[k][c].identity /\ r.phase = "stored"
      BY <1>0, StampTyped DEF ScreenRecord
    <3>2. screen' = [screen EXCEPT ![k][c] = r]
      BY <2>1 DEF Stored
    <3>3. r.identity \in Identity
      BY <1>4, <3>1 DEF FinishScreen, EngineInv
    <3>4. RunsTyped' /\ EngineInv'
      BY <1>4, <2>1, <3>1, <3>2, <3>3, ScreenTyped DEF FinishScreen
    <3> QED BY <1>4, <3>4 DEF FinishScreen, RestTyped
  <2>2. CASE Settle(k, c, TRUE) \/ Settle(k, c, FALSE)
    BY <1>3, <1>4, <2>2 DEF FinishScreen
  <2> QED BY <1>4, <2>1, <2>2 DEF FinishScreen
<1>5. CASE MarkScreened(k, c)
  BY <1>3, <1>5 DEF MarkScreened
<1>6. CASE ScreenThrows(k, c)
  BY <1>3, <1>6 DEF ScreenThrows
<1> QED BY <1>1, <1>2, <1>4, <1>5, <1>6 DEF RunNext

(* The loops a sync calls for have their type.                             *)
LEMMA SyncTyped == ASSUME RunsTyped, NEW v \in Stamps PROVE SyncCalled(v) \in [Loop -> LoopRecord]
<1>1. [Off EXCEPT !.stage = "list", !.target = v] \in LoopRecord
  BY IdleTyped DEF LoopRecord
<1> QED BY <1>1 DEF SyncCalled, RunsTyped, Loop

(* So have those a rescan calls for.                                       *)
LEMMA RescanTyped ==
    ASSUME RunsTyped, NEW l \in Loop PROVE RescanCalled(l) \in [Loop -> LoopRecord]
<1>1. [Off EXCEPT !.stage = "list"] \in LoopRecord
  BY IdleTyped DEF LoopRecord
<1> QED BY <1>1 DEF RescanCalled, RunsTyped, Loop

(* What is queued is doomed, and nothing else changes place.               *)
LEMMA ClosingTyped ==
    ASSUME RunsTyped, RestTyped, EngineInv, NEW p \in {"draining", "disposing"}, Closing(p),
           UNCHANGED <<loop, asked>>
    PROVE  /\ RunsTyped' /\ EngineInv' /\ engine' \in EngineRecord
           /\ engine'.phase = p /\ engine'.version = engine.version
           /\ engine'.lists = engine.lists
<1>1. /\ engine' \in EngineRecord /\ engine'.phase = p
      /\ engine'.version = engine.version /\ engine'.lists = engine.lists
  BY DEF Closing, RestTyped, EngineRecord
<1>2. \A k \in Kind, c \in Customer :
         /\ screen[k][c] \in ScreenRecord
         /\ [screen[k][c] EXCEPT !.phase = "doomed"] \in ScreenRecord
         /\ [screen[k][c] EXCEPT !.phase = "doomed"].phase = "doomed"
         /\ [screen[k][c] EXCEPT !.phase = "doomed"].identity = screen[k][c].identity
  BY DEF RunsTyped, ScreenRecord
<1>3. \A k \in Kind, c \in Customer :
         screen'[k][c] = IF screen[k][c].phase = "queued"
                           THEN [screen[k][c] EXCEPT !.phase = "doomed"] ELSE screen[k][c]
  BY DEF Closing
<1>4. screen' \in [Kind -> [Customer -> ScreenRecord]]
  <2>1. \A k \in Kind : screen'[k] \in [Customer -> ScreenRecord]
    BY <1>2 DEF Closing
  <2> QED BY <2>1 DEF Closing
<1>5. EngineInv'
  BY <1>1, <1>2, <1>3 DEF EngineInv, Closing
<1> QED BY <1>1, <1>4, <1>5 DEF RunsTyped

(* A run joined or started.                                                *)
LEMMA GuardedTyped ==
    ASSUME RunsTyped, EngineInv, UNCHANGED engine, NEW c \in Customer, NEW i \in Identity,
           screen' = Guarded(c, i)
    PROVE  screen' \in [Kind -> [Customer -> ScreenRecord]] /\ EngineInv'
<1> DEFINE r == [Idle EXCEPT !.phase = "boot", !.identity = i]
<1>1. r \in ScreenRecord /\ r.phase = "boot" /\ r.identity = i
  BY IdleTyped DEF ScreenRecord, Idle
<1>2. CASE screen["guarded"][c] # Idle
  BY <1>2 DEF Guarded, RunsTyped, EngineInv
<1>3. CASE screen["guarded"][c] = Idle
  <2>1. screen' = [screen EXCEPT !["guarded"][c] = r]
    BY <1>3 DEF Guarded
  <2> HIDE DEF r
  <2>2. screen' \in [Kind -> [Customer -> ScreenRecord]]
    BY <1>1, <2>1 DEF RunsTyped, Kind
  <2>3. \A k2 \in Kind, c2 \in Customer :
           screen'[k2][c2] = IF k2 = "guarded" /\ c2 = c THEN r ELSE screen[k2][c2]
    BY <2>1 DEF RunsTyped, Kind
  <2>4. EngineInv'
    BY <1>1, <2>3 DEF EngineInv
  <2> QED BY <2>2, <2>4
<1> QED BY <1>2, <1>3

(* A step of a loop keeps the invariant.                                   *)
LEMMA LoopInv ==
    ASSUME Inv, NEW l \in Loop, RunLoop(l), BookTypeOK'
    PROVE  Inv'
<1> USE TypeParts, TypePartsNext DEF Inv, worldVars, callVars
<1>0. loop[l] \in LoopRecord
  BY DEF RunsTyped
<1>1. CASE LoopLists(l)
  <2> DEFINE todo == [c \in Customer |->
                IF Known(c) /\ (l # "sync" \/ lastSynced # loop[l].target
                                 \/ book[c].proof # loop[l].target)
                  THEN book[c].identity ELSE NoRow]
             r == [loop[l] EXCEPT !.stage = "each", !.todo = todo,
                                  !.full = (l = "sync" /\ lastSynced # loop[l].target)]
  <2>1. todo \in [Customer -> Identity \cup {NoRow}]
    BY DEF Known, BookTypeOK, Row
  <2>2. r \in LoopRecord
    BY <1>0, <2>1 DEF LoopRecord
  <2>3. loop' = [loop EXCEPT ![l] = r]
    BY <1>1 DEF LoopLists, RunsTyped, LoopRecord
  <2>4. loop' \in [Loop -> LoopRecord]
    BY <2>2, <2>3 DEF RunsTyped
  <2> QED BY <1>1, <2>4 DEF LoopLists, RunsTyped, RestTyped, EngineInv
<1>2. CASE LoopDone(l)
  <2>1. loop' \in [Loop -> LoopRecord]
    BY <1>2, IdleTyped DEF LoopDone, RunsTyped
  <2>2. lastSynced' \in Stamps
    BY <1>0, <1>2 DEF LoopDone, RestTyped, LoopRecord
  <2> QED BY <1>2, <2>1, <2>2 DEF LoopDone, RunsTyped, RestTyped, EngineInv
<1>3. ASSUME NEW c \in Customer, LoopNext(l, c) PROVE Inv'
  <2>1. loop[l].todo[c] \in Identity
    BY <1>0, <1>3 DEF LoopNext, LoopRecord
  <2>2. screen' \in [Kind -> [Customer -> ScreenRecord]] /\ EngineInv'
    BY <1>3, <2>1, GuardedTyped DEF LoopNext
  <2> DEFINE r == [loop[l] EXCEPT !.todo[c] = NoRow, !.awaiting = c]
  <2>3. r \in LoopRecord
    BY <1>0 DEF LoopRecord
  <2>4. loop' = [loop EXCEPT ![l] = r]
    BY <1>3 DEF LoopNext, RunsTyped, LoopRecord
  <2>5. loop' \in [Loop -> LoopRecord]
    BY <2>3, <2>4 DEF RunsTyped
  <2> QED BY <1>3, <2>2, <2>5 DEF LoopNext, RunsTyped, RestTyped
<1> QED BY <1>1, <1>2, <1>3 DEF RunLoop

(* A step of the engine keeps it.                                          *)
LEMMA EngineStepInv ==
    ASSUME Inv, EngineNext, BookTypeOK'
    PROVE  Inv'
<1> USE TypeParts, TypePartsNext DEF Inv, worldVars, callVars
<1>1. CASE GateBoots
  <2>1. CASE BootsOrJoins /\ serial' = "boot" /\ UNCHANGED loop
    <3>1. engine' \in EngineRecord
      BY <2>1 DEF BootsOrJoins, Boots, EngineRecord, RestTyped, Stamps
    <3>2. EngineInv'
      BY <1>1, <2>1 DEF GateBoots, BootsOrJoins, Boots, EngineInv
    <3> QED BY <1>1, <2>1, <3>1, <3>2 DEF GateBoots, RunsTyped, RestTyped
  <2>2. CASE loop' = SyncCalled(stamp) /\ UNCHANGED <<engine, serial>>
    <3>1. loop' \in [Loop -> LoopRecord]
      BY <2>2, SyncTyped, StampTyped
    <3> QED BY <1>1, <2>2, <3>1 DEF GateBoots, RunsTyped, RestTyped, EngineInv
  <2> QED BY <1>1, <2>1, <2>2 DEF GateBoots
<1>2. CASE Revisit
  BY <1>2 DEF Revisit, RunsTyped, RestTyped, EngineInv, runVars
<1>3. CASE LoadDone
  <2> DEFINE v == StampOf(engine.lists)
  <2>0. v \in Stamps /\ v # NoVersion /\ engine \in EngineRecord
    BY StampsAreVersions DEF RestTyped, EngineRecord, Stamps
  <2>1. engine' \in EngineRecord /\ engine'.phase = "ready" /\ engine'.version = v
    BY <1>3, <2>0 DEF LoadDone, EngineRecord
  <2>2. poll.answer \in Stamps
    BY DEF RestTyped, PollRecord
  <2>3. loop' \in [Loop -> LoopRecord]
    <3>1. loop' \in {SyncCalled(v), SyncCalled(poll.answer), RescanCalled("lists"), loop}
      BY <1>3 DEF LoadDone
    <3> QED BY <2>0, <2>2, <3>1, SyncTyped, RescanTyped DEF RunsTyped, Loop
  <2>4. poll' \in PollRecord
    BY <1>3, IdleTyped DEF LoadDone, Syncing, PollRecord, RestTyped
  <2>5. EngineInv'
    BY <1>3, <2>0, <2>1 DEF LoadDone, EngineInv
  <2> QED BY <1>3, <2>1, <2>3, <2>4, <2>5 DEF LoadDone, RunsTyped, RestTyped
<1>4. CASE Drained
  <2>1. engine' \in EngineRecord /\ engine'.phase \in {"reloading", "cold"}
    BY <1>4 DEF Drained, EngineRecord, RestTyped, Stamps
  <2>2. EngineInv'
    BY <1>4, <2>1 DEF Drained, EngineInv, Active, runVars
  <2> QED BY <1>4, <2>1, <2>2 DEF Drained, RunsTyped, RestTyped, runVars
<1> QED BY <1>1, <1>2, <1>3, <1>4 DEF EngineNext

(* A step of the poll keeps it.                                            *)
LEMMA PollInv ==
    ASSUME Inv, PollNext, BookTypeOK'
    PROVE  Inv'
<1> USE TypeParts, TypePartsNext DEF Inv, worldVars, callVars, runVars
<1>1. CASE PollStart
  <2>1. poll' \in PollRecord
    BY <1>1, IdleTyped, StampTyped DEF PollStart, PollRecord
  <2> QED BY <1>1, <2>1 DEF PollStart, RunsTyped, RestTyped, EngineInv
<1>2. CASE PollFetched
  <2>1. StampOf(List) \in Stamps
    BY StampsAreVersions DEF Stamps
  <2>2. poll' \in PollRecord
    BY <1>2, <2>1, IdleTyped DEF PollFetched, PollRecord, Syncing, RestTyped
  <2>3. loop' \in [Loop -> LoopRecord]
    BY <1>2, <2>1, SyncTyped DEF PollFetched, RunsTyped
  <2> QED BY <1>2, <2>2, <2>3 DEF PollFetched, RunsTyped, RestTyped, EngineInv
<1>3. CASE PollEnds \/ PollThrows
  BY <1>3, IdleTyped DEF PollEnds, PollThrows, RunsTyped, RestTyped, EngineInv
<1>4. CASE PollReloads
  <2>1. RunsTyped' /\ EngineInv' /\ engine' \in EngineRecord
    BY <1>4, ClosingTyped DEF PollReloads
  <2> QED BY <1>4, <2>1 DEF PollReloads, RestTyped
<1> QED BY <1>1, <1>2, <1>3, <1>4 DEF PollNext

(* The load of another selection keeps it.                                 *)
LEMMA SetListsLoadsInv ==
    ASSUME Inv, SetListsLoads, BookTypeOK'
    PROVE  Inv'
<1> USE TypeParts, TypePartsNext DEF Inv, worldVars, callVars
<1>1. CASE Closing("draining") /\ serial' = "select"
  <2>1. RunsTyped' /\ EngineInv' /\ engine' \in EngineRecord
    BY <1>1, ClosingTyped DEF SetListsLoads
  <2> QED BY <1>1, <2>1 DEF SetListsLoads, RestTyped
<1>2. CASE UNCHANGED screen /\ serial' \in {"select", "free"} /\ (BootsOrJoins \/ UNCHANGED engine)
  <2>1. engine' \in EngineRecord
    BY <1>2 DEF BootsOrJoins, Boots, EngineRecord, RestTyped, Stamps
  <2>2. EngineInv'
    BY <1>2 DEF BootsOrJoins, Boots, EngineInv
  <2> QED BY <1>2, <2>1, <2>2 DEF SetListsLoads, RunsTyped, RestTyped
<1> QED BY <1>1, <1>2 DEF SetListsLoads

(* The screen of one customer on request keeps it.                         *)
LEMMA ScreenOneRunsInv ==
    ASSUME Inv, NEW c \in Customer, ScreenOneRuns(c), BookTypeOK'
    PROVE  Inv'
<1> USE TypeParts, TypePartsNext DEF Inv, worldVars, callVars
<1>1. asked[c] \in Identity
  BY DEF ScreenOneRuns, RunsTyped
<1>2. screen' \in [Kind -> [Customer -> ScreenRecord]] /\ EngineInv'
  BY <1>1, GuardedTyped DEF ScreenOneRuns
<1>3. asked' \in [Customer -> Identity \cup {NoRow}]
  BY DEF ScreenOneRuns, RunsTyped
<1> QED BY <1>2, <1>3 DEF ScreenOneRuns, RunsTyped, RestTyped

(* A step of the user, the publisher or the browser keeps it.              *)
LEMMA EnvironmentInv ==
    ASSUME Inv, Environment, BookTypeOK'
    PROVE  Inv'
<1> USE TypeParts, TypePartsNext DEF Inv, worldVars, callVars, runVars
<1>1. CASE Leave \/ Quieten
  BY <1>1 DEF Leave, Quieten, RunsTyped, RestTyped, EngineInv
<1>2. CASE Dispose
  <2>1. RunsTyped' /\ EngineInv' /\ engine' \in EngineRecord
    BY <1>2, ClosingTyped DEF Dispose
  <2> QED BY <1>2, <2>1 DEF Dispose, RestTyped
<1>3. CASE LoadFails
  <2>1. engine' \in EngineRecord /\ engine'.phase \in {"cold", "warm"}
    BY <1>3 DEF LoadFails, EngineRecord, Stamps
  <2>2. PICK failed \in [Kind -> SUBSET Customer] :
          /\ screen' = [k \in Kind |-> [c \in Customer |->
                IF c \in failed[k] THEN Idle ELSE screen[k][c]]]
          /\ loop' = [l \in Loop |->
                IF loop[l].awaiting \in failed["guarded"] THEN Off ELSE loop[l]]
    BY <1>3 DEF LoadFails
  <2>3. screen' \in [Kind -> [Customer -> ScreenRecord]] /\ loop' \in [Loop -> LoopRecord]
    BY <2>2, IdleTyped DEF RunsTyped
  <2>4. EngineInv'
    BY <1>3, <2>1, <2>2 DEF LoadFails, EngineInv, Idle
  <2>5. gate' \in BOOLEAN /\ poll' \in PollRecord
    BY <1>3, IdleTyped DEF LoadFails, RestTyped
  <2> QED BY <1>3, <2>1, <2>3, <2>4, <2>5 DEF LoadFails, RunsTyped, RestTyped
<1>4. CASE TabCloses
  <2>1. engine' \in EngineRecord
    BY <1>4 DEF TabCloses, EngineRecord, Stamps
  <2>2. EngineInv'
    BY <1>4 DEF TabCloses, EngineInv, Idle
  <2> QED BY <1>4, <2>1, <2>2, IdleTyped DEF TabCloses, RunsTyped, RestTyped
<1>5. ASSUME NEW l \in List, Publish(l) PROVE Inv'
  <2>1. published' \in [List -> 1..MaxPublish]
    BY <1>5, ScreeningAssumption DEF Publish, RestTyped
  <2> QED BY <1>5, <2>1 DEF Publish, RunsTyped, RestTyped, EngineInv
<1>6. ASSUME NEW S \in Selections, SetLists(S) PROVE Inv'
  <2>1. S \in SUBSET List
    BY ScreeningAssumption
  <2> QED BY <1>6, <2>1 DEF SetLists, RunsTyped, RestTyped, EngineInv
<1>7. CASE \E batch \in Batches : Import(batch)
  <2>1. loop' \in [Loop -> LoopRecord]
    BY <1>7, RescanTyped DEF Import, Loop
  <2> QED BY <1>7, <2>1 DEF Import, RunsTyped, RestTyped, EngineInv
<1>8. ASSUME NEW c \in Customer, ScreenOne(c) PROVE Inv'
  <2>1. book[c].identity \in Identity
    BY <1>8 DEF ScreenOne, BookTypeOK, Row, Known
  <2> QED BY <1>8, <2>1 DEF ScreenOne, RunsTyped, RestTyped, EngineInv
<1>9. CASE (\E c \in Customer : Delete(c)) \/ (\E c \in Customer, i \in Identity : Edit(c, i))
  BY <1>9 DEF Delete, Edit, RunsTyped, RestTyped, EngineInv
<1>10. ASSUME NEW c \in Customer, NEW i \in Identity, Onboard(c, i) PROVE Inv'
  <2> DEFINE r == [Idle EXCEPT !.phase = "boot", !.identity = i]
  <2>1. r \in ScreenRecord /\ r.phase = "boot" /\ r.identity = i
    BY IdleTyped DEF ScreenRecord, Idle
  <2>2. screen' = [screen EXCEPT !["onboard"][c] = r] /\ "onboard" \in Kind
    BY <1>10 DEF Onboard, Kind
  <2> HIDE DEF r
  <2>3. RunsTyped' /\ EngineInv'
    BY <1>10, <2>1, <2>2, ScreenTyped DEF Onboard
  <2> QED BY <1>10, <2>3 DEF Onboard, RestTyped
<1> QED BY <1>1, <1>2, <1>3, <1>4, <1>5, <1>6, <1>7, <1>8, <1>9, <1>10 DEF Environment

(* Every step keeps it.                                                    *)
LEMMA InvStep == ASSUME Inv, [Next]_vars PROVE Inv'
<1>1. BookTypeOK'
  BY BookTyped
<1>2. CASE UNCHANGED vars
  BY <1>1, <1>2, TypeParts, TypePartsNext
     DEF vars, runVars, worldVars, callVars, Inv, RunsTyped, RestTyped, EngineInv
<1> QED BY <1>1, <1>2, EnvironmentInv, EngineStepInv, PollInv, SetListsLoadsInv, RunInv,
           LoopInv, ScreenOneRunsInv DEF Next

(* Every variable of the services has its type, and a screen that runs has an *)
(* engine with lists and an identity to screen (EngineInv).                *)
THEOREM ScreeningTypeCorrect == Spec => [](TypeOK /\ EngineInv)
<1>1. Init => Inv
  BY InitInv
<1>2. Inv /\ [Next]_vars => Inv'
  BY InvStep
<1>3. Spec => []Inv
  BY <1>1, <1>2, PTL DEF Spec
<1> QED BY <1>3, PTL DEF Inv

(* The services implement the hit book: onboarding, edits, deletions, rescans *)
(* and single screens touch the tables of customers and matches only through *)
(* its operations.                                                         *)
THEOREM ServicesUseTheBook == Spec => BookSpec
<1>1. Init => BookInit
  BY DEF Init
<1>2. Inv /\ [Next]_vars => [BookNext]_bookVars
  BY StepsAreBookSteps
<1>3. Spec => []Inv
  BY ScreeningTypeCorrect, PTL DEF Inv
<1> QED BY <1>1, <1>2, <1>3, PTL DEF Spec, BookSpec

(* The types of the hit book, whoever uses it.                             *)
LEMMA BookTypeCorrect == BookSpec => []BookTypeOK
<1>1. BookInit => BookTypeOK
  BY DEF BookInit, BookTypeOK, Row
<1>2. BookTypeOK /\ [BookNext]_bookVars => BookTypeOK'
  BY BookStepTyped
<1> QED BY <1>1, <1>2, PTL DEF BookSpec

(* Whoever uses the hit book, no hit is of a customer that is not there: the *)
(* operations that record hits ask for the customer, and the one that erases *)
(* it takes its hits along.                                                *)
THEOREM BookHasNoOrphans == BookSpec => []NoOrphanHits
<1>1. BookInit => NoOrphanHits
  BY DEF BookInit, NoOrphanHits
<1>2. BookTypeOK /\ NoOrphanHits /\ [BookNext]_bookVars => NoOrphanHits'
  <2> SUFFICES ASSUME BookTypeOK, NoOrphanHits, [BookNext]_bookVars PROVE NoOrphanHits'
    OBVIOUS
  <2> USE ScreeningAssumption DEF BookTypeOK, NoOrphanHits, Known, Row
  <2>1. CASE \E batch \in Batches : Enrol(batch)
    BY <2>1 DEF Enrol
  <2>2. ASSUME NEW c \in Customer, NEW i \in Identity, Amend(c, i) PROVE NoOrphanHits'
    BY <2>2 DEF Amend, Unproven
  <2>3. ASSUME NEW c \in Customer, NEW v \in Version, Prove(c, v) PROVE NoOrphanHits'
    BY <2>3 DEF Prove
  <2>4. ASSUME NEW c \in Customer, NEW es \in SUBSET Entity, Record(c, es) \/ Replace(c, es)
        PROVE  NoOrphanHits'
    BY <2>4 DEF Record, Replace
  <2>5. ASSUME NEW c \in Customer, Erase(c) PROVE NoOrphanHits'
    BY <2>5 DEF Erase
  <2>6. CASE UNCHANGED bookVars
    BY <2>6 DEF bookVars
  <2> QED BY <2>1, <2>2, <2>3, <2>4, <2>5, <2>6 DEF BookNext
<1> QED BY <1>1, <1>2, BookTypeCorrect, PTL DEF BookSpec

(* No interleaving of the services leaves a hit of a customer that is not  *)
(* there: a screen that ends after its customer was deleted writes nothing. *)
THEOREM NoOrphans == Spec => []NoOrphanHits
BY ServicesUseTheBook, BookHasNoOrphans, PTL

-----------------------------------------------------------------------------
(* Nobody edits a customer in the middle of a screen ("edit at rest" may   *)
(* happen), and nobody selects other lists. Both break what                *)
(* follows, by counterexamples of the runs: an edit during a screen, and a *)
(* selection that is given up before its lists are screened.               *)
Undisturbed == "edit" \notin Events /\ "select" \notin Events

(* Whoever is concerned with a customer that is there has its identity. *)
SameIdentity ==
    \A c \in Customer : Known(c) =>
        /\ \A k \in Kind : screen[k][c].phase # "idle" =>
                              screen[k][c].identity = book[c].identity
        /\ asked[c] # NoRow => asked[c] = book[c].identity
        /\ \A l \in Loop : loop[l].todo[c] # NoRow => loop[l].todo[c] = book[c].identity

(* Only the enabled lists are loaded, and a stamp is there only of them. *)
LoadsSelection ==
    /\ serial # "saved"
    /\ engine.phase \in {"loading", "reloading"} => engine.lists = selection
    /\ engine.phase \in {"cold", "loading", "reloading", "warm"} => engine.version = NoVersion

(* p is a stamp of the enabled lists that is not younger than what is      *)
(* published, nor than what is loaded.                                     *)
Past(p) ==
    p # NoVersion =>
        /\ p \in [selection -> 1..MaxPublish]
        /\ \A l \in selection :
              /\ p[l] <= published[l]
              /\ engine.version # NoVersion => p[l] <= engine.version[l]

StampsArePast ==
    /\ Past(engine.version)
    /\ \A c \in Customer : Known(c) => Past(book[c].proof)
    /\ \A k \in Kind, c \in Customer : Past(screen[k][c].proof)

(* p is the stamp there is, or the one the next load will give.            *)
Current(p) == p # NoVersion /\ (p = engine.version \/ p = StampOf(selection))

(* If p counts, every match of it is among the hits of c.                  *)
Explained(c, p) == Current(p) => MatchesIn(book[c].identity, p) \subseteq hits[c]

(* A proof that is written, and one that is on its way, is explained.      *)
ProofsExplained ==
    \A c \in Customer : Known(c) =>
        /\ Explained(c, book[c].proof)
        /\ \A k \in Kind : screen[k][c].phase = "stored" => Explained(c, screen[k][c].proof)

(* The inductive invariant of ClearMeansClear.                             *)
ClearInv == SameIdentity /\ LoadsSelection /\ StampsArePast /\ ProofsExplained

(* It holds at the start.                                                  *)
LEMMA ClearInit == ASSUME Init PROVE ClearInv
<1>1. \A c \in Customer : Known(c) => book[c].proof = NoVersion
  BY DEF Init, BookInit, Known
<1> QED BY <1>1 DEF Init, ClearInv, SameIdentity, LoadsSelection, StampsArePast,
                   ProofsExplained, Past, Explained, Current, Idle, Off

-----------------------------------------------------------------------------
(* A step that changes the identity of nobody somebody is concerned with.  *)
LEMMA IdentityKept ==
    ASSUME SameIdentity,
           \A c \in Customer : Known(c)' =>
              \/ /\ Known(c) /\ book'[c].identity = book[c].identity
                 /\ \A k \in Kind : screen'[k][c].phase # "idle" =>
                       \/ /\ screen[k][c].phase # "idle"
                          /\ screen'[k][c].identity = screen[k][c].identity
                       \/ screen'[k][c].identity = book[c].identity
                 /\ asked'[c] \in {asked[c], NoRow, book[c].identity}
                 /\ \A l \in Loop : loop'[l].todo[c] \in {loop[l].todo[c], NoRow, book[c].identity}
              \/ /\ \A k \in Kind : screen'[k][c].phase # "idle" =>
                       screen'[k][c].identity = book'[c].identity
                 /\ asked'[c] = NoRow
                 /\ \A l \in Loop : loop'[l].todo[c] = NoRow
    PROVE  SameIdentity'
BY DEF SameIdentity

(* A step that explains no less, and asks for no other explanation.        *)
LEMMA ProofsKept ==
    ASSUME StampsArePast, ProofsExplained,
           Past(engine.version)',
           \A p : Past(p) => Past(p)',
           \A p : Past(p) /\ Current(p)' => Current(p),
           \A k \in Kind, c \in Customer :
              \/ screen'[k][c].proof = NoVersion
              \/ /\ screen'[k][c].proof = screen[k][c].proof
                 /\ screen'[k][c].phase = "stored" => screen[k][c].phase = "stored",
           \A c \in Customer : Known(c)' =>
              \/ Known(c) /\ book'[c] = book[c] /\ hits'[c] = hits[c]
              \/ book'[c].proof = NoVersion /\ \A k \in Kind : screen'[k][c].phase # "stored"
    PROVE  StampsArePast' /\ ProofsExplained'
<1>1. Past(NoVersion)' /\ ~Current(NoVersion)'
  BY DEF Past, Current
<1>2. StampsArePast'
  BY <1>1 DEF StampsArePast
<1>3. ASSUME NEW c \in Customer, Known(c)', Known(c), book'[c] = book[c], hits'[c] = hits[c],
             NEW p, Past(p), Explained(c, p)
      PROVE  Explained(c, p)'
  BY <1>3 DEF Explained
<1>4. ProofsExplained'
  <2> SUFFICES ASSUME NEW c \in Customer, Known(c)'
               PROVE  /\ Explained(c, book[c].proof)'
                      /\ \A k \in Kind : screen'[k][c].phase = "stored" =>
                                           Explained(c, screen[k][c].proof)'
    BY DEF ProofsExplained
  <2>1. CASE Known(c) /\ book'[c] = book[c] /\ hits'[c] = hits[c]
    <3>1. Explained(c, book[c].proof)'
      BY <1>3, <2>1 DEF ProofsExplained, StampsArePast, Explained
    <3>2. ASSUME NEW k \in Kind, screen'[k][c].phase = "stored"
          PROVE  Explained(c, screen[k][c].proof)'
      BY <1>1, <1>3, <2>1, <3>2 DEF ProofsExplained, StampsArePast, Explained
    <3> QED BY <3>1, <3>2
  <2>2. CASE book'[c].proof = NoVersion /\ \A k \in Kind : screen'[k][c].phase # "stored"
    BY <1>1, <2>2 DEF Explained
  <2> QED BY <2>1, <2>2
<1> QED BY <1>2, <1>4

(* As long as nothing is published or loaded, the present stamps are the   *)
(* same or fewer.                                                          *)
LEMMA StampsKept ==
    ASSUME StampsArePast, UNCHANGED <<selection, published>>,
           engine'.version \in {engine.version, NoVersion}
    PROVE  /\ Past(engine.version)'
           /\ \A p : Past(p) => Past(p)'
           /\ \A p : Past(p) /\ Current(p)' => Current(p)
<1>1. StampOf(selection)' = StampOf(selection)
  BY DEF StampOf
<1>2. \A p : Past(p) => Past(p)'
  BY DEF Past
<1>3. Past(engine.version)'
  BY <1>2 DEF StampsArePast, Past
<1> QED BY <1>1, <1>2, <1>3 DEF Current

(* Once loaded, the present stamp is the loaded one.                       *)
LEMMA PresentIsLoaded ==
    ASSUME Inv, Past(engine.version), engine.version # NoVersion, NEW p, Past(p), Current(p)
    PROVE  p = engine.version
<1>1. CASE p = StampOf(selection)
  <2>1. \A l \in selection : p[l] = published[l] /\ published[l] \in Nat
    BY <1>1, ScreeningAssumption DEF StampOf, Inv, TypeOK
  <2>2. \A l \in selection : engine.version[l] = p[l]
    BY <2>1, ScreeningAssumption DEF Past, Current
  <2> QED BY <1>1, <2>2 DEF Past, Current
<1> QED BY <1>1 DEF Current

-----------------------------------------------------------------------------
(* Loops that are called for wait for nobody yet.                          *)
LEMMA CallsAskNobody ==
    ASSUME RunsTyped, NEW v \in Stamps, NEW m \in Loop
    PROVE  \A l \in Loop, c \in Customer :
              /\ SyncCalled(v)[l].todo[c] \in {loop[l].todo[c], NoRow}
              /\ RescanCalled(m)[l].todo[c] \in {loop[l].todo[c], NoRow}
BY DEF SyncCalled, RescanCalled, RunsTyped, Off, Loop, LoopRecord

(* A screen that ends without a word of proof keeps the invariant.         *)
LEMMA SettleClear ==
    ASSUME Inv, SameIdentity, NEW k \in Kind, NEW c \in Customer, NEW ok \in BOOLEAN,
           Settle(k, c, ok), UNCHANGED asked,
           \A d \in Customer : Known(d)' => Known(d) /\ book'[d].identity = book[d].identity
    PROVE  /\ SameIdentity'
           /\ \A k2 \in Kind, c2 \in Customer :
                 screen'[k2][c2] = IF k2 = k /\ c2 = c THEN Idle ELSE screen[k2][c2]
<1>1. \A k2 \in Kind, c2 \in Customer :
         screen'[k2][c2] = IF k2 = k /\ c2 = c THEN Idle ELSE screen[k2][c2]
  BY DEF Settle, Inv, TypeOK
<1>2. \A l \in Loop, d \in Customer : loop'[l].todo[d] \in {loop[l].todo[d], NoRow}
  BY TypeParts DEF Settle, Resumed, Off, Inv, RunsTyped, LoopRecord
<1> QED BY <1>1, <1>2, IdentityKept DEF Idle

(* A step of one screen keeps it.                                          *)
LEMMA RunClear ==
    ASSUME Inv, ClearInv, NEW k \in Kind, NEW c \in Customer, RunNext(k, c)
    PROVE  ClearInv'
<1> USE TypeParts DEF Inv, ClearInv, worldVars, callVars, runVars
<1>0. screen[k][c] \in ScreenRecord
  BY DEF RunsTyped
<1>1. CASE AskEngine(k, c) \/ StartScreen(k, c)
  <2>1. engine'.version \in {engine.version, NoVersion} /\ LoadsSelection'
    BY <1>1 DEF AskEngine, StartScreen, Boots, LoadsSelection
  <2>2. \A k2 \in Kind, c2 \in Customer :
           \/ screen'[k2][c2] = screen[k2][c2]
           \/ /\ screen[k2][c2].phase # "idle"
              /\ screen'[k2][c2].identity = screen[k2][c2].identity
              /\ screen'[k2][c2].proof = screen[k2][c2].proof
              /\ screen'[k2][c2].phase \in {"queued", "doomed", "active"}
    <3> SUFFICES ASSUME screen' # screen
                 PROVE  \A k2 \in Kind, c2 \in Customer :
                          \/ screen'[k2][c2] = screen[k2][c2]
                          \/ /\ screen[k2][c2].phase # "idle"
                             /\ screen'[k2][c2].identity = screen[k2][c2].identity
                             /\ screen'[k2][c2].proof = screen[k2][c2].proof
                             /\ screen'[k2][c2].phase \in {"queued", "doomed", "active"}
      OBVIOUS
    <3>1. PICK phase \in {"queued", "doomed", "active"} :
             screen' = [screen EXCEPT ![k][c].phase = phase] /\ screen[k][c].phase # "idle"
      BY <1>1 DEF AskEngine, StartScreen
    <3> DEFINE r == [screen[k][c] EXCEPT !.phase = phase]
    <3>2. /\ r.phase = phase /\ r.identity = screen[k][c].identity
          /\ r.proof = screen[k][c].proof
      BY <1>0 DEF ScreenRecord
    <3>3. screen' = [screen EXCEPT ![k][c] = r]
      BY <3>1
    <3> HIDE DEF r
    <3> QED BY <3>1, <3>2, <3>3 DEF RunsTyped
  <2>3. UNCHANGED <<bookVars, loop, asked, selection, published>>
    BY <1>1 DEF AskEngine, StartScreen
  <2>4. SameIdentity'
    BY <2>2, <2>3, IdentityKept DEF bookVars, Known
  <2>5. StampsArePast' /\ ProofsExplained'
    BY <2>1, <2>2, <2>3, StampsKept, ProofsKept DEF bookVars, Known
  <2> QED BY <2>1, <2>4, <2>5
<1>2. ASSUME NEW ok \in BOOLEAN, Settle(k, c, ok), UNCHANGED bookVars,
             UNCHANGED <<lastSynced, engine, asked, worldVars, callVars>>
      PROVE  ClearInv'
  <2>1. /\ SameIdentity'
        /\ \A k2 \in Kind, c2 \in Customer :
              screen'[k2][c2] = IF k2 = k /\ c2 = c THEN Idle ELSE screen[k2][c2]
    BY <1>2, SettleClear DEF bookVars, Known
  <2>2. StampsArePast' /\ ProofsExplained'
    BY <1>2, <2>1, StampsKept, ProofsKept DEF bookVars, Known, Idle
  <2> QED BY <1>2, <2>1, <2>2 DEF LoadsSelection
<1>3. ASSUME NEW ok \in BOOLEAN, Settle(k, c, ok), NEW p, Prove(c, p), p # NoVersion,
             Past(p), Explained(c, p),
             UNCHANGED <<lastSynced, engine, asked, worldVars, callVars>>
      PROVE  ClearInv'
  <2>0. /\ Known(c) /\ UNCHANGED hits
        /\ \A d \in Customer : /\ Known(d)' => Known(d)
                               /\ Known(d) => /\ book'[d].identity = book[d].identity
                                              /\ book'[d].proof = IF d = c THEN p ELSE book[d].proof
    BY <1>3 DEF Prove, Known, TypeOK, BookTypeOK, Row
  <2>1. /\ SameIdentity'
        /\ \A k2 \in Kind, c2 \in Customer :
              screen'[k2][c2] = IF k2 = k /\ c2 = c THEN Idle ELSE screen[k2][c2]
    BY <1>3, <2>0, SettleClear
  <2>2. StampOf(selection)' = StampOf(selection)
    BY <1>3 DEF StampOf
  <2>3. StampsArePast'
    BY <1>3, <2>0, <2>1 DEF StampsArePast, Past, Idle
  <2>4. ProofsExplained'
    BY <1>3, <2>0, <2>1, <2>2 DEF ProofsExplained, Explained, Current, Idle
  <2> QED BY <1>3, <2>1, <2>3, <2>4 DEF LoadsSelection
<1>4. CASE FinishScreen(k, c)
  <2> DEFINE v == engine.version
             es == MatchesIn(screen[k][c].identity, v)
  <2>1. /\ v # NoVersion /\ Past(v) /\ stamp \in {v, NoVersion}
        /\ UNCHANGED <<lastSynced, engine, asked, worldVars, callVars>>
    BY <1>4 DEF FinishScreen, EngineInv, StampsArePast, stamp
  <2>2. Known(c) => screen[k][c].identity = book[c].identity
    BY <1>4 DEF FinishScreen, SameIdentity
  <2>3. CASE screen' = Stored(k, c) /\ UNCHANGED loop /\ (Replace(c, es) \/ Record(c, es))
    <3>1. /\ Known(c) /\ UNCHANGED book /\ es \subseteq hits'[c]
          /\ \A d \in Customer : d # c => hits'[d] = hits[d]
          /\ hits'[c] = es \/ hits[c] \subseteq hits'[c]
      BY <2>3 DEF Replace, Record, BookTypeOK
    <3>2. \A k2 \in Kind, c2 \in Customer :
             screen'[k2][c2] = IF k2 = k /\ c2 = c
                THEN [phase |-> "stored", identity |-> screen[k][c].identity, proof |-> stamp]
                ELSE screen[k2][c2]
      BY <2>3 DEF Stored, RunsTyped
    <3>3. SameIdentity'
      BY <1>4, <2>1, <2>3, <3>1, <3>2, IdentityKept DEF FinishScreen, Known
    <3>4. StampOf(selection)' = StampOf(selection)
      BY <2>1 DEF StampOf
    <3>5. \A p : (Past(p)' <=> Past(p)) /\ (Current(p)' <=> Current(p))
      BY <2>1, <3>4 DEF Past, Current
    <3>6. StampsArePast'
      BY <2>1, <3>1, <3>2, <3>5 DEF StampsArePast, Known, Past
    <3>7. \A p : Past(p) => Explained(c, p)' \/ hits[c] \subseteq hits'[c]
      BY <2>1, <2>2, <3>1, <3>5, PresentIsLoaded DEF Explained
    <3>8. ASSUME NEW d \in Customer, Known(d)', NEW p, Past(p), Explained(d, p)
          PROVE  Explained(d, p)'
      BY <3>1, <3>5, <3>7, <3>8 DEF Explained
    <3>9. \A p : p = stamp => Explained(c, p)'
      BY <2>1, <2>2, <3>1, <3>5 DEF Explained, Current
    <3>10. ASSUME NEW d \in Customer, Known(d)'
           PROVE  /\ Explained(d, book[d].proof)'
                  /\ \A k2 \in Kind : screen'[k2][d].phase = "stored" =>
                                        Explained(d, screen[k2][d].proof)'
      <4>1. /\ Known(d) /\ Past(book[d].proof) /\ Explained(d, book[d].proof)
            /\ book' = book
        BY <3>1, <3>10 DEF Known, StampsArePast, ProofsExplained
      <4>2. Explained(d, book[d].proof)'
        <5>1. PICK p : p = book[d].proof
          OBVIOUS
        <5>2. Explained(d, p)'
          BY <3>8, <3>10, <4>1, <5>1
        <5> QED BY <4>1, <5>1, <5>2 DEF Explained
      <4>3. ASSUME NEW k2 \in Kind, screen'[k2][d].phase = "stored"
            PROVE  Explained(d, screen[k2][d].proof)'
        <5>1. PICK p : p = screen'[k2][d].proof
          OBVIOUS
        <5>2. CASE k2 = k /\ d = c
          <6>1. p = stamp
            BY <3>2, <5>1, <5>2
          <6> QED BY <3>9, <5>1, <5>2, <6>1 DEF Explained
        <5>3. CASE ~(k2 = k /\ d = c)
          <6>1. screen'[k2][d] = screen[k2][d]
            BY <3>2, <5>3
          <6>2. Explained(d, p)'
            BY <3>8, <3>10, <4>1, <4>3, <5>1, <6>1 DEF StampsArePast, ProofsExplained
          <6> QED BY <5>1, <6>2 DEF Explained
        <5> QED BY <5>2, <5>3
      <4> QED BY <4>2, <4>3
    <3>11. ProofsExplained'
      BY <3>10 DEF ProofsExplained
    <3> QED BY <2>1, <3>3, <3>6, <3>11 DEF LoadsSelection
  <2>4. CASE Settle(k, c, TRUE) /\ es = {} /\ stamp # NoVersion /\ Prove(c, stamp)
    <3>1. Known(c)
      BY <2>4 DEF Prove
    <3>2. Explained(c, stamp)
      BY <2>1, <2>2, <2>4, <3>1 DEF Explained
    <3> QED BY <1>3, <2>1, <2>4, <3>2
  <2>5. CASE (Settle(k, c, TRUE) \/ Settle(k, c, FALSE)) /\ UNCHANGED bookVars
    BY <1>2, <2>1, <2>5
  <2> QED BY <1>4, <2>3, <2>4, <2>5 DEF FinishScreen
<1>5. CASE MarkScreened(k, c)
  <2>1. CASE UNCHANGED bookVars
    BY <1>2, <1>5, <2>1 DEF MarkScreened
  <2>2. CASE screen[k][c].proof # NoVersion /\ Prove(c, screen[k][c].proof) /\ Settle(k, c, TRUE)
    <3>1. Known(c)
      BY <2>2 DEF Prove
    <3>2. Past(screen[k][c].proof) /\ Explained(c, screen[k][c].proof)
      BY <1>5, <3>1 DEF MarkScreened, StampsArePast, ProofsExplained
    <3> QED BY <1>3, <1>5, <2>2, <3>2 DEF MarkScreened
  <2> QED BY <1>5, <2>1, <2>2 DEF MarkScreened
<1>6. CASE ScreenThrows(k, c)
  BY <1>2, <1>6 DEF ScreenThrows
<1> QED BY <1>1, <1>4, <1>5, <1>6 DEF RunNext

(* A run that is joined or started has the identity its caller has read.   *)
LEMMA GuardedClear ==
    ASSUME Inv, SameIdentity, NEW c \in Customer, NEW i \in Identity,
           Known(c) => i = book[c].identity, screen' = Guarded(c, i)
    PROVE  \A k2 \in Kind, c2 \in Customer :
              \/ screen'[k2][c2] = screen[k2][c2]
              \/ /\ Known(c2) => screen'[k2][c2].identity = book[c2].identity
                 /\ screen'[k2][c2].proof = NoVersion /\ screen'[k2][c2].phase = "boot"
<1> DEFINE r == [Idle EXCEPT !.phase = "boot", !.identity = i]
<1>1. r.phase = "boot" /\ r.identity = i /\ r.proof = NoVersion
  BY DEF Idle
<1>2. CASE screen' = screen
  BY <1>2
<1>3. CASE screen' = [screen EXCEPT !["guarded"][c] = r]
  <2> HIDE DEF r
  <2>1. \A k2 \in Kind, c2 \in Customer :
           screen'[k2][c2] = IF k2 = "guarded" /\ c2 = c THEN r ELSE screen[k2][c2]
    BY <1>3, TypeParts DEF RunsTyped, Kind, Inv
  <2> QED BY <1>1, <2>1
<1> QED BY <1>2, <1>3 DEF Guarded

(* A step of a loop keeps it.                                              *)
LEMMA LoopClear ==
    ASSUME Inv, ClearInv, NEW l \in Loop, RunLoop(l)
    PROVE  ClearInv'
<1> USE TypeParts DEF Inv, ClearInv, worldVars, callVars
<1>1. UNCHANGED <<bookVars, engine, asked, selection, published, serial>>
  BY DEF RunLoop, LoopLists, LoopDone, LoopNext
<1>2. LoadsSelection'
  BY <1>1 DEF LoadsSelection
<1>3. CASE LoopLists(l) \/ LoopDone(l)
  <2>1. \A m \in Loop, c \in Customer :
           Known(c) => loop'[m].todo[c] \in {loop[m].todo[c], NoRow, book[c].identity}
    <3>1. CASE LoopDone(l)
      BY <3>1 DEF LoopDone, Off, RunsTyped
    <3>2. CASE LoopLists(l)
      <4>1. \A m \in Loop : m # l => loop'[m] = loop[m]
        BY <3>2 DEF LoopLists, RunsTyped
      <4>2. \A c \in Customer : loop'[l].todo[c] \in {NoRow, book[c].identity}
        BY <3>2 DEF LoopLists, RunsTyped, LoopRecord
      <4> QED BY <4>1, <4>2
    <3> QED BY <1>3, <3>1, <3>2
  <2>2. UNCHANGED screen
    BY <1>3 DEF LoopLists, LoopDone
  <2>3. SameIdentity'
    BY <1>1, <2>1, <2>2, IdentityKept DEF bookVars, Known
  <2>4. StampsArePast' /\ ProofsExplained'
    BY <1>1, <2>2, StampsKept, ProofsKept DEF bookVars, Known
  <2> QED BY <1>2, <2>3, <2>4
<1>4. ASSUME NEW c \in Customer, LoopNext(l, c) PROVE ClearInv'
  <2>1. loop[l].todo[c] \in Identity /\ (Known(c) => loop[l].todo[c] = book[c].identity)
    BY <1>4 DEF LoopNext, RunsTyped, LoopRecord, SameIdentity
  <2>2. \A k2 \in Kind, c2 \in Customer :
           \/ screen'[k2][c2] = screen[k2][c2]
           \/ /\ Known(c2) => screen'[k2][c2].identity = book[c2].identity
              /\ screen'[k2][c2].proof = NoVersion /\ screen'[k2][c2].phase = "boot"
    BY <1>4, <2>1, GuardedClear DEF LoopNext
  <2>3. \A m \in Loop, d \in Customer : loop'[m].todo[d] \in {loop[m].todo[d], NoRow}
    BY <1>4 DEF LoopNext, RunsTyped, LoopRecord
  <2>4. SameIdentity'
    BY <1>1, <2>2, <2>3, IdentityKept DEF bookVars, Known
  <2>5. StampsArePast' /\ ProofsExplained'
    BY <1>1, <2>2, StampsKept, ProofsKept DEF bookVars, Known
  <2> QED BY <1>2, <2>4, <2>5
<1> QED BY <1>3, <1>4 DEF RunLoop

(* The screen of one customer on request keeps it.                         *)
LEMMA ScreenOneRunsClear ==
    ASSUME Inv, ClearInv, NEW c \in Customer, ScreenOneRuns(c)
    PROVE  ClearInv'
<1> USE TypeParts DEF Inv, ClearInv, worldVars, callVars
<1>1. /\ UNCHANGED <<bookVars, engine, loop, selection, published, serial>>
      /\ \A d \in Customer : asked'[d] \in {asked[d], NoRow}
  BY DEF ScreenOneRuns, RunsTyped
<1>2. asked[c] \in Identity /\ (Known(c) => asked[c] = book[c].identity)
  BY DEF ScreenOneRuns, RunsTyped, SameIdentity
<1>3. \A k2 \in Kind, c2 \in Customer :
         \/ screen'[k2][c2] = screen[k2][c2]
         \/ /\ Known(c2) => screen'[k2][c2].identity = book[c2].identity
            /\ screen'[k2][c2].proof = NoVersion /\ screen'[k2][c2].phase = "boot"
  BY <1>2, GuardedClear DEF ScreenOneRuns
<1>4. SameIdentity'
  BY <1>1, <1>3, IdentityKept DEF bookVars, Known
<1>5. StampsArePast' /\ ProofsExplained'
  BY <1>1, <1>3, StampsKept, ProofsKept DEF bookVars, Known
<1> QED BY <1>1, <1>4, <1>5 DEF LoadsSelection

(* What is neither of a screen nor of a load.                              *)
LEMMA QuietStepClear ==
    ASSUME Inv, ClearInv,
           UNCHANGED <<bookVars, engine, selection, published, screen>>, serial' # "saved",
           \A c \in Customer : Known(c) => asked'[c] \in {asked[c], NoRow, book[c].identity},
           \A l \in Loop, c \in Customer : loop'[l].todo[c] \in {loop[l].todo[c], NoRow}
    PROVE  ClearInv'
<1> USE DEF ClearInv
<1>1. SameIdentity'
  BY IdentityKept DEF bookVars, Known
<1>2. StampsArePast' /\ ProofsExplained'
  BY StampsKept, ProofsKept DEF bookVars, Known
<1> QED BY <1>1, <1>2 DEF LoadsSelection

(* What closes, boots or loses the engine: no proof is on its way that was *)
(* not before.                                                             *)
LEMMA EngineStepKeeps ==
    ASSUME Inv, ClearInv,
           UNCHANGED <<bookVars, asked, selection, published>>, LoadsSelection',
           engine'.version \in {engine.version, NoVersion},
           \A k \in Kind, c \in Customer :
              \/ screen'[k][c] \in {screen[k][c], Idle}
              \/ screen[k][c].phase = "queued"
                 /\ screen'[k][c] = [screen[k][c] EXCEPT !.phase = "doomed"],
           \A l \in Loop, c \in Customer : loop'[l].todo[c] \in {loop[l].todo[c], NoRow}
    PROVE  ClearInv'
<1> USE TypeParts DEF Inv, ClearInv
<1>1. \A k \in Kind, c \in Customer :
         LET r == [screen[k][c] EXCEPT !.phase = "doomed"]
         IN  r.phase = "doomed" /\ r.identity = screen[k][c].identity
             /\ r.proof = screen[k][c].proof
  BY DEF RunsTyped, ScreenRecord
<1>2. Idle.phase = "idle" /\ Idle.proof = NoVersion
  BY DEF Idle
<1>3. \A k \in Kind, c \in Customer :
         /\ screen'[k][c].phase # "idle" =>
               /\ screen[k][c].phase # "idle"
               /\ screen'[k][c].identity = screen[k][c].identity
         /\ \/ screen'[k][c].proof = NoVersion
            \/ /\ screen'[k][c].proof = screen[k][c].proof
               /\ screen'[k][c].phase = "stored" => screen[k][c].phase = "stored"
  <2> TAKE k \in Kind, c \in Customer
  <2> DEFINE r == [screen[k][c] EXCEPT !.phase = "doomed"]
  <2>1. /\ r.phase = "doomed" /\ r.identity = screen[k][c].identity
        /\ r.proof = screen[k][c].proof
    BY <1>1
  <2>2. \/ screen'[k][c] \in {screen[k][c], Idle}
        \/ screen[k][c].phase = "queued" /\ screen'[k][c] = r
    OBVIOUS
  <2> HIDE DEF r
  <2> QED BY <1>2, <2>1, <2>2
<1>4. SameIdentity'
  BY <1>3, IdentityKept DEF bookVars, Known
<1>5. StampsArePast' /\ ProofsExplained'
  BY <1>3, StampsKept, ProofsKept DEF bookVars, Known
<1> QED BY <1>4, <1>5

(* A load that ends gives the stamp of the enabled lists as published now. *)
LEMMA LoadDoneClear ==
    ASSUME Inv, ClearInv, LoadDone
    PROVE  ClearInv'
<1> USE TypeParts DEF Inv, ClearInv, worldVars, callVars
<1> DEFINE v == StampOf(selection)
<1>1. /\ engine.version = NoVersion /\ engine'.version = v /\ engine'.phase = "ready"
      /\ UNCHANGED <<bookVars, screen, asked, selection, published>> /\ serial' # "saved"
  BY DEF LoadDone, LoadsSelection, RestTyped, EngineRecord
<1>2. v \in [selection -> 1..MaxPublish] /\ v # NoVersion
      /\ \A l \in selection : v[l] = published[l] /\ published[l] \in Nat
  BY StampsAreVersions, ScreeningAssumption DEF StampOf, RestTyped
<1>3. v' = v
  BY <1>1 DEF StampOf
<1> HIDE DEF v
<1>4. \A p : Past(p) => Past(p)'
  BY <1>1, <1>2 DEF Past
<1>5. Past(engine.version)'
  BY <1>1, <1>2, ScreeningAssumption DEF Past
<1>6. \A p : Current(p)' => Current(p)
  BY <1>1, <1>3 DEF Current, v
<1>7. \A l \in Loop, c \in Customer : loop'[l].todo[c] \in {loop[l].todo[c], NoRow}
  <2>1. poll.answer \in Stamps /\ StampOf(engine.lists) \in Stamps /\ "lists" \in Loop
    BY StampsAreVersions DEF RestTyped, PollRecord, EngineRecord, Stamps, Loop
  <2>2. loop' \in {SyncCalled(StampOf(engine.lists)), SyncCalled(poll.answer),
                  RescanCalled("lists"), loop}
    BY DEF LoadDone
  <2> QED BY <2>1, <2>2, CallsAskNobody
<1>8. SameIdentity'
  BY <1>1, <1>7, IdentityKept DEF bookVars, Known
<1>9. StampsArePast' /\ ProofsExplained'
  BY <1>1, <1>4, <1>5, <1>6, ProofsKept DEF bookVars, Known
<1> QED BY <1>1, <1>8, <1>9 DEF LoadsSelection

(* A list that is published makes every written proof one of the past.     *)
LEMMA PublishClear ==
    ASSUME Inv, ClearInv, NEW l \in List, Publish(l)
    PROVE  ClearInv'
<1> USE TypeParts DEF Inv, ClearInv, worldVars, callVars, runVars
<1>1. /\ UNCHANGED <<bookVars, screen, asked, loop, engine, selection, serial>>
      /\ \A m \in List : published[m] \in Nat /\ published'[m] =
             IF m = l THEN published[m] + 1 ELSE published[m]
      /\ selection \in SUBSET List
  BY ScreeningAssumption DEF Publish, RestTyped
<1>2. ASSUME NEW p, Past(p) PROVE Past(p)'
  <2> SUFFICES ASSUME p # NoVersion, NEW m \in selection
               PROVE  p[m] <= published'[m]
    BY <1>1, <1>2 DEF Past
  <2>1. p[m] \in Nat /\ p[m] <= published[m]
    BY <1>2, ScreeningAssumption DEF Past
  <2> QED BY <1>1, <2>1
<1>3. Past(engine.version)'
  BY <1>1, <1>2 DEF StampsArePast, Past
<1>4. ASSUME NEW p, Past(p), Current(p)' PROVE Current(p)
  <2>1. CASE p = engine.version
    BY <1>1, <1>4, <2>1 DEF Current
  <2>2. CASE p = StampOf(selection)' /\ p # NoVersion
    <3>1. l \notin selection
      <4> SUFFICES ASSUME l \in selection PROVE FALSE
        OBVIOUS
      <4>1. p[l] = published[l] + 1
        BY <1>1, <2>2 DEF StampOf
      <4>2. p[l] <= published[l]
        BY <1>4, <2>2 DEF Past
      <4> QED BY <1>1, <4>1, <4>2
    <3>2. StampOf(selection)' = StampOf(selection)
      BY <1>1, <3>1 DEF StampOf
    <3> QED BY <2>2, <3>2 DEF Current
  <2> QED BY <1>1, <1>4, <2>1, <2>2 DEF Current
<1>5. SameIdentity'
  BY <1>1, IdentityKept DEF bookVars, Known
<1>6. StampsArePast' /\ ProofsExplained'
  BY <1>1, <1>2, <1>3, <1>4, ProofsKept DEF bookVars, Known
<1> QED BY <1>1, <1>5, <1>6 DEF LoadsSelection

(* Whoever is new, changed or gone is nobody a screen is concerned with.   *)
LEMMA BookOpClear ==
    ASSUME Inv, ClearInv, UNCHANGED <<engine, selection, published, serial, asked>>,
           \A l \in Loop, c \in Customer : loop'[l].todo[c] \in {loop[l].todo[c], NoRow},
           \A c \in Customer : Known(c)' =>
              \/ /\ Known(c) /\ book'[c] = book[c] /\ hits'[c] = hits[c]
                 /\ \A k \in Kind : screen'[k][c] = screen[k][c]
              \/ /\ Untouched(c) /\ book'[c].proof = NoVersion
                 /\ \A k \in Kind : screen'[k][c].phase \in {"idle", "boot"}
                 /\ \A k \in Kind : screen'[k][c].phase = "boot" =>
                                      screen'[k][c].identity = book'[c].identity,
           \A k \in Kind, c \in Customer :
              screen'[k][c] = screen[k][c] \/ screen'[k][c].proof = NoVersion
    PROVE  ClearInv'
<1> USE DEF ClearInv
<1>1. SameIdentity'
  BY IdentityKept DEF Untouched
<1>2. StampsArePast' /\ ProofsExplained'
  BY StampsKept, ProofsKept
<1> QED BY <1>1, <1>2 DEF LoadsSelection

(* A step of the engine keeps the invariant.                               *)
LEMMA EngineClear ==
    ASSUME Inv, ClearInv, EngineNext
    PROVE  ClearInv'
<1> USE TypeParts DEF Inv, ClearInv, worldVars, callVars, runVars
<1>1. CASE GateBoots
  <2>1. \A l \in Loop, c \in Customer : loop'[l].todo[c] \in {loop[l].todo[c], NoRow}
    BY <1>1, StampTyped, CallsAskNobody DEF GateBoots, Loop
  <2>2. engine'.version \in {engine.version, NoVersion} /\ LoadsSelection'
    BY <1>1 DEF GateBoots, BootsOrJoins, Boots, LoadsSelection
  <2>3. UNCHANGED <<bookVars, asked, selection, published, screen>>
    BY <1>1 DEF GateBoots
  <2> QED BY <2>1, <2>2, <2>3, EngineStepKeeps
<1>2. CASE Revisit
  <2>1. UNCHANGED <<bookVars, engine, selection, published, screen, serial, asked, loop>>
    BY <1>2 DEF Revisit
  <2> QED BY <2>1, QuietStepClear DEF LoadsSelection
<1>3. CASE LoadDone
  BY <1>3, LoadDoneClear
<1>4. CASE Drained
  <2>1. engine'.version \in {engine.version, NoVersion} /\ LoadsSelection'
    BY <1>4 DEF Drained, LoadsSelection
  <2>2. UNCHANGED <<bookVars, asked, selection, published, screen, loop>>
    BY <1>4 DEF Drained
  <2> QED BY <2>1, <2>2, EngineStepKeeps
<1> QED BY <1>1, <1>2, <1>3, <1>4 DEF EngineNext

(* What closing dooms, it does not touch otherwise.                        *)
LEMMA ClosingClear ==
    ASSUME Inv, ClearInv, NEW p \in {"draining", "disposing"}, Closing(p), serial' # "saved",
           UNCHANGED <<bookVars, asked, loop, selection, published>>
    PROVE  ClearInv'
<1>1. RunsTyped /\ RestTyped /\ EngineInv
  BY TypeParts DEF Inv
<1>2. engine'.version = engine.version /\ engine'.phase = p
  BY <1>1, ClosingTyped
<1>3. LoadsSelection'
  BY <1>2 DEF LoadsSelection
<1>4. \A k \in Kind, c \in Customer :
         \/ screen'[k][c] \in {screen[k][c], Idle}
         \/ screen[k][c].phase = "queued"
            /\ screen'[k][c] = [screen[k][c] EXCEPT !.phase = "doomed"]
  BY DEF Closing
<1> QED BY <1>2, <1>3, <1>4, EngineStepKeeps

(* A step of the poll keeps it.                                            *)
LEMMA PollClear ==
    ASSUME Inv, ClearInv, PollNext
    PROVE  ClearInv'
<1> USE TypeParts DEF Inv, worldVars, callVars, runVars
<1>1. CASE PollStart \/ PollFetched \/ PollEnds \/ PollThrows
  <2>1. UNCHANGED <<bookVars, engine, selection, published, screen, serial, asked>>
    BY <1>1 DEF PollStart, PollFetched, PollEnds, PollThrows
  <2>2. \A l \in Loop, c \in Customer : loop'[l].todo[c] \in {loop[l].todo[c], NoRow}
    <3>1. StampOf(List) \in Stamps
      BY StampsAreVersions DEF Stamps
    <3>2. loop' = SyncCalled(StampOf(List)) \/ loop' = loop
      BY <1>1 DEF PollStart, PollFetched, PollEnds, PollThrows
    <3> QED BY <3>1, <3>2, CallsAskNobody DEF Loop
  <2> QED BY <2>1, <2>2, QuietStepClear DEF LoadsSelection, ClearInv
<1>2. CASE PollReloads
  <2>1. /\ Closing("draining") /\ serial' # "saved"
        /\ UNCHANGED <<bookVars, asked, loop, selection, published>>
    BY <1>2 DEF PollReloads
  <2> QED BY <2>1, ClosingClear
<1> QED BY <1>1, <1>2 DEF PollNext

(* A step of the user, the publisher or the browser keeps it.              *)
LEMMA EnvironmentClear ==
    ASSUME Undisturbed, Inv, ClearInv, Environment
    PROVE  ClearInv'
<1> USE TypeParts DEF Inv, worldVars, callVars, runVars
<1>1. CASE Leave \/ Quieten
  <2>1. UNCHANGED <<bookVars, engine, selection, published, screen, serial, asked, loop>>
    BY <1>1 DEF Leave, Quieten
  <2> QED BY <2>1, QuietStepClear DEF LoadsSelection, ClearInv
<1>2. CASE Dispose
  <2>1. /\ Closing("disposing") /\ serial' # "saved"
        /\ UNCHANGED <<bookVars, asked, loop, selection, published>>
    BY <1>2 DEF Dispose, ClearInv, LoadsSelection
  <2> QED BY <2>1, ClosingClear
<1>3. CASE LoadFails
  <2>1. engine'.version = NoVersion /\ LoadsSelection'
        /\ UNCHANGED <<bookVars, asked, selection, published>>
    BY <1>3 DEF LoadFails, LoadsSelection, ClearInv
  <2>2. /\ \A k \in Kind, c \in Customer : screen'[k][c] \in {screen[k][c], Idle}
        /\ \A l \in Loop : loop'[l] \in {loop[l], Off}
    <3>1. PICK failed \in [Kind -> SUBSET Customer] :
            /\ screen' = [k \in Kind |-> [c \in Customer |->
                  IF c \in failed[k] THEN Idle ELSE screen[k][c]]]
            /\ loop' = [l \in Loop |->
                  IF loop[l].awaiting \in failed["guarded"] THEN Off ELSE loop[l]]
      BY <1>3 DEF LoadFails
    <3> QED BY <3>1
  <2>3. \A l \in Loop, c \in Customer : loop'[l].todo[c] \in {loop[l].todo[c], NoRow}
    BY <2>2 DEF Off
  <2> QED BY <2>1, <2>2, <2>3, EngineStepKeeps
<1>4. CASE TabCloses
  <2>1. /\ UNCHANGED <<bookVars, selection, published>>
        /\ engine'.version = NoVersion /\ LoadsSelection'
        /\ \A k \in Kind, c \in Customer : screen'[k][c] = Idle
        /\ \A l \in Loop, c \in Customer : loop'[l].todo[c] = NoRow
        /\ \A c \in Customer : asked'[c] = NoRow
    BY <1>4 DEF TabCloses, LoadsSelection, Off
  <2>2. Idle.phase = "idle" /\ Idle.proof = NoVersion
    BY DEF Idle
  <2>3. SameIdentity'
    BY <2>1, <2>2 DEF SameIdentity
  <2>4. StampsArePast' /\ ProofsExplained'
    BY <2>1, <2>2, StampsKept, ProofsKept DEF bookVars, Known, ClearInv
  <2> QED BY <2>1, <2>3, <2>4 DEF ClearInv
<1>5. CASE \E l \in List : Publish(l)
  BY <1>5, PublishClear
<1>6. ~ \E S \in Selections : SetLists(S)
  BY DEF SetLists, Happens, Undisturbed
<1>7. ASSUME NEW batch \in Batches, Import(batch) PROVE ClearInv'
  <2>1. UNCHANGED <<engine, selection, published, serial, asked, screen>>
    BY <1>7 DEF Import
  <2>2. \A l \in Loop, c \in Customer : loop'[l].todo[c] \in {loop[l].todo[c], NoRow}
    BY <1>7, CallsAskNobody, IdleTyped DEF Import, Loop, Stamps
  <2>3. \A c \in Customer : Known(c)' =>
           \/ Known(c) /\ book'[c] = book[c] /\ hits'[c] = hits[c]
           \/ Untouched(c) /\ book'[c].proof = NoVersion
    BY <1>7 DEF Import, Enrol, Known, Unproven
  <2>4. \A c \in Customer : Untouched(c) => \A k \in Kind : screen'[k][c].phase = "idle"
    BY <2>1 DEF Untouched, Idle
  <2> QED BY <2>1, <2>2, <2>3, <2>4, BookOpClear
<1>8. ASSUME NEW c \in Customer, ScreenOne(c) PROVE ClearInv'
  <2>1. /\ UNCHANGED <<bookVars, engine, selection, published, screen, serial, loop>>
        /\ \A d \in Customer : asked'[d] \in {asked[d], book[d].identity}
    BY <1>8 DEF ScreenOne, RunsTyped
  <2> QED BY <2>1, QuietStepClear DEF LoadsSelection, ClearInv
<1>9. ASSUME NEW c \in Customer, Delete(c) PROVE ClearInv'
  <2>1. UNCHANGED <<engine, selection, published, serial, asked, screen, loop>>
    BY <1>9 DEF Delete
  <2>2. \A d \in Customer : Known(d)' =>
           Known(d) /\ book'[d] = book[d] /\ hits'[d] = hits[d]
    BY <1>9 DEF Delete, Erase, Known, BookTypeOK
  <2> QED BY <2>1, <2>2, BookOpClear
<1>10. ASSUME NEW c \in Customer, NEW i \in Identity, Edit(c, i) PROVE ClearInv'
  <2>1. UNCHANGED <<engine, selection, published, serial, asked, screen, loop>>
        /\ Untouched(c)
    BY <1>10 DEF Edit, Happens, Undisturbed
  <2>2. \A d \in Customer : Known(d)' =>
           \/ Known(d) /\ book'[d] = book[d] /\ hits'[d] = hits[d]
           \/ d = c /\ book'[d].proof = NoVersion
    BY <1>10 DEF Edit, Amend, Known, BookTypeOK, Unproven
  <2>3. \A k \in Kind : screen'[k][c].phase = "idle"
    BY <2>1 DEF Untouched, Idle
  <2> QED BY <2>1, <2>2, <2>3, BookOpClear
<1>11. ASSUME NEW c \in Customer, NEW i \in Identity, Onboard(c, i) PROVE ClearInv'
  <2> DEFINE r == [Idle EXCEPT !.phase = "boot", !.identity = i]
  <2>1. r.phase = "boot" /\ r.identity = i /\ r.proof = NoVersion
    BY DEF Idle
  <2>2. /\ UNCHANGED <<engine, selection, published, serial, asked, loop>>
        /\ Untouched(c) /\ screen' = [screen EXCEPT !["onboard"][c] = r]
        /\ Enrol([d \in {c} |-> i])
    BY <1>11 DEF Onboard
  <2> HIDE DEF r
  <2>3. \A k \in Kind, d \in Customer :
           screen'[k][d] = IF k = "onboard" /\ d = c THEN r ELSE screen[k][d]
    BY <2>2 DEF RunsTyped, Kind
  <2>4. \A d \in Customer : Known(d)' =>
           \/ d # c /\ Known(d) /\ book'[d] = book[d] /\ hits'[d] = hits[d]
           \/ d = c /\ book'[d].proof = NoVersion /\ book'[d].identity = i
    BY <2>2 DEF Enrol, Known, Unproven
  <2>5. \A k \in Kind : screen[k][c].phase = "idle"
    BY <2>2 DEF Untouched, Idle
  <2> QED BY <2>1, <2>2, <2>3, <2>4, <2>5, BookOpClear
<1> QED BY <1>1, <1>2, <1>3, <1>4, <1>5, <1>6, <1>7, <1>8, <1>9, <1>10, <1>11 DEF Environment

(* Every step keeps it.                                                    *)
LEMMA ClearStep == ASSUME Undisturbed, Inv, ClearInv, [Next]_vars PROVE ClearInv'
<1>1. CASE UNCHANGED vars
  <2>1. UNCHANGED <<bookVars, engine, selection, published, screen, serial, asked, loop>>
    BY <1>1 DEF vars, bookVars, runVars, worldVars, callVars
  <2> QED BY <2>1, QuietStepClear DEF LoadsSelection, ClearInv
<1>2. ~ SetListsLoads
  BY DEF SetListsLoads, ClearInv, LoadsSelection
<1> QED BY <1>1, <1>2, EnvironmentClear, EngineClear, PollClear, RunClear, LoopClear,
           ScreenOneRunsClear DEF Next

(* The invariant is more than the property.                                *)
LEMMA ClearIsClear == ASSUME ClearInv PROVE NoFalseClear
BY DEF ClearInv, ProofsExplained, Explained, Current, NoFalseClear, stamp

\* With the selection as it is and no edit in the middle of a screen, a customer whose proof is
\* the stamp of the lists loaded now shows every hit of its present identity: "No matches" is
\* true, whatever is published, fails, is retried or is closed (rescan.ts, onboarding.ts).
THEOREM ClearMeansClear == Undisturbed => (Spec => []NoFalseClear)
<1> SUFFICES ASSUME Undisturbed PROVE Spec => []NoFalseClear
  OBVIOUS
<1>1. Spec => []Inv
  BY ScreeningTypeCorrect, PTL DEF Inv
<1>2. Init => ClearInv
  BY ClearInit
<1>3. Inv /\ ClearInv /\ [Next]_vars => ClearInv'
  BY ClearStep
<1>4. ClearInv => NoFalseClear
  BY ClearIsClear
<1> QED BY <1>1, <1>2, <1>3, <1>4, PTL DEF Spec

=============================================================================
