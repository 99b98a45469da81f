---------------------------- MODULE EngineRuntime ----------------------------
(* The lifecycle of one EngineRuntime (runtime.ts): the object that owns a   *)
(* page's model worker, its synced bundle source and its screening engine.   *)
(* Every public operation joins one queue (#lifecycleTail) and runs alone,   *)
(* except that a boot that loses its race (aborted, or past the boot timeout)*)
(* is not cancelled: its #build goes on beside whatever runs next, and only  *)
(* the generation it carries keeps it from publishing what it built.         *)
EXTENDS Integers, Sequences, FiniteSets

CONSTANTS Lists,        \* the lists of the signed catalog
          Selections,   \* what a page may ask for: enabled lists, and their residency
          Kinds,        \* the operations the page calls
          CallersWait,  \* no page boots while a dispose or clear of its own is queued
          MaxCalls      \* bound on the calls of a behaviour

ASSUME RuntimeAssumption == MaxCalls \in Nat

VARIABLES rt,     \* the fields of the EngineRuntime object and what they own
          queue,  \* #lifecycleTail: the calls not settled yet, the running one first
          work,   \* the async bodies under way: the running call's, and given-up builds
          call,   \* what became of each call
          screenOn \* the engine a screen is running on, 0 when none

runtimeVars == <<rt, queue, work, call, screenOn>>

Calls == 1..MaxCalls
NoEngine == [id |-> 0, src |-> 0, model |-> 0, gen |-> 0]
Settled == {"open", "failed", "disposed"}

RuntimeInit ==
  /\ rt = [memo |-> 0, srcs |-> <<>>, model |-> 0, models |-> <<>>, gen |-> 0,
           abort |-> 0, aborted |-> {}, promise |-> 0, reload |-> 0,
           ready |-> NoEngine, config |-> FALSE,
           selection |-> [lists |-> Lists, streaming |-> FALSE]]
  /\ queue = <<>> /\ work = {} /\ screenOn = 0
  /\ call = [i \in Calls |-> "none"]

-----------------------------------------------------------------------------
(* What the operations do to the object.                                     *)

\* #disposeBundleSource: a source still opening is terminated once it has opened
Doomed(r, s) ==
  IF s = 0 THEN r ELSE
  [r EXCEPT !.srcs[s].st = CASE @ = "opening" -> "doomed"
                             [] @ = "open"    -> "disposed"
                             [] OTHER         -> @]
Evicted(r) == [Doomed(r, r.memo) EXCEPT !.memo = 0]

\* #disposeEmbedder and the assignment of null that always follows it
ModelGone(r) ==
  [r EXCEPT !.models = [m \in DOMAIN @ |-> IF m = r.model THEN "ended" ELSE @[m]],
            !.model = 0]

\* Mutant of ModelHeld: a boot does not look for a warm model.
ModelHeldTwice(r) ==
  [r EXCEPT !.models = Append(@, "live"), !.model = Len(r.models) + 1]
\* makeEmbedder, unless a warm model is held
ModelHeld(r) ==
  IF r.model # 0 THEN r
  ELSE [r EXCEPT !.models = Append(@, "live"), !.model = Len(r.models) + 1]

Opened(r, sel, shared) ==
  [r EXCEPT !.srcs = Append(@, [st |-> "opening", lists |-> sel, shared |-> shared])]

\* #bundleSourceFor: the memoized source, or one opened for the current selection
SourceFor(r) ==
  IF r.memo # 0 THEN r
  ELSE [Opened(r, r.selection.lists, TRUE) EXCEPT !.memo = Len(r.srcs) + 1]

\* #abortBootIfActive
BootAborted(r) ==
  IF r.abort = 0 THEN r
  ELSE Evicted(ModelGone([r EXCEPT !.abort = 0, !.gen = @ + 1,
                                   !.aborted = @ \cup {r.abort}]))

\* the rejection handler of bootstrap: only the boot that is still the current one cleans up
BootFailed(r, id) ==
  IF r.abort # id THEN r
  ELSE Evicted(ModelGone([r EXCEPT !.abort = 0, !.gen = @ + 1,
                                   !.config = FALSE, !.promise = 0]))

\* the catch of #reload: the warm model stays for a retry
ReloadFailed(r) == [Evicted(r) EXCEPT !.promise = 0, !.reload = 0]

TornDown(r) == [r EXCEPT !.config = FALSE, !.promise = 0]
EngineGone(r) == ModelGone([r EXCEPT !.ready = NoEngine])

-----------------------------------------------------------------------------
(* The calls of the page.                                                    *)

TearingDown == \E k \in DOMAIN queue : queue[k].kind \in {"dispose", "clear"}
NextCall == {i \in Calls : call[i] = "none" /\ \A j \in 1..(i-1) : call[j] # "none"}
Enqueued(kind, i, sel) ==
  /\ queue' = Append(queue, [kind |-> kind, id |-> i, sel |-> sel, gen |-> rt.gen])
  /\ call' = [call EXCEPT ![i] = "pending"]
  /\ UNCHANGED <<work, screenOn>>

\* a bootstrap while a reload or an earlier boot stands is handed that promise: no step
Bootstrap(i, sel) ==
  /\ "boot" \in Kinds /\ rt.reload = 0 /\ rt.promise = 0
  /\ CallersWait => ~TearingDown
  /\ rt' = [rt EXCEPT !.selection = sel, !.abort = i, !.promise = i]
  /\ Enqueued("boot", i, sel)

\* dispose and clearListCache abort a boot in flight before they queue
Teardown(kind, i) ==
  /\ kind \in Kinds \cap {"dispose", "clear"}
  /\ rt' = BootAborted(rt)
  /\ Enqueued(kind, i, rt.selection)

Reload(i, sel) ==
  /\ "reload" \in Kinds /\ rt.reload = 0
  /\ rt' = [rt EXCEPT !.reload = i]
  /\ Enqueued("reload", i, sel)

\* catalogLists, catalogOnlyLists and fetchPublishedVersion only queue
Read(kind, i) ==
  /\ kind \in Kinds \cap {"catalog", "only", "poll"}
  /\ Enqueued(kind, i, rt.selection) /\ UNCHANGED rt

PageCalls ==
  \E i \in NextCall :
    \/ \E sel \in Selections : Bootstrap(i, sel) \/ Reload(i, sel)
    \/ \E kind \in Kinds : Teardown(kind, i) \/ Read(kind, i)

-----------------------------------------------------------------------------
(* The queue and the bodies it runs.                                         *)

Running(id) == queue # <<>> /\ Head(queue).id = id
CallEnds(id, result) ==
  /\ queue' = Tail(queue) /\ call' = [call EXCEPT ![id] = result]

Body(op, pc, s) ==
  [id |-> op.id, kind |-> op.kind, pc |-> pc, gen |-> op.gen, src |-> s,
   model |-> 0, todo |-> {}, old |-> 0]
GoesTo(f, g) == work' = (work \ {f}) \cup {g}

StartBoot(op) ==
  /\ op.kind = "boot"
  /\ rt' = ModelHeld([rt EXCEPT !.config = TRUE])
  /\ work' = work \cup {[Body(op, "warm", 0) EXCEPT !.model = rt'.model]}
  /\ UNCHANGED <<queue, call>>

StartReload(op) ==
  /\ op.kind = "reload"
  /\ IF rt.model = 0 \/ ~rt.config
     THEN /\ rt' = [rt EXCEPT !.reload = 0]
          /\ CallEnds(op.id, "failed") /\ UNCHANGED work
     ELSE /\ rt' = [rt EXCEPT !.selection = op.sel, !.ready = NoEngine, !.promise = 0]
          /\ work' = work \cup {[Body(op, "drain", 0) EXCEPT !.old = rt.ready.id]}
          /\ UNCHANGED <<queue, call>>

StartTeardown(op) ==
  /\ op.kind \in {"dispose", "clear"}
  /\ rt' = Evicted([rt EXCEPT !.gen = @ + 1])
  /\ work' = work \cup {Body(op, "evict", rt.memo)}
  /\ UNCHANGED <<queue, call>>

StartCatalog(op) ==
  /\ op.kind = "catalog"
  /\ rt' = SourceFor([rt EXCEPT !.config = TRUE])
  /\ work' = work \cup {Body(op, "read", rt'.memo)}
  /\ UNCHANGED <<queue, call>>

\* a short-lived source of its own, scoped to the catalog; only the poll needs a boot before
StartOwn(op) ==
  /\ op.kind \in {"only", "poll"}
  /\ IF op.kind = "poll" /\ ~rt.config
     THEN CallEnds(op.id, "failed") /\ UNCHANGED <<rt, work>>
     ELSE /\ rt' = Opened(rt, {}, FALSE)
          /\ work' = work \cup {Body(op, "own", Len(rt'.srcs))}
          /\ UNCHANGED <<queue, call>>

StartNext ==
  /\ queue # <<>> /\ ~\E f \in work : f.id = Head(queue).id
  /\ UNCHANGED screenOn
  /\ LET op == Head(queue) IN
       \/ StartBoot(op) \/ StartReload(op) \/ StartTeardown(op)
       \/ StartCatalog(op) \/ StartOwn(op)

\* withAbort: an aborted boot settles at once and its build goes on without it
AbortWins ==
  /\ queue # <<>> /\ LET op == Head(queue) IN
       /\ op.id \in rt.aborted /\ \E f \in work : f.id = op.id
       /\ CallEnds(op.id, "failed")
  /\ UNCHANGED <<rt, work, screenOn>>

\* withTimeout: the ceiling on the whole boot
BootTimesOut ==
  /\ queue # <<>> /\ LET op == Head(queue) IN
       /\ op.kind = "boot" /\ \E f \in work : f.id = op.id
       /\ CallEnds(op.id, "failed") /\ rt' = BootFailed(rt, op.id)
  /\ UNCHANGED <<work, screenOn>>

\* a body ends: its call settles if it is still the one the queue waits for
Finished(f, result) ==
  /\ work' = work \ {f}
  /\ IF Running(f.id) THEN CallEnds(f.id, result) ELSE UNCHANGED <<queue, call>>

BodyFails(f) ==
  /\ Finished(f, "failed")
  /\ rt' = CASE f.kind = "boot"   -> IF Running(f.id) THEN BootFailed(rt, f.id) ELSE rt
             [] f.kind = "reload" -> ReloadFailed(rt)
             [] f.kind = "clear"  -> TornDown(rt)
             [] OTHER             -> rt

\* Mutant of Current: a superseded build is not told apart.
CurrentWhateverHappened(f) == TRUE
\* assertCurrent
Current(f) == f.kind = "boot" => rt.gen = f.gen

\* the engine is published; a superseded build throws instead
Publishes(f) ==
  IF Current(f)
  THEN /\ rt' = [rt EXCEPT !.ready = [id |-> f.id, src |-> f.src, model |-> f.model,
                                      gen |-> rt.gen],
                           !.abort = IF @ = f.id THEN 0 ELSE @,
                           !.promise = IF f.kind = "reload" THEN f.id ELSE @,
                           !.reload = IF @ = f.id THEN 0 ELSE @]
       /\ Finished(f, "ok")
  ELSE BodyFails(f)

\* the first await of every load: the catalog of the source
LoadsCatalog(f, r) ==
  LET s == SourceFor(r) IN
  /\ rt' = s /\ GoesTo(f, [f EXCEPT !.pc = "catalog", !.src = s.memo, !.model = s.model])
  /\ UNCHANGED <<queue, call>>

\* #loadList asks for the memoized source again; a streaming load keeps the one it has
LoadsList(f, todo) ==
  IF todo = {} THEN Publishes(f)
  ELSE LET r == IF rt.selection.streaming THEN rt ELSE SourceFor(rt) IN
       /\ rt' = r
       /\ GoesTo(f, [f EXCEPT !.pc = "list", !.todo = todo,
                            !.src = IF rt.selection.streaming THEN @ ELSE r.memo])
       /\ UNCHANGED <<queue, call>>

\* the warmup embed answers, or is rejected: by silence, an error or the model's disposal
WarmUp(f) ==
  /\ f.pc = "warm"
  /\ \/ rt.models[f.model] = "live" /\ Current(f) /\ LoadsCatalog(f, rt)
     \/ BodyFails(f)

CatalogRead(f) ==
  /\ f.pc = "catalog" /\ rt.srcs[f.src].st \in Settled
  /\ IF rt.srcs[f.src].st = "failed" THEN BodyFails(f)
     ELSE LoadsList(f, rt.selection.lists \cap Lists)

\* one list: any of its checks may refuse it, and a terminated Worker reads nothing
ListRead(f) ==
  /\ f.pc = "list" /\ rt.srcs[f.src].st \in Settled
  /\ \/ /\ rt.srcs[f.src].st = "open"
        /\ \E l \in f.todo \cap rt.srcs[f.src].lists : LoadsList(f, f.todo \ {l})
     \/ BodyFails(f)

\* disposeWhenIdle: the engine being dropped lets a running screen finish
Drained(f) ==
  /\ f.pc = "drain"
  /\ screenOn = 0 \/ (f.kind = "reload" /\ screenOn # f.old)
  /\ CASE f.kind = "reload" ->
            /\ rt' = Evicted(rt)
            /\ GoesTo(f, [f EXCEPT !.pc = "evict", !.src = rt.memo])
            /\ UNCHANGED <<queue, call>>
       [] f.kind = "dispose" -> rt' = TornDown(EngineGone(rt)) /\ Finished(f, "ok")
       [] f.kind = "clear" ->
            /\ rt' = EngineGone(rt) /\ GoesTo(f, [f EXCEPT !.pc = "clearing"])
            /\ UNCHANGED <<queue, call>>

\* the source taken out of the memo has opened and been terminated, or has failed
SourceEvicted(f) ==
  /\ f.pc = "evict" /\ (IF f.src = 0 THEN TRUE ELSE rt.srcs[f.src].st \in Settled)
  /\ IF f.kind = "reload" THEN LoadsCatalog(f, rt)
     ELSE GoesTo(f, [f EXCEPT !.pc = "drain"]) /\ UNCHANGED <<rt, queue, call>>

\* clearBundleStore answers, refuses or passes its bound: the memo is reset either way
Cleared(f) ==
  /\ f.pc = "clearing"
  /\ \/ rt' = TornDown(rt) /\ Finished(f, "ok")
     \/ BodyFails(f)

\* a read of the catalog: from the memoized source, or from one terminated right after
CatalogAnswered(f) ==
  /\ f.pc \in {"read", "own"} /\ rt.srcs[f.src].st \in Settled
  /\ Finished(f, IF rt.srcs[f.src].st = "failed" THEN "failed" ELSE "ok")
  /\ rt' = IF f.pc = "own" THEN Doomed(rt, f.src) ELSE rt

BodyStep(f) ==
  /\ UNCHANGED screenOn
  /\ \/ WarmUp(f) \/ CatalogRead(f) \/ ListRead(f) \/ Drained(f)
     \/ SourceEvicted(f) \/ Cleared(f) \/ CatalogAnswered(f)

\* openBundleSource resolves or rejects; the catch of #bundleSourceFor then clears
\* the memo, whatever it holds by then
SourceSettles(s) ==
  /\ \/ /\ rt.srcs[s].st \in {"opening", "doomed"}
        /\ rt' = [rt EXCEPT !.srcs[s].st = "failed",
                            !.memo = IF rt.srcs[s].shared THEN 0 ELSE @]
     \/ /\ rt.srcs[s].st = "opening"
        /\ rt' = [rt EXCEPT !.srcs[s].st = "open"]
     \/ /\ rt.srcs[s].st = "doomed"
        /\ rt' = [rt EXCEPT !.srcs[s].st = "disposed"]
  /\ UNCHANGED <<queue, work, call, screenOn>>

\* a screen of the ready engine; one that is being dropped refuses new screens
ScreenStarts ==
  /\ rt.ready # NoEngine /\ screenOn = 0 /\ ~\E f \in work : f.pc = "drain"
  /\ screenOn' = rt.ready.id /\ UNCHANGED <<rt, queue, work, call>>
ScreenEnds ==
  /\ screenOn # 0 /\ screenOn' = 0 /\ UNCHANGED <<rt, queue, work, call>>

QueueStep == StartNext \/ AbortWins \/ BootTimesOut
RuntimeNext ==
  \/ PageCalls \/ QueueStep
  \/ \E f \in work : BodyStep(f)
  \/ \E s \in DOMAIN rt.srcs : SourceSettles(s)
  \/ ScreenStarts \/ ScreenEnds

\* A body whose awaited value is there goes on; an open settles (the storage Worker
\* bounds its silence); a screen ends. Nothing makes the page call.
RuntimeFairness ==
  /\ WF_runtimeVars(QueueStep)
  /\ \A i \in Calls : WF_runtimeVars(\E f \in work : f.id = i /\ BodyStep(f))
  /\ \A s \in 1..(3 * MaxCalls) : WF_runtimeVars(s \in DOMAIN rt.srcs /\ SourceSettles(s))
  /\ WF_runtimeVars(ScreenEnds)

RuntimeSpec == RuntimeInit /\ [][RuntimeNext]_runtimeVars /\ RuntimeFairness

-----------------------------------------------------------------------------
(* Type invariant and properties.                                            *)

RuntimeTypeOK ==
  /\ rt.memo \in 0..Len(rt.srcs) /\ rt.model \in 0..Len(rt.models)
  /\ \A s \in DOMAIN rt.srcs : rt.srcs[s].st \in Settled \cup {"opening", "doomed"}
  /\ rt.abort \in {0} \cup Calls /\ rt.promise \in {0} \cup Calls
  /\ \A f \in work : f.id \in Calls /\ f.src \in 0..Len(rt.srcs)
  /\ screenOn \in {0} \cup Calls

\* The engine a page screens with is the one its boot promise stands for, over the
\* model that is still running: no superseded build publishes, and nothing ends the
\* model under a ready engine, unless a dispose or clear is on its way to drop it.
EngineIsCurrent ==
  rt.ready # NoEngine /\ ~TearingDown =>
    /\ rt.ready.id = rt.promise
    /\ rt.ready.model = rt.model /\ rt.models[rt.model] = "live"
    /\ rt.srcs[rt.ready.src].st = "open"

\* At most one model runs in the tab, and it is the one the object would end: a boot
\* given up during its download leaves no second WASM heap behind.
OneModel == \A m \in DOMAIN rt.models : rt.models[m] = "live" => m = rt.model

\* Every call settles, whatever fails or loses its race before it in the queue: a moment
\* without a pending one always comes.
NoCallPending == \A i \in Calls : call[i] # "pending"
CallsSettle == []<>NoCallPending

\* runtime.ts:509-517: dispose releases what the page holds. When nothing is under way
\* and no engine is promised, no source's Worker is left running that the object has
\* lost sight of.
NoLostSource ==
  queue = <<>> /\ work = {} =>
    \A s \in DOMAIN rt.srcs : rt.srcs[s].st = "open" => s = rt.memo
=============================================================================
