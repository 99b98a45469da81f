---------------------------- MODULE EngineProofs ----------------------------
(* The engine runtime, for any lists, selections and number of calls: types,    *)
(* that one model lives, and that the engine that is ready is the one that was  *)
(* promised last, although builds that were given up go on.  And the query      *)
(* index of a list, for any tabs, lists, contents and batch size: its types,    *)
(* and that a query is answered from the rows of the list it was loaded with.   *)
EXTENDS EngineRuntime, ListIndex, FiniteSetTheorems, FunctionTheorems, TLAPS

-----------------------------------------------------------------------------
(* The runtime.                                                              *)


\* The kinds of calls, the selections they carry, and the sets of lists a source can be
\* of.
AllKinds == {"boot", "dispose", "clear", "reload", "catalog", "only", "poll"}
Sels == Selections \cup {[lists |-> Lists, streaming |-> FALSE]}
ListSets == {sel.lists : sel \in Sels} \cup {{}}

\* The records of the objects of the runtime, whole: sources, calls in the queue,
\* engines, the object itself, and the bodies at work.
Sources == [st: Settled \cup {"opening", "doomed"}, lists: ListSets, shared: BOOLEAN]
Ops == [kind: AllKinds, id: Calls, sel: Sels, gen: Nat]
Engines == [id: {0} \cup Calls, src: Nat, model: Nat, gen: Nat]
Objects == [memo: Nat, srcs: Seq(Sources), model: Nat, models: Seq({"live", "ended"}),
            gen: Nat, abort: {0} \cup Calls, aborted: SUBSET Calls, promise: {0} \cup Calls,
            reload: {0} \cup Calls, ready: Engines, config: BOOLEAN, selection: Sels]
Bodies == [id: Calls, kind: AllKinds,
           pc: {"warm", "catalog", "list", "drain", "evict", "clearing", "read", "own"},
           gen: Nat, src: Nat, model: Nat, todo: SUBSET Lists, old: {0} \cup Calls]

\* Where a body of each kind can be.
Doing(f) ==
  /\ f.pc = "warm" => f.kind = "boot"
  /\ f.pc \in {"catalog", "list"} => f.kind \in {"boot", "reload"}
  /\ f.pc \in {"drain", "evict"} => f.kind \in {"reload", "dispose", "clear"}
  /\ f.pc = "clearing" => f.kind = "clear"
  /\ f.pc = "read" => f.kind = "catalog"
  /\ f.pc = "own" => f.kind \in {"only", "poll"}

\* The memoised source is there, shared, and neither failed nor given up.
MemoIsGood(r) ==
  r.memo # 0 =>
    /\ r.memo \in DOMAIN r.srcs /\ r.srcs[r.memo].shared
    /\ r.srcs[r.memo].st \in {"opening", "open"}

\* The model that is held is the one that lives, and the only one.
ModelIsOne(r) ==
  /\ r.model \in 0..Len(r.models)
  /\ \A m \in DOMAIN r.models : r.models[m] = "live" <=> m = r.model
ObjectInv(r) == r \in Objects /\ MemoIsGood(r) /\ ModelIsOne(r)

\* A body is of its kind, its source exists, and what an own catalogue reads is its own.
BodyTyped(f, r) ==
  /\ f \in Bodies /\ Doing(f) /\ f.src \in 0..Len(r.srcs)
  /\ f.pc = "own" => f.src # 0 /\ ~r.srcs[f.src].shared
Results == {"none", "pending", "ok", "failed"}

\* Everything but the order of things: types, the memo and the one model.
RuntimeTypes ==
  /\ ObjectInv(rt) /\ queue \in Seq(Ops)
  /\ call \in [Calls -> Results]
  /\ \A f \in work : BodyTyped(f, rt)
  /\ screenOn \in {0} \cup Calls
  /\ rt.ready # NoEngine => rt.ready.id \in Calls

\* A call in the queue is pending and in it once. A boot is the one a page may give up,
\* or it has been given up and its generation is past; nothing that replaces the engine
\* stands before it. A reload is the one that is promised.
OpInv(k) ==
  LET op == queue[k] IN
  /\ call[op.id] = "pending"
  /\ \A j \in DOMAIN queue : queue[j].id = op.id => j = k
  /\ op.kind = "boot" =>
       /\ IF rt.abort = op.id THEN rt.promise = op.id /\ op.gen = rt.gen ELSE op.gen < rt.gen
       /\ \A j \in 1..(k-1) : queue[j].kind \notin {"reload", "dispose", "clear"}
  /\ op.kind = "reload" => rt.reload = op.id
  /\ op.id \in rt.aborted => op.kind = "boot" /\ op.gen < rt.gen

\* The boot that can be given up is in the queue, and only what was asked for is given
\* up.
QueueInv ==
  /\ \A k \in DOMAIN queue : OpInv(k)
  /\ rt.abort # 0 => \E k \in DOMAIN queue : queue[k].kind = "boot" /\ queue[k].id = rt.abort
  /\ \A i \in rt.aborted : call[i] # "none"

\* A body that reads the lists.
Loading(f) == f.pc \in {"catalog", "list"}

\* A body of anything but a boot is that of the running call; a boot that no longer runs
\* is of a past generation. A boot of this generation, and a reload, hold the model that
\* is held now; while they read and are not outdated, their source is shared and nobody
\* has given it up.
BodyInv(f) ==
  /\ call[f.id] # "none"
  /\ f.kind # "boot" => Running(f.id)
  /\ Running(f.id) => Head(queue).kind = f.kind /\ Head(queue).gen = f.gen
  /\ \A k \in DOMAIN queue : queue[k].id = f.id => k = 1
  /\ f.kind = "boot" =>
       /\ f.gen <= rt.gen /\ (~Running(f.id) => f.gen < rt.gen)
       /\ f.gen = rt.gen => f.model = rt.model /\ rt.model # 0
  /\ f.kind = "reload" =>
       /\ rt.ready = NoEngine /\ rt.model # 0
       /\ Loading(f) => f.model = rt.model
  /\ Loading(f) /\ Current(f) =>
       /\ f.src # 0 /\ rt.srcs[f.src].shared
       /\ rt.srcs[f.src].st \in {"opening", "open", "failed"}
  /\ f.pc = "clearing" => rt.ready = NoEngine

\* And no call has two bodies.
WorkInv ==
  /\ \A f \in work : BodyInv(f)
  /\ \A f, g \in work : f.id = g.id => f = g

\* The engine that is ready came of a call that has left the queue, over a source that is
\* shared; until a teardown begins it is the one the promise stands for, with the model
\* that is held, its source open.
ReadyInv ==
  rt.ready # NoEngine =>
    /\ rt.ready.src \in DOMAIN rt.srcs /\ rt.srcs[rt.ready.src].shared
    /\ call[rt.ready.id] # "none"
    /\ \A k \in DOMAIN queue : queue[k].id # rt.ready.id
    /\ \/ TearingDown
       \/ /\ rt.ready.id = rt.promise /\ rt.ready.model = rt.model /\ rt.model # 0
          /\ rt.srcs[rt.ready.src].st = "open"

-----------------------------------------------------------------------------
\* Everything of the object but what it owns.
Rest(r) == <<r.gen, r.abort, r.aborted, r.promise, r.reload, r.ready, r.config, r.selection>>

\* No source changes (SrcsKept); of the shared ones only the memoised one does (SrcsGo).
SrcsKept(r, q) ==
  /\ Len(r.srcs) <= Len(q.srcs)
  /\ \A s \in DOMAIN r.srcs : q.srcs[s] = r.srcs[s]
SrcsGo(r, q) ==
  /\ Len(r.srcs) <= Len(q.srcs)
  /\ \A s \in DOMAIN r.srcs :
       /\ q.srcs[s].shared = r.srcs[s].shared
       /\ r.srcs[s].shared /\ s # r.memo => q.srcs[s].st = r.srcs[s].st

\* An element of a sequence is replaced.
LEMMA ReplacedIn ==
    ASSUME NEW S, NEW q \in Seq(S), NEW i \in DOMAIN q, NEW e \in S
    PROVE  /\ [q EXCEPT ![i] = e] \in Seq(S) /\ Len([q EXCEPT ![i] = e]) = Len(q)
           /\ \A j \in DOMAIN q : [q EXCEPT ![i] = e][j] = IF j = i THEN e ELSE q[j]
OBVIOUS

\* A function on the places of a sequence is a sequence.
LEMMA MappedIn ==
    ASSUME NEW S, NEW q \in Seq(S), NEW t \in [DOMAIN q -> S]
    PROVE  t \in Seq(S) /\ Len(t) = Len(q) /\ DOMAIN t = DOMAIN q
OBVIOUS

\* What an append leaves, and what it adds.
LEMMA AppendedTo ==
    ASSUME NEW S, NEW q \in Seq(S), NEW e \in S
    PROVE  /\ Append(q, e) \in Seq(S) /\ Len(Append(q, e)) = Len(q) + 1
           /\ DOMAIN q \subseteq DOMAIN Append(q, e)
           /\ DOMAIN Append(q, e) = 1..(Len(q) + 1)
           /\ \A j \in DOMAIN q : Append(q, e)[j] = q[j]
           /\ Append(q, e)[Len(q) + 1] = e
OBVIOUS

\* disposeBundleSource ends one source and touches nothing else (runtime.ts:817-829).
LEMMA DoomedFacts ==
    ASSUME NEW r \in Objects, NEW s \in 0..Len(r.srcs)
    PROVE  /\ Doomed(r, s) \in Objects /\ Rest(Doomed(r, s)) = Rest(r)
           /\ Doomed(r, s).memo = r.memo
           /\ Doomed(r, s).model = r.model /\ Doomed(r, s).models = r.models
           /\ Len(Doomed(r, s).srcs) = Len(r.srcs)
           /\ \A x \in DOMAIN r.srcs :
                /\ Doomed(r, s).srcs[x].shared = r.srcs[x].shared
                /\ x # s => Doomed(r, s).srcs[x] = r.srcs[x]
<1>1. CASE s = 0
  BY <1>1 DEF Doomed
<1>2. CASE s # 0
  <2> DEFINE st == CASE r.srcs[s].st = "opening" -> "doomed"
                     [] r.srcs[s].st = "open"    -> "disposed"
                     [] OTHER                    -> r.srcs[s].st
             e == [r.srcs[s] EXCEPT !.st = st]
             q == [r EXCEPT !.srcs = [r.srcs EXCEPT ![s] = e]]
  <2>1. r.srcs \in Seq(Sources) /\ s \in DOMAIN r.srcs
    BY <1>2 DEF Objects
  <2>2. r.srcs[s] \in Sources
    BY <2>1
  <2>3. st \in Settled \cup {"opening", "doomed"}
    BY <2>2 DEF Sources, Settled
  <2>4. Doomed(r, s) = q
    BY <1>2 DEF Doomed
  <2> HIDE DEF st
  <2>5. e \in Sources /\ e.shared = r.srcs[s].shared
    BY <2>2, <2>3 DEF Sources
  <2> HIDE DEF e
  <2> DEFINE x == [r.srcs EXCEPT ![s] = e]
  <2>6. /\ x \in Seq(Sources) /\ Len(x) = Len(r.srcs)
        /\ \A j \in DOMAIN r.srcs : x[j] = IF j = s THEN e ELSE r.srcs[j]
    BY <2>1, <2>5, ReplacedIn
  <2>7. q = [r EXCEPT !.srcs = x]
    OBVIOUS
  <2> HIDE DEF x, q
  <2>8. q \in Objects /\ q.srcs = x /\ Rest(q) = Rest(r) /\ q.memo = r.memo
        /\ q.model = r.model /\ q.models = r.models
    BY <2>6, <2>7 DEF Objects, Rest
  <2> QED BY <2>4, <2>5, <2>6, <2>8
<1> QED BY <1>1, <1>2

\* abortBootIfActive's eviction empties the memo (runtime.ts:811-815).
LEMMA EvictedFacts ==
    ASSUME NEW r, ObjectInv(r)
    PROVE  /\ ObjectInv(Evicted(r)) /\ Rest(Evicted(r)) = Rest(r) /\ Evicted(r).memo = 0
           /\ Evicted(r).model = r.model /\ Evicted(r).models = r.models
           /\ SrcsGo(r, Evicted(r)) /\ Len(Evicted(r).srcs) = Len(r.srcs)
<1>1. r \in Objects /\ r.memo \in 0..Len(r.srcs)
  <2>1. r \in Objects /\ r.srcs \in Seq(Sources)
    BY DEF ObjectInv, Objects
  <2> QED BY <2>1 DEF ObjectInv, MemoIsGood
<1> DEFINE d == Doomed(r, r.memo)
<1>2. /\ d \in Objects /\ Rest(d) = Rest(r) /\ d.memo = r.memo
      /\ d.model = r.model /\ d.models = r.models /\ Len(d.srcs) = Len(r.srcs)
      /\ \A x \in DOMAIN r.srcs :
           d.srcs[x].shared = r.srcs[x].shared /\ (x # r.memo => d.srcs[x] = r.srcs[x])
  BY <1>1, DoomedFacts
<1>3. Evicted(r) = [d EXCEPT !.memo = 0]
  BY DEF Evicted
<1> HIDE DEF d
<1> DEFINE q == [d EXCEPT !.memo = 0]
<1>4. q \in Objects /\ Rest(q) = Rest(d) /\ q.memo = 0 /\ q.srcs = d.srcs
      /\ q.model = d.model /\ q.models = d.models
  BY <1>2 DEF Objects, Rest
<1> HIDE DEF q
<1>5. ObjectInv(q)
  BY <1>2, <1>4 DEF ObjectInv, MemoIsGood, ModelIsOne
<1>6. SrcsGo(r, q)
  <2>1. Len(q.srcs) = Len(r.srcs) /\ Len(r.srcs) \in Nat
    BY <1>1, <1>2, <1>4 DEF Objects
  <2> QED BY <1>2, <1>4, <2>1 DEF SrcsGo
<1> QED BY <1>2, <1>3, <1>4, <1>5, <1>6 DEF q

\* disposeEmbedder leaves no model (runtime.ts:796-799).
LEMMA ModelGoneFacts ==
    ASSUME NEW r, ObjectInv(r)
    PROVE  /\ ObjectInv(ModelGone(r)) /\ Rest(ModelGone(r)) = Rest(r)
           /\ ModelGone(r).memo = r.memo /\ ModelGone(r).srcs = r.srcs /\ ModelGone(r).model = 0
<1> DEFINE e == [m \in DOMAIN r.models |-> IF m = r.model THEN "ended" ELSE r.models[m]]
           p == [r EXCEPT !.models = e]
           q == [p EXCEPT !.model = 0]
<1>1. r \in Objects /\ r.models \in Seq({"live", "ended"})
  BY DEF ObjectInv, Objects
<1>2. e \in [DOMAIN r.models -> {"live", "ended"}]
  BY <1>1
<1>3. e \in Seq({"live", "ended"}) /\ Len(e) = Len(r.models) /\ DOMAIN e = DOMAIN r.models
  BY <1>1, <1>2, MappedIn
<1>4. \A m \in DOMAIN e : e[m] # "live"
  BY <1>1 DEF ObjectInv, ModelIsOne
<1>5. ModelGone(r) = q
  BY DEF ModelGone
<1> HIDE DEF e
<1>6. p \in Objects /\ Rest(p) = Rest(r) /\ p.memo = r.memo /\ p.srcs = r.srcs /\ p.models = e
  BY <1>1, <1>3 DEF Objects, Rest
<1> HIDE DEF p
<1>7. q \in Objects /\ Rest(q) = Rest(p) /\ q.memo = p.memo /\ q.srcs = p.srcs /\ q.models = p.models
      /\ q.model = 0
  BY <1>6 DEF Objects, Rest
<1> HIDE DEF q
<1>8. ModelIsOne(q)
  <2>1. 0 \notin DOMAIN e /\ Len(e) \in Nat
    BY <1>3
  <2> QED BY <1>4, <1>6, <1>7, <2>1 DEF ModelIsOne
<1>9. MemoIsGood(q)
  BY <1>6, <1>7 DEF ObjectInv, MemoIsGood
<1> QED BY <1>5, <1>6, <1>7, <1>8, <1>9 DEF ObjectInv

\* A build takes the model that lives or makes one (runtime.ts:1019-1031).
LEMMA ModelHeldFacts ==
    ASSUME NEW r, ObjectInv(r)
    PROVE  /\ ObjectInv(ModelHeld(r)) /\ Rest(ModelHeld(r)) = Rest(r)
           /\ ModelHeld(r).memo = r.memo /\ ModelHeld(r).srcs = r.srcs
           /\ ModelHeld(r).model # 0 /\ (r.model # 0 => ModelHeld(r).model = r.model)
<1>1. CASE r.model # 0
  BY <1>1 DEF ModelHeld
<1>2. CASE r.model = 0
  <2> DEFINE e == Append(r.models, "live")
             n == Len(r.models) + 1
             p == [r EXCEPT !.models = e]
             q == [p EXCEPT !.model = n]
  <2>1. r \in Objects /\ r.models \in Seq({"live", "ended"})
    BY DEF ObjectInv, Objects
  <2>2. /\ e \in Seq({"live", "ended"}) /\ Len(e) = n /\ DOMAIN e = 1..n /\ n \in Nat \ {0}
        /\ \A m \in DOMAIN r.models : e[m] = r.models[m]
        /\ e[n] = "live" /\ DOMAIN r.models = 1..(n - 1)
    BY <2>1, AppendedTo
  <2>3. \A m \in DOMAIN r.models : r.models[m] # "live"
    BY <1>2, <2>1 DEF ObjectInv, ModelIsOne
  <2>4. ModelHeld(r) = q
    BY <1>2 DEF ModelHeld
  <2> HIDE DEF e, n
  <2>5. p \in Objects /\ Rest(p) = Rest(r) /\ p.memo = r.memo /\ p.srcs = r.srcs /\ p.models = e
    BY <2>1, <2>2 DEF Objects, Rest
  <2> HIDE DEF p
  <2>6. q \in Objects /\ Rest(q) = Rest(p) /\ q.memo = p.memo /\ q.srcs = p.srcs /\ q.models = p.models
        /\ q.model = n
    BY <2>2, <2>5 DEF Objects, Rest
  <2> HIDE DEF q
  <2>7. ModelIsOne(q)
    <3>1. \A m \in 1..n : m \in 1..(n - 1) \/ m = n
      BY <2>2
    <3>2. \A m \in DOMAIN e : e[m] = "live" <=> m = n
      BY <2>2, <2>3, <3>1
    <3> QED BY <2>2, <2>5, <2>6, <3>2 DEF ModelIsOne
  <2>8. MemoIsGood(q)
    BY <2>5, <2>6 DEF ObjectInv, MemoIsGood
  <2> QED BY <1>2, <2>2, <2>4, <2>5, <2>6, <2>7, <2>8 DEF ObjectInv
<1> QED BY <1>1, <1>2

\* A source is opened beside those there are (runtime.ts:895-908).
LEMMA OpenedFacts ==
    ASSUME NEW r, ObjectInv(r), NEW ls \in ListSets, NEW b \in BOOLEAN
    PROVE  /\ ObjectInv(Opened(r, ls, b)) /\ Rest(Opened(r, ls, b)) = Rest(r)
           /\ Opened(r, ls, b).memo = r.memo /\ Opened(r, ls, b).models = r.models
           /\ Opened(r, ls, b).model = r.model
           /\ SrcsKept(r, Opened(r, ls, b)) /\ Len(Opened(r, ls, b).srcs) = Len(r.srcs) + 1
           /\ Opened(r, ls, b).srcs[Len(r.srcs) + 1] = [st |-> "opening", lists |-> ls, shared |-> b]
<1> DEFINE s == [st |-> "opening", lists |-> ls, shared |-> b]
           e == Append(r.srcs, s)
           q == [r EXCEPT !.srcs = e]
<1>1. r \in Objects /\ r.srcs \in Seq(Sources)
  BY DEF ObjectInv, Objects
<1>2. s \in Sources
  BY DEF Sources
<1>3. Opened(r, ls, b) = q
  BY DEF Opened
<1> HIDE DEF s
<1>4. /\ e \in Seq(Sources) /\ Len(e) = Len(r.srcs) + 1 /\ DOMAIN r.srcs \subseteq DOMAIN e
      /\ \A m \in DOMAIN r.srcs : e[m] = r.srcs[m]
      /\ e[Len(r.srcs) + 1] = s /\ Len(r.srcs) \in Nat
  BY <1>1, <1>2, AppendedTo
<1> HIDE DEF e
<1>5. q \in Objects /\ Rest(q) = Rest(r) /\ q.memo = r.memo /\ q.srcs = e /\ q.models = r.models
      /\ q.model = r.model
  BY <1>1, <1>4 DEF Objects, Rest
<1> HIDE DEF q
<1>6. MemoIsGood(q) /\ ModelIsOne(q)
  BY <1>4, <1>5 DEF ObjectInv, MemoIsGood, ModelIsOne
<1>7. SrcsKept(r, q)
  BY <1>4, <1>5 DEF SrcsKept
<1> QED BY <1>3, <1>4, <1>5, <1>6, <1>7 DEF ObjectInv, s

\* bundleSourceFor memoises one source (runtime.ts:887-915).
LEMMA SourceForFacts ==
    ASSUME NEW r, ObjectInv(r)
    PROVE  /\ ObjectInv(SourceFor(r)) /\ Rest(SourceFor(r)) = Rest(r)
           /\ SourceFor(r).models = r.models /\ SourceFor(r).model = r.model
           /\ SrcsKept(r, SourceFor(r)) /\ SourceFor(r).memo # 0
<1>1. CASE r.memo # 0
  BY <1>1 DEF SourceFor, SrcsKept, ObjectInv, Objects
<1>2. CASE r.memo = 0
  <2> DEFINE p == Opened(r, r.selection.lists, TRUE)
             n == Len(r.srcs) + 1
             q == [p EXCEPT !.memo = n]
  <2>1. r.selection.lists \in ListSets
    BY DEF ObjectInv, Objects, ListSets
  <2>2. /\ ObjectInv(p) /\ Rest(p) = Rest(r) /\ p.models = r.models
        /\ p.model = r.model /\ SrcsKept(r, p) /\ Len(p.srcs) = n
        /\ p.srcs[n] = [st |-> "opening", lists |-> r.selection.lists, shared |-> TRUE]
    BY <2>1, OpenedFacts
  <2>4. SourceFor(r) = q
    BY <1>2 DEF SourceFor
  <2> HIDE DEF p
  <2>3. n \in Nat \ {0} /\ p \in Objects /\ n \in DOMAIN p.srcs
    <3>1. r.srcs \in Seq(Sources) /\ p \in Objects /\ p.srcs \in Seq(Sources)
      BY <2>2 DEF ObjectInv, Objects
    <3>2. Len(r.srcs) \in Nat /\ DOMAIN p.srcs = 1..Len(p.srcs)
      BY <3>1
    <3> QED BY <2>2, <3>1, <3>2
  <2> HIDE DEF n
  <2>5. q \in Objects /\ Rest(q) = Rest(p) /\ q.memo = n /\ q.srcs = p.srcs /\ q.models = p.models
      /\ q.model = p.model
    BY <2>3 DEF Objects, Rest
  <2> HIDE DEF q
  <2>6. MemoIsGood(q) /\ ModelIsOne(q)
    BY <2>2, <2>3, <2>5 DEF ObjectInv, MemoIsGood, ModelIsOne
  <2>7. SrcsKept(r, q)
    BY <2>2, <2>5 DEF SrcsKept
  <2> QED BY <2>2, <2>3, <2>4, <2>5, <2>6, <2>7 DEF ObjectInv
<1> QED BY <1>1, <1>2

\* What owns the same is as good.
LEMMA SameOwnings ==
    ASSUME NEW r, ObjectInv(r), NEW q \in Objects,
           q.memo = r.memo, q.srcs = r.srcs, q.model = r.model, q.models = r.models
    PROVE  ObjectInv(q)
BY DEF ObjectInv, MemoIsGood, ModelIsOne

\* A boot is given up: a new generation, no memo, no model (runtime.ts:801-815).
LEMMA BootAbortedFacts ==
    ASSUME NEW r, ObjectInv(r), r.abort # 0
    PROVE  /\ ObjectInv(BootAborted(r)) /\ BootAborted(r).memo = 0 /\ BootAborted(r).model = 0
           /\ Rest(BootAborted(r)) = <<r.gen + 1, 0, r.aborted \cup {r.abort}, r.promise, r.reload,
                                      r.ready, r.config, r.selection>>
           /\ SrcsGo(r, BootAborted(r))
<1> DEFINE p1 == [r EXCEPT !.abort = 0]
           p2 == [p1 EXCEPT !.gen = r.gen + 1]
           p3 == [p2 EXCEPT !.aborted = r.aborted \cup {r.abort}]
<1>1. r \in Objects /\ r.gen + 1 \in Nat /\ r.aborted \cup {r.abort} \in SUBSET Calls
  BY DEF ObjectInv, Objects
<1>2. BootAborted(r) = Evicted(ModelGone(p3))
  BY DEF BootAborted
<1>3. p1 \in Objects /\ p1 = [r EXCEPT !.abort = 0]
  BY <1>1 DEF Objects
<1>4. p2 \in Objects
  BY <1>1, <1>3 DEF Objects
<1>5. p3 \in Objects
  BY <1>1, <1>4 DEF Objects
<1>6. /\ Rest(p3) = <<r.gen + 1, 0, r.aborted \cup {r.abort}, r.promise, r.reload,
                      r.ready, r.config, r.selection>>
      /\ p3.memo = r.memo /\ p3.srcs = r.srcs /\ p3.model = r.model /\ p3.models = r.models
  BY <1>1 DEF Objects, Rest
<1> HIDE DEF p3
<1>7. ObjectInv(p3)
  BY <1>5, <1>6, SameOwnings
<1> DEFINE m == ModelGone(p3)
<1>8. ObjectInv(m) /\ Rest(m) = Rest(p3) /\ m.memo = r.memo /\ m.srcs = r.srcs /\ m.model = 0
  BY <1>6, <1>7, ModelGoneFacts
<1> HIDE DEF m
<1>9. /\ ObjectInv(Evicted(m)) /\ Rest(Evicted(m)) = Rest(m) /\ Evicted(m).memo = 0
      /\ Evicted(m).model = m.model /\ SrcsGo(m, Evicted(m))
  BY <1>8, EvictedFacts
<1>10. SrcsGo(r, Evicted(m))
  BY <1>8, <1>9 DEF SrcsGo
<1> QED BY <1>2, <1>6, <1>8, <1>9, <1>10 DEF m

\* A boot fails: a new generation, no promise, no memo, no model (runtime.ts:599-613).
LEMMA BootFailedFacts ==
    ASSUME NEW r, ObjectInv(r), NEW id, r.abort = id
    PROVE  /\ ObjectInv(BootFailed(r, id)) /\ BootFailed(r, id).memo = 0
           /\ BootFailed(r, id).model = 0
           /\ Rest(BootFailed(r, id)) = <<r.gen + 1, 0, r.aborted, 0, r.reload,
                                         r.ready, FALSE, r.selection>>
           /\ SrcsGo(r, BootFailed(r, id))
<1> DEFINE p1 == [r EXCEPT !.abort = 0]
           p2 == [p1 EXCEPT !.gen = r.gen + 1]
           p3 == [p2 EXCEPT !.config = FALSE]
           p4 == [p3 EXCEPT !.promise = 0]
<1>1. r \in Objects /\ r.gen + 1 \in Nat
  BY DEF ObjectInv, Objects
<1>2. BootFailed(r, id) = Evicted(ModelGone(p4))
  BY DEF BootFailed
<1>3. p1 \in Objects
  BY <1>1 DEF Objects
<1>4. p2 \in Objects
  BY <1>1, <1>3 DEF Objects
<1>5. p3 \in Objects
  BY <1>1, <1>4 DEF Objects
<1>6. p4 \in Objects
  BY <1>1, <1>5 DEF Objects
<1>7. /\ Rest(p4) = <<r.gen + 1, 0, r.aborted, 0, r.reload, r.ready, FALSE, r.selection>>
      /\ p4.memo = r.memo /\ p4.srcs = r.srcs /\ p4.model = r.model /\ p4.models = r.models
  BY <1>1 DEF Objects, Rest
<1> HIDE DEF p4
<1>8. ObjectInv(p4)
  BY <1>6, <1>7, SameOwnings
<1> DEFINE m == ModelGone(p4)
<1>9. ObjectInv(m) /\ Rest(m) = Rest(p4) /\ m.memo = r.memo /\ m.srcs = r.srcs /\ m.model = 0
  BY <1>7, <1>8, ModelGoneFacts
<1> HIDE DEF m
<1>10. /\ ObjectInv(Evicted(m)) /\ Rest(Evicted(m)) = Rest(m) /\ Evicted(m).memo = 0
       /\ Evicted(m).model = m.model /\ SrcsGo(m, Evicted(m))
  BY <1>9, EvictedFacts
<1>11. SrcsGo(r, Evicted(m))
  BY <1>9, <1>10 DEF SrcsGo
<1> QED BY <1>2, <1>7, <1>9, <1>10, <1>11 DEF m

\* A reload fails: no promise and no memo, the model stays (runtime.ts:774-783).
LEMMA ReloadFailedFacts ==
    ASSUME NEW r, ObjectInv(r)
    PROVE  /\ ObjectInv(ReloadFailed(r)) /\ ReloadFailed(r).memo = 0
           /\ ReloadFailed(r).model = r.model /\ ReloadFailed(r).models = r.models
           /\ Rest(ReloadFailed(r)) = <<r.gen, r.abort, r.aborted, 0, 0, r.ready, r.config, r.selection>>
           /\ SrcsGo(r, ReloadFailed(r))
<1> DEFINE m == Evicted(r)
           p1 == [m EXCEPT !.promise = 0]
           p2 == [p1 EXCEPT !.reload = 0]
<1>1. /\ ObjectInv(m) /\ Rest(m) = Rest(r) /\ m.memo = 0 /\ m.model = r.model
      /\ m.models = r.models /\ SrcsGo(r, m)
  BY EvictedFacts
<1>2. ReloadFailed(r) = p2
  BY DEF ReloadFailed
<1> HIDE DEF m
<1>3. m \in Objects
  BY <1>1 DEF ObjectInv
<1>4. p1 \in Objects
  BY <1>3 DEF Objects
<1>5. p2 \in Objects
  BY <1>4 DEF Objects
<1>6. /\ p2.memo = 0 /\ p2.model = m.model /\ p2.models = m.models /\ p2.srcs = m.srcs
      /\ p2.gen = m.gen /\ p2.abort = m.abort /\ p2.aborted = m.aborted /\ p2.promise = 0
      /\ p2.reload = 0 /\ p2.ready = m.ready /\ p2.config = m.config /\ p2.selection = m.selection
  BY <1>1, <1>3 DEF Objects
<1> HIDE DEF p2
<1>7. ObjectInv(p2)
  BY <1>1, <1>5, <1>6, SameOwnings
<1>8. /\ m.gen = r.gen /\ m.abort = r.abort /\ m.aborted = r.aborted /\ m.ready = r.ready
      /\ m.config = r.config /\ m.selection = r.selection
  BY <1>1 DEF Rest
<1>9. SrcsGo(r, p2)
  BY <1>1, <1>6 DEF SrcsGo
<1> QED BY <1>1, <1>2, <1>6, <1>7, <1>8, <1>9 DEF Rest

\* The end of a dispose: no promise (runtime.ts:546-553).
LEMMA TornDownFacts ==
    ASSUME NEW r, ObjectInv(r)
    PROVE  /\ ObjectInv(TornDown(r)) /\ TornDown(r).memo = r.memo /\ TornDown(r).model = r.model
           /\ TornDown(r).models = r.models /\ TornDown(r).srcs = r.srcs
           /\ Rest(TornDown(r)) = <<r.gen, r.abort, r.aborted, 0, r.reload, r.ready, FALSE, r.selection>>
<1> DEFINE p1 == [r EXCEPT !.config = FALSE]
           p2 == [p1 EXCEPT !.promise = 0]
<1>1. r \in Objects
  BY DEF ObjectInv
<1>2. TornDown(r) = p2
  BY DEF TornDown
<1>3. p1 \in Objects
  BY <1>1 DEF Objects
<1>4. p2 \in Objects
  BY <1>3 DEF Objects
<1>5. /\ p2.memo = r.memo /\ p2.model = r.model /\ p2.models = r.models /\ p2.srcs = r.srcs
      /\ Rest(p2) = <<r.gen, r.abort, r.aborted, 0, r.reload, r.ready, FALSE, r.selection>>
  BY <1>1 DEF Objects, Rest
<1> HIDE DEF p2
<1> QED BY <1>2, <1>4, <1>5, SameOwnings

\* The engine and the model are dropped (runtime.ts:515-519).
LEMMA EngineGoneFacts ==
    ASSUME NEW r, ObjectInv(r)
    PROVE  /\ ObjectInv(EngineGone(r)) /\ EngineGone(r).memo = r.memo /\ EngineGone(r).model = 0
           /\ EngineGone(r).srcs = r.srcs
           /\ Rest(EngineGone(r)) = <<r.gen, r.abort, r.aborted, r.promise, r.reload, NoEngine,
                                     r.config, r.selection>>
<1> DEFINE p == [r EXCEPT !.ready = NoEngine]
<1>1. r \in Objects
  BY DEF ObjectInv
<1>2. EngineGone(r) = ModelGone(p)
  BY DEF EngineGone
<1>3. p \in Objects
  BY <1>1 DEF Objects, NoEngine, Engines
<1>4. /\ p.memo = r.memo /\ p.model = r.model /\ p.models = r.models /\ p.srcs = r.srcs
      /\ Rest(p) = <<r.gen, r.abort, r.aborted, r.promise, r.reload, NoEngine, r.config, r.selection>>
  BY <1>1 DEF Objects, Rest
<1> HIDE DEF p
<1>5. ObjectInv(p)
  BY <1>3, <1>4, SameOwnings
<1> QED BY <1>2, <1>4, <1>5, ModelGoneFacts

\* What the object owns.
Owned(r) == <<r.memo, r.srcs, r.model, r.models>>

\* bootstrap promises the call and owns what it owned (runtime.ts:556-591).
LEMMA BootstrapFacts ==
    ASSUME RuntimeTypes, NEW i \in Calls, NEW sel \in Selections, Bootstrap(i, sel)
    PROVE  /\ ObjectInv(rt') /\ Owned(rt') = Owned(rt)
           /\ Rest(rt') = <<rt.gen, i, rt.aborted, i, rt.reload, rt.ready, rt.config, sel>>
<1> DEFINE p1 == [rt EXCEPT !.selection = sel]
           p2 == [p1 EXCEPT !.abort = i]
           p3 == [p2 EXCEPT !.promise = i]
<1>1. rt \in Objects /\ ObjectInv(rt) /\ sel \in Sels
  BY DEF RuntimeTypes, ObjectInv, Sels
<1>2. p1 \in Objects
  BY <1>1 DEF Objects
<1>3. p2 \in Objects
  BY <1>2 DEF Objects
<1>4. p3 \in Objects
  BY <1>3 DEF Objects
<1>5. Owned(p3) = Owned(rt)
      /\ Rest(p3) = <<rt.gen, i, rt.aborted, i, rt.reload, rt.ready, rt.config, sel>>
  BY <1>1 DEF Objects, Rest, Owned
<1>6. rt' = p3
  BY DEF Bootstrap
<1> HIDE DEF p3
<1> QED BY <1>1, <1>4, <1>5, <1>6, SameOwnings DEF Owned

\* reload promises the call of the reload (runtime.ts:709-726).
LEMMA ReloadAskedFacts ==
    ASSUME RuntimeTypes, NEW i \in Calls, NEW sel, Reload(i, sel)
    PROVE  /\ ObjectInv(rt') /\ Owned(rt') = Owned(rt)
           /\ Rest(rt') = <<rt.gen, rt.abort, rt.aborted, rt.promise, i, rt.ready, rt.config, rt.selection>>
<1> DEFINE p == [rt EXCEPT !.reload = i]
<1>1. rt \in Objects /\ ObjectInv(rt)
  BY DEF RuntimeTypes, ObjectInv
<1>2. p \in Objects
  BY <1>1 DEF Objects
<1>3. Owned(p) = Owned(rt)
      /\ Rest(p) = <<rt.gen, rt.abort, rt.aborted, rt.promise, i, rt.ready, rt.config, rt.selection>>
  BY <1>1 DEF Objects, Rest, Owned
<1>4. rt' = p
  BY DEF Reload
<1> HIDE DEF p
<1> QED BY <1>1, <1>2, <1>3, <1>4, SameOwnings DEF Owned

\* A boot begins: it has a model (runtime.ts:993-1018).
LEMMA StartBootFacts ==
    ASSUME RuntimeTypes, NEW op, StartBoot(op)
    PROVE  /\ ObjectInv(rt') /\ rt'.memo = rt.memo /\ rt'.srcs = rt.srcs
           /\ rt'.model # 0 /\ (rt.model # 0 => rt'.model = rt.model)
           /\ Rest(rt') = <<rt.gen, rt.abort, rt.aborted, rt.promise, rt.reload, rt.ready, TRUE, rt.selection>>
<1> DEFINE p == [rt EXCEPT !.config = TRUE]
<1>1. rt \in Objects /\ ObjectInv(rt)
  BY DEF RuntimeTypes, ObjectInv
<1>2. p \in Objects
  BY <1>1 DEF Objects
<1>3. Owned(p) = Owned(rt)
      /\ Rest(p) = <<rt.gen, rt.abort, rt.aborted, rt.promise, rt.reload, rt.ready, TRUE, rt.selection>>
  BY <1>1 DEF Objects, Rest, Owned
<1>4. rt' = ModelHeld(p)
  BY DEF StartBoot
<1> HIDE DEF p
<1>5. ObjectInv(p)
  BY <1>1, <1>2, <1>3, SameOwnings DEF Owned
<1> QED BY <1>3, <1>4, <1>5, ModelHeldFacts DEF Owned

\* A reload begins, or is refused for want of a model or a configuration
\* (runtime.ts:728-752).
LEMMA StartReloadFacts ==
    ASSUME RuntimeTypes, NEW op \in Ops, StartReload(op)
    PROVE  /\ ObjectInv(rt') /\ Owned(rt') = Owned(rt)
           /\ \/ /\ rt.model = 0 \/ ~rt.config
                 /\ CallEnds(op.id, "failed") /\ UNCHANGED work
                 /\ Rest(rt') = <<rt.gen, rt.abort, rt.aborted, rt.promise, 0, rt.ready, rt.config, rt.selection>>
              \/ /\ rt.model # 0 /\ UNCHANGED <<queue, call>>
                 /\ work' = work \cup {[Body(op, "drain", 0) EXCEPT !.old = rt.ready.id]}
                 /\ Rest(rt') = <<rt.gen, rt.abort, rt.aborted, 0, rt.reload, NoEngine, rt.config, op.sel>>
<1>1. rt \in Objects /\ ObjectInv(rt)
  BY DEF RuntimeTypes, ObjectInv
<1>2. CASE rt.model = 0 \/ ~rt.config
  <2> DEFINE p == [rt EXCEPT !.reload = 0]
  <2>1. p \in Objects
    BY <1>1 DEF Objects
  <2>2. Owned(p) = Owned(rt)
        /\ Rest(p) = <<rt.gen, rt.abort, rt.aborted, rt.promise, 0, rt.ready, rt.config, rt.selection>>
    BY <1>1 DEF Objects, Rest, Owned
  <2>3. rt' = p /\ CallEnds(op.id, "failed") /\ UNCHANGED work
    BY <1>2 DEF StartReload
  <2> HIDE DEF p
  <2> QED BY <1>1, <1>2, <2>1, <2>2, <2>3, SameOwnings DEF Owned
<1>3. CASE ~(rt.model = 0 \/ ~rt.config)
  <2> DEFINE p1 == [rt EXCEPT !.selection = op.sel]
             p2 == [p1 EXCEPT !.ready = NoEngine]
             p3 == [p2 EXCEPT !.promise = 0]
  <2>1. op.sel \in Sels /\ NoEngine \in Engines
    BY DEF Ops, NoEngine, Engines
  <2>2. p1 \in Objects
    BY <1>1, <2>1 DEF Objects
  <2>3. p2 \in Objects
    BY <2>1, <2>2 DEF Objects
  <2>4. p3 \in Objects
    BY <2>3 DEF Objects
  <2>5. Owned(p3) = Owned(rt)
        /\ Rest(p3) = <<rt.gen, rt.abort, rt.aborted, 0, rt.reload, NoEngine, rt.config, op.sel>>
    BY <1>1 DEF Objects, Rest, Owned
  <2>6. rt' = p3 /\ UNCHANGED <<queue, call>>
        /\ work' = work \cup {[Body(op, "drain", 0) EXCEPT !.old = rt.ready.id]}
    BY <1>3 DEF StartReload
  <2> HIDE DEF p3
  <2> QED BY <1>1, <1>3, <2>4, <2>5, <2>6, SameOwnings DEF Owned
<1> QED BY <1>2, <1>3

\* A dispose or a clear begins: a new generation and no memo (runtime.ts:503-515).
LEMMA StartTeardownFacts ==
    ASSUME RuntimeTypes, NEW op, StartTeardown(op)
    PROVE  /\ ObjectInv(rt') /\ rt'.memo = 0 /\ rt'.model = rt.model /\ SrcsGo(rt, rt')
           /\ Rest(rt') = <<rt.gen + 1, rt.abort, rt.aborted, rt.promise, rt.reload, rt.ready,
                            rt.config, rt.selection>>
<1> DEFINE p == [rt EXCEPT !.gen = rt.gen + 1]
<1>1. rt \in Objects /\ ObjectInv(rt) /\ rt.gen + 1 \in Nat
  BY DEF RuntimeTypes, ObjectInv, Objects
<1>2. p \in Objects
  BY <1>1 DEF Objects
<1>3. Owned(p) = Owned(rt)
      /\ Rest(p) = <<rt.gen + 1, rt.abort, rt.aborted, rt.promise, rt.reload, rt.ready, rt.config, rt.selection>>
  BY <1>1 DEF Objects, Rest, Owned
<1>4. rt' = Evicted(p)
  BY DEF StartTeardown
<1> HIDE DEF p
<1>5. ObjectInv(p)
  BY <1>1, <1>2, <1>3, SameOwnings DEF Owned
<1>6. /\ ObjectInv(rt') /\ Rest(rt') = Rest(p) /\ rt'.memo = 0 /\ rt'.model = p.model
      /\ SrcsGo(p, rt')
  BY <1>4, <1>5, EvictedFacts
<1>7. SrcsGo(rt, rt')
  BY <1>3, <1>6 DEF SrcsGo, Owned
<1> QED BY <1>3, <1>6, <1>7 DEF Owned

\* A read of the catalogue takes the shared source (runtime.ts:626-663).
LEMMA StartCatalogFacts ==
    ASSUME RuntimeTypes, NEW op, StartCatalog(op)
    PROVE  /\ ObjectInv(rt') /\ rt'.model = rt.model /\ SrcsKept(rt, rt')
           /\ Rest(rt') = <<rt.gen, rt.abort, rt.aborted, rt.promise, rt.reload, rt.ready, TRUE, rt.selection>>
<1> DEFINE p == [rt EXCEPT !.config = TRUE]
<1>1. rt \in Objects /\ ObjectInv(rt)
  BY DEF RuntimeTypes, ObjectInv
<1>2. p \in Objects
  BY <1>1 DEF Objects
<1>3. Owned(p) = Owned(rt)
      /\ Rest(p) = <<rt.gen, rt.abort, rt.aborted, rt.promise, rt.reload, rt.ready, TRUE, rt.selection>>
  BY <1>1 DEF Objects, Rest, Owned
<1>4. rt' = SourceFor(p)
  BY DEF StartCatalog
<1> HIDE DEF p
<1>5. ObjectInv(p)
  BY <1>1, <1>2, <1>3, SameOwnings DEF Owned
<1>6. /\ ObjectInv(rt') /\ Rest(rt') = Rest(p) /\ rt'.model = p.model
      /\ SrcsKept(p, rt')
  BY <1>4, <1>5, SourceForFacts
<1>7. SrcsKept(rt, rt')
  BY <1>3, <1>6 DEF SrcsKept, Owned
<1> QED BY <1>3, <1>6, <1>7 DEF Owned

\* A build that is not outdated publishes its engine (runtime.ts:1086-1112).
LEMMA PublishesFacts ==
    ASSUME RuntimeTypes, NEW f \in Bodies, Publishes(f), Current(f)
    PROVE  /\ ObjectInv(rt') /\ Owned(rt') = Owned(rt) /\ Finished(f, "ok")
           /\ rt'.ready = [id |-> f.id, src |-> f.src, model |-> f.model, gen |-> rt.gen]
           /\ rt'.gen = rt.gen /\ rt'.aborted = rt.aborted
           /\ rt'.abort = IF rt.abort = f.id THEN 0 ELSE rt.abort
           /\ rt'.promise = IF f.kind = "reload" THEN f.id ELSE rt.promise
           /\ rt'.reload = IF rt.reload = f.id THEN 0 ELSE rt.reload
<1> DEFINE e == [id |-> f.id, src |-> f.src, model |-> f.model, gen |-> rt.gen]
           a == IF rt.abort = f.id THEN 0 ELSE rt.abort
           b == IF f.kind = "reload" THEN f.id ELSE rt.promise
           c == IF rt.reload = f.id THEN 0 ELSE rt.reload
           p1 == [rt EXCEPT !.ready = e]
           p2 == [p1 EXCEPT !.abort = a]
           p3 == [p2 EXCEPT !.promise = b]
           p4 == [p3 EXCEPT !.reload = c]
<1>1. rt \in Objects /\ ObjectInv(rt)
  BY DEF RuntimeTypes, ObjectInv
<1>2. e \in Engines /\ a \in {0} \cup Calls /\ b \in {0} \cup Calls /\ c \in {0} \cup Calls
  BY <1>1 DEF Objects, Engines, Bodies
<1>3. rt' = p4 /\ Finished(f, "ok")
  BY DEF Publishes
<1> HIDE DEF e, a, b, c
<1>4. p1 \in Objects
  BY <1>1, <1>2 DEF Objects
<1>5. p2 \in Objects
  BY <1>2, <1>4 DEF Objects
<1>6. p3 \in Objects
  BY <1>2, <1>5 DEF Objects
<1>7. p4 \in Objects
  BY <1>2, <1>6 DEF Objects
<1>8. /\ Owned(p4) = Owned(rt) /\ p4.ready = e /\ p4.gen = rt.gen /\ p4.aborted = rt.aborted
      /\ p4.abort = a /\ p4.promise = b /\ p4.reload = c
  BY <1>1 DEF Objects, Owned
<1> HIDE DEF p4
<1>9. ObjectInv(rt')
  BY <1>1, <1>3, <1>7, <1>8, SameOwnings DEF Owned
<1> QED BY <1>3, <1>8, <1>9 DEF e, a, b, c

\* A source that was opening is open or failed; one that was given up ends
\* (runtime.ts:902-915).
LEMMA SourceSettlesFacts ==
    ASSUME RuntimeTypes, NEW s \in DOMAIN rt.srcs, SourceSettles(s)
    PROVE  /\ ObjectInv(rt') /\ Rest(rt') = Rest(rt) /\ rt'.model = rt.model
           /\ Len(rt'.srcs) = Len(rt.srcs) /\ rt.srcs[s].st \in {"opening", "doomed"}
           /\ \A x \in DOMAIN rt.srcs :
                /\ rt'.srcs[x].shared = rt.srcs[x].shared
                /\ x # s => rt'.srcs[x].st = rt.srcs[x].st
           /\ rt.srcs[s].st = "opening" => rt'.srcs[s].st \in {"open", "failed"}
<1>1. /\ rt \in Objects /\ ObjectInv(rt) /\ rt.srcs \in Seq(Sources)
      /\ rt.srcs[s] \in Sources
  BY DEF RuntimeTypes, ObjectInv, Objects
<1>2. PICK st \in {"failed", "open", "disposed"}, memo \in {rt.memo, 0} :
        /\ rt' = [rt EXCEPT !.srcs[s].st = st, !.memo = memo]
        /\ rt.srcs[s].st \in {"opening", "doomed"}
        /\ st = "failed" => memo = IF rt.srcs[s].shared THEN 0 ELSE rt.memo
        /\ st # "failed" => memo = rt.memo
        /\ st = "open" <=> rt.srcs[s].st = "opening" /\ st # "failed"
  <2>1. CASE /\ rt.srcs[s].st \in {"opening", "doomed"}
             /\ rt' = [rt EXCEPT !.srcs[s].st = "failed",
                                 !.memo = IF rt.srcs[s].shared THEN 0 ELSE @]
    BY <2>1
  <2>2. CASE rt.srcs[s].st = "opening" /\ rt' = [rt EXCEPT !.srcs[s].st = "open"]
    <3>1. rt' = [rt EXCEPT !.srcs[s].st = "open", !.memo = rt.memo]
      BY <1>1, <2>2 DEF Objects
    <3> QED BY <2>2, <3>1
  <2>3. CASE rt.srcs[s].st = "doomed" /\ rt' = [rt EXCEPT !.srcs[s].st = "disposed"]
    <3>1. rt' = [rt EXCEPT !.srcs[s].st = "disposed", !.memo = rt.memo]
      BY <1>1, <2>3 DEF Objects
    <3> QED BY <2>3, <3>1
  <2> QED BY <2>1, <2>2, <2>3 DEF SourceSettles
<1> DEFINE e == [rt.srcs[s] EXCEPT !.st = st]
           x == [rt.srcs EXCEPT ![s] = e]
           p1 == [rt EXCEPT !.srcs = x]
           p2 == [p1 EXCEPT !.memo = memo]
<1>3. e \in Sources /\ e.st = st /\ e.shared = rt.srcs[s].shared
  BY <1>1 DEF Sources, Settled
<1>4. rt' = p2
  BY <1>2
<1> HIDE DEF e
<1>5. /\ x \in Seq(Sources) /\ Len(x) = Len(rt.srcs)
      /\ \A j \in DOMAIN rt.srcs : x[j] = IF j = s THEN e ELSE rt.srcs[j]
  BY <1>1, <1>3, ReplacedIn
<1> HIDE DEF x
<1>6. p1 \in Objects /\ p1.srcs = x /\ Rest(p1) = Rest(rt) /\ p1.model = rt.model
      /\ p1.models = rt.models /\ p1.memo = rt.memo
  BY <1>1, <1>5 DEF Objects, Rest
<1> HIDE DEF p1
<1>7. memo \in Nat
  BY <1>1 DEF Objects
<1>8. p2 \in Objects /\ p2.srcs = x /\ Rest(p2) = Rest(rt) /\ p2.model = rt.model
      /\ p2.models = rt.models /\ p2.memo = memo
  BY <1>6, <1>7 DEF Objects, Rest
<1> HIDE DEF p2
<1>9. ModelIsOne(p2)
  BY <1>1, <1>8 DEF ObjectInv, ModelIsOne
<1>10. MemoIsGood(p2)
  <2>1. DOMAIN x = DOMAIN rt.srcs
    BY <1>1, <1>5
  <2> SUFFICES ASSUME memo # 0
               PROVE  memo \in DOMAIN x /\ x[memo].shared /\ x[memo].st \in {"opening", "open"}
    BY <1>8 DEF MemoIsGood
  <2>2. memo = rt.memo /\ memo \in DOMAIN rt.srcs /\ rt.srcs[memo].shared
        /\ rt.srcs[memo].st \in {"opening", "open"}
    BY <1>1 DEF ObjectInv, MemoIsGood
  <2>3. CASE memo = s
    BY <1>2, <1>3, <1>5, <2>1, <2>2, <2>3
  <2>4. CASE memo # s
    BY <1>5, <2>1, <2>2, <2>4
  <2> QED BY <2>3, <2>4
<1> QED BY <1>2, <1>3, <1>4, <1>5, <1>8, <1>9, <1>10 DEF ObjectInv

\* Sources are never forgotten, and stay shared or not.
SourcesStay(r, q) ==
  /\ Len(r.srcs) <= Len(q.srcs)
  /\ \A s \in DOMAIN r.srcs : q.srcs[s].shared = r.srcs[s].shared

\* Each of these steps forgets no source.
LEMMA WaysToStay ==
    ASSUME NEW r, NEW q, ObjectInv(r), ObjectInv(q),
           \/ SrcsKept(r, q) \/ SrcsGo(r, q) \/ Owned(q) = Owned(r) \/ q.srcs = r.srcs
    PROVE  SourcesStay(r, q)
<1>1. Len(r.srcs) \in Nat
  BY DEF ObjectInv, Objects
<1> QED BY <1>1 DEF SourcesStay, SrcsKept, SrcsGo, Owned

\* A step keeps the types when its parts have them.
LEMMA TypesFrom ==
    ASSUME RuntimeTypes, ObjectInv(rt'), SourcesStay(rt, rt'),
           queue' \in Seq(Ops), call' \in [Calls -> Results],
           \A f \in work' : f \in work \/ BodyTyped(f, rt'),
           screenOn' \in {0} \cup Calls,
           rt'.ready \in {rt.ready, NoEngine} \/ rt'.ready.id \in Calls
    PROVE  RuntimeTypes'
<1>1. ASSUME NEW f \in work' PROVE BodyTyped(f, rt')
  <2>1. CASE f \in work
    <3>1. BodyTyped(f, rt)
      BY <2>1 DEF RuntimeTypes
    <3>2. Len(rt.srcs) \in Nat /\ Len(rt'.srcs) \in Nat /\ DOMAIN rt.srcs = 1..Len(rt.srcs)
      BY DEF RuntimeTypes, ObjectInv, Objects
    <3> QED BY <3>1, <3>2 DEF BodyTyped, SourcesStay
  <2> QED BY <1>1, <2>1
<1>2. rt'.ready # NoEngine => rt'.ready.id \in Calls
  BY DEF RuntimeTypes
<1> QED BY <1>1, <1>2 DEF RuntimeTypes

\* A call is queued.
LEMMA EnqueuedTypes ==
    ASSUME RuntimeTypes, NEW kind \in AllKinds, NEW i \in Calls, NEW sel \in Sels,
           Enqueued(kind, i, sel)
    PROVE  queue' \in Seq(Ops) /\ call' \in [Calls -> Results] /\ UNCHANGED <<work, screenOn>>
<1> DEFINE op == [kind |-> kind, id |-> i, sel |-> sel, gen |-> rt.gen]
<1>1. op \in Ops
  BY DEF RuntimeTypes, ObjectInv, Objects, Ops
<1>2. queue' = Append(queue, op)
  BY DEF Enqueued
<1> HIDE DEF op
<1>3. queue' \in Seq(Ops)
  BY <1>1, <1>2, AppendedTo DEF RuntimeTypes
<1> QED BY <1>3 DEF RuntimeTypes, Enqueued, Results

\* The call at the head of the queue ends.
LEMMA CallEndsTypes ==
    ASSUME RuntimeTypes, queue # <<>>, NEW id, NEW result \in {"ok", "failed"}, CallEnds(id, result)
    PROVE  queue' \in Seq(Ops) /\ call' \in [Calls -> Results]
<1>1. queue \in Seq(Ops) /\ queue' = Tail(queue) /\ call' = [call EXCEPT ![id] = result]
  BY DEF RuntimeTypes, CallEnds
<1>2. Tail(queue) \in Seq(Ops)
  BY <1>1
<1>3. call' \in [Calls -> Results]
  BY <1>1 DEF RuntimeTypes, Results
<1> QED BY <1>1, <1>2, <1>3

\* The body of a call ends.
LEMMA FinishedTypes ==
    ASSUME RuntimeTypes, NEW f, NEW result \in {"ok", "failed"}, Finished(f, result)
    PROVE  queue' \in Seq(Ops) /\ call' \in [Calls -> Results] /\ work' = work \ {f}
<1>1. CASE Running(f.id)
  BY <1>1, CallEndsTypes DEF Finished, Running
<1>2. CASE ~Running(f.id)
  BY <1>2 DEF Finished, RuntimeTypes
<1> QED BY <1>1, <1>2

\* A body fails.
LEMMA BodyFailsTypes ==
    ASSUME RuntimeTypes, NEW f, BodyFails(f), UNCHANGED screenOn
    PROVE  RuntimeTypes'
<1>1. queue' \in Seq(Ops) /\ call' \in [Calls -> Results] /\ work' = work \ {f}
  BY FinishedTypes DEF BodyFails
<1>2. ObjectInv(rt)
  BY DEF RuntimeTypes
<1>3. \/ rt' = rt \/ (rt' = BootFailed(rt, f.id) /\ rt.abort = f.id)
      \/ rt' = ReloadFailed(rt) \/ rt' = TornDown(rt)
  BY DEF BodyFails, BootFailed
<1>4. ObjectInv(rt') /\ SourcesStay(rt, rt') /\ rt'.ready = rt.ready
  <2>1. CASE rt' = rt
    BY <1>2, <2>1, WaysToStay
  <2>2. CASE rt' = BootFailed(rt, f.id) /\ rt.abort = f.id
    <3>1. /\ ObjectInv(rt') /\ SrcsGo(rt, rt')
          /\ Rest(rt') = <<rt.gen + 1, 0, rt.aborted, 0, rt.reload, rt.ready, FALSE, rt.selection>>
      BY <1>2, <2>2, BootFailedFacts
    <3> QED BY <1>2, <3>1, WaysToStay DEF Rest
  <2>3. CASE rt' = ReloadFailed(rt)
    <3>1. /\ ObjectInv(rt') /\ SrcsGo(rt, rt')
          /\ Rest(rt') = <<rt.gen, rt.abort, rt.aborted, 0, 0, rt.ready, rt.config, rt.selection>>
      BY <1>2, <2>3, ReloadFailedFacts
    <3> QED BY <1>2, <3>1, WaysToStay DEF Rest
  <2>4. CASE rt' = TornDown(rt)
    <3>1. /\ ObjectInv(rt') /\ rt'.srcs = rt.srcs
          /\ Rest(rt') = <<rt.gen, rt.abort, rt.aborted, 0, rt.reload, rt.ready, FALSE, rt.selection>>
      BY <1>2, <2>4, TornDownFacts
    <3> QED BY <1>2, <3>1, WaysToStay DEF Rest
  <2> QED BY <1>3, <2>1, <2>2, <2>3, <2>4
<1> QED BY <1>1, <1>4, TypesFrom DEF RuntimeTypes

\* A build publishes its engine, or is outdated.
LEMMA PublishesTypes ==
    ASSUME RuntimeTypes, NEW f \in Bodies, Publishes(f), UNCHANGED screenOn
    PROVE  RuntimeTypes'
<1>1. CASE Current(f)
  <2>1. /\ ObjectInv(rt') /\ Owned(rt') = Owned(rt) /\ Finished(f, "ok")
        /\ rt'.ready = [id |-> f.id, src |-> f.src, model |-> f.model, gen |-> rt.gen]
    BY <1>1, PublishesFacts
  <2>2. queue' \in Seq(Ops) /\ call' \in [Calls -> Results] /\ work' = work \ {f}
    BY <2>1, FinishedTypes
  <2>3. rt'.ready.id \in Calls /\ SourcesStay(rt, rt')
    BY <2>1, WaysToStay DEF Bodies, RuntimeTypes
  <2> QED BY <2>1, <2>2, <2>3, TypesFrom DEF RuntimeTypes
<1>2. CASE ~Current(f)
  BY <1>2, BodyFailsTypes DEF Publishes
<1> QED BY <1>1, <1>2

\* A body goes on to the catalogue.
LEMMA LoadsCatalogTypes ==
    ASSUME RuntimeTypes, NEW f \in work, LoadsCatalog(f, rt), f.kind \in {"boot", "reload"},
           UNCHANGED screenOn
    PROVE  RuntimeTypes'
<1> DEFINE s == SourceFor(rt)
           g == [f EXCEPT !.pc = "catalog", !.src = s.memo, !.model = s.model]
<1>1. ObjectInv(rt) /\ f \in Bodies /\ Doing(f)
  BY DEF RuntimeTypes, BodyTyped
<1>2. ObjectInv(s) /\ Rest(s) = Rest(rt) /\ SrcsKept(rt, s)
  BY <1>1, SourceForFacts
<1>3. rt' = s /\ work' = (work \ {f}) \cup {g} /\ UNCHANGED <<queue, call>>
  BY DEF LoadsCatalog, GoesTo
<1> HIDE DEF s
<1>4. s.memo \in Nat /\ s.model \in Nat /\ s.memo \in 0..Len(s.srcs)
  <2>1. s \in Objects /\ s.srcs \in Seq(Sources)
    BY <1>2 DEF ObjectInv, Objects
  <2> QED BY <1>2, <2>1 DEF ObjectInv, Objects, MemoIsGood
<1>5. BodyTyped(g, s)
  <2>1. g \in Bodies /\ g.pc = "catalog" /\ g.kind = f.kind /\ g.src = s.memo
    BY <1>1, <1>4 DEF Bodies
  <2> HIDE DEF g
  <2> QED BY <1>4, <2>1 DEF BodyTyped, Doing
<1> HIDE DEF g
<1>6. SourcesStay(rt, rt') /\ rt'.ready = rt.ready
  BY <1>1, <1>2, <1>3, WaysToStay DEF Rest
<1> QED BY <1>2, <1>3, <1>5, <1>6, TypesFrom DEF RuntimeTypes

\* A body goes on to the next list, or publishes.
LEMMA LoadsListTypes ==
    ASSUME RuntimeTypes, NEW f \in work, NEW todo \in SUBSET Lists, LoadsList(f, todo),
           f.kind \in {"boot", "reload"}, UNCHANGED screenOn
    PROVE  RuntimeTypes'
<1> DEFINE s == IF rt.selection.streaming THEN rt ELSE SourceFor(rt)
           n == IF rt.selection.streaming THEN f.src ELSE s.memo
           g == [f EXCEPT !.pc = "list", !.todo = todo, !.src = n]
<1>1. ObjectInv(rt) /\ f \in Bodies /\ Doing(f) /\ f.src \in 0..Len(rt.srcs)
  BY DEF RuntimeTypes, BodyTyped
<1>2. CASE todo = {}
  BY <1>1, <1>2, PublishesTypes DEF LoadsList
<1>3. CASE todo # {}
  <2>1. ObjectInv(s) /\ Rest(s) = Rest(rt) /\ SrcsKept(rt, s)
    BY <1>1, SourceForFacts DEF SrcsKept, ObjectInv, Objects
  <2>2. rt' = s /\ work' = (work \ {f}) \cup {g} /\ UNCHANGED <<queue, call>>
    BY <1>3 DEF LoadsList, GoesTo
  <2>3. n = f.src \/ n = s.memo
    OBVIOUS
  <2> HIDE DEF s, n
  <2>4. s.memo \in Nat /\ s.memo \in 0..Len(s.srcs) /\ n \in Nat /\ n \in 0..Len(s.srcs)
    <3>1. s \in Objects /\ s.srcs \in Seq(Sources) /\ rt.srcs \in Seq(Sources)
      BY <1>1, <2>1 DEF ObjectInv, Objects
    <3>2. s.memo \in Nat /\ s.memo \in 0..Len(s.srcs)
      BY <2>1, <3>1 DEF ObjectInv, Objects, MemoIsGood
    <3>3. f.src \in Nat /\ f.src \in 0..Len(s.srcs)
      BY <1>1, <2>1, <3>1 DEF SrcsKept
    <3> QED BY <2>3, <3>2, <3>3
  <2>5. BodyTyped(g, s)
    <3>1. g \in Bodies /\ g.pc = "list" /\ g.kind = f.kind /\ g.src = n
      BY <1>1, <2>4 DEF Bodies
    <3> HIDE DEF g
    <3> QED BY <2>4, <3>1 DEF BodyTyped, Doing
  <2> HIDE DEF g
  <2>6. SourcesStay(rt, rt') /\ rt'.ready = rt.ready
    BY <1>1, <2>1, <2>2, WaysToStay DEF Rest
  <2> QED BY <2>1, <2>2, <2>5, <2>6, TypesFrom DEF RuntimeTypes
<1> QED BY <1>2, <1>3

\* A page calls.
LEMMA PageCallsTypes == ASSUME RuntimeTypes, PageCalls PROVE RuntimeTypes'
<1>1. ObjectInv(rt) /\ rt.selection \in Sels /\ Selections \subseteq Sels
  BY DEF RuntimeTypes, ObjectInv, Objects, Sels
<1>2. PICK i \in NextCall :
        \/ \E sel \in Selections : Bootstrap(i, sel) \/ Reload(i, sel)
        \/ \E kind \in Kinds : Teardown(kind, i) \/ Read(kind, i)
  BY DEF PageCalls
<1>3. i \in Calls
  BY DEF NextCall
<1>4. ASSUME ObjectInv(rt'), SourcesStay(rt, rt'), rt'.ready = rt.ready,
             NEW kind \in AllKinds, NEW sel \in Sels, Enqueued(kind, i, sel)
      PROVE  RuntimeTypes'
  <2>1. queue' \in Seq(Ops) /\ call' \in [Calls -> Results] /\ UNCHANGED <<work, screenOn>>
    BY <1>3, <1>4, EnqueuedTypes
  <2> QED BY <1>4, <2>1, TypesFrom DEF RuntimeTypes
<1>5. ASSUME NEW sel \in Selections, Bootstrap(i, sel) PROVE RuntimeTypes'
  <2>1. /\ ObjectInv(rt') /\ Owned(rt') = Owned(rt)
        /\ Rest(rt') = <<rt.gen, i, rt.aborted, i, rt.reload, rt.ready, rt.config, sel>>
    BY <1>3, <1>5, BootstrapFacts
  <2>2. SourcesStay(rt, rt') /\ rt'.ready = rt.ready
    BY <1>1, <2>1, WaysToStay DEF Rest
  <2>3. Enqueued("boot", i, sel) /\ "boot" \in AllKinds /\ sel \in Sels
    BY <1>1, <1>5 DEF Bootstrap, AllKinds
  <2> QED BY <1>4, <2>1, <2>2, <2>3
<1>6. ASSUME NEW sel \in Selections, Reload(i, sel) PROVE RuntimeTypes'
  <2>1. /\ ObjectInv(rt') /\ Owned(rt') = Owned(rt)
        /\ Rest(rt') = <<rt.gen, rt.abort, rt.aborted, rt.promise, i, rt.ready, rt.config, rt.selection>>
    BY <1>3, <1>6, ReloadAskedFacts
  <2>2. SourcesStay(rt, rt') /\ rt'.ready = rt.ready
    BY <1>1, <2>1, WaysToStay DEF Rest
  <2>3. Enqueued("reload", i, sel) /\ "reload" \in AllKinds /\ sel \in Sels
    BY <1>1, <1>6 DEF Reload, AllKinds
  <2> QED BY <1>4, <2>1, <2>2, <2>3
<1>7. ASSUME NEW kind \in Kinds, Teardown(kind, i) PROVE RuntimeTypes'
  <2>1. Enqueued(kind, i, rt.selection) /\ kind \in AllKinds /\ rt' = BootAborted(rt)
    BY <1>7 DEF Teardown, AllKinds
  <2>2. CASE rt.abort = 0
    <3>1. rt' = rt
      BY <2>1, <2>2 DEF BootAborted
    <3> QED BY <1>1, <1>4, <2>1, <3>1, WaysToStay
  <2>3. CASE rt.abort # 0
    <3>1. /\ ObjectInv(rt') /\ SrcsGo(rt, rt')
          /\ Rest(rt') = <<rt.gen + 1, 0, rt.aborted \cup {rt.abort}, rt.promise, rt.reload,
                           rt.ready, rt.config, rt.selection>>
      BY <1>1, <2>1, <2>3, BootAbortedFacts
    <3>2. SourcesStay(rt, rt') /\ rt'.ready = rt.ready
      BY <1>1, <3>1, WaysToStay DEF Rest
    <3> QED BY <1>1, <1>4, <2>1, <3>1, <3>2
  <2> QED BY <2>2, <2>3
<1>8. ASSUME NEW kind \in Kinds, Read(kind, i) PROVE RuntimeTypes'
  <2>1. Enqueued(kind, i, rt.selection) /\ kind \in AllKinds /\ rt' = rt
    BY <1>8 DEF Read, AllKinds
  <2> QED BY <1>1, <1>4, <2>1, WaysToStay
<1> QED BY <1>2, <1>5, <1>6, <1>7, <1>8

\* The body of a call that begins.
LEMMA NewBody ==
    ASSUME NEW op \in Ops, NEW s \in Nat,
           NEW pc \in {"warm", "drain", "evict", "read", "own"}
    PROVE  /\ Body(op, pc, s) \in Bodies /\ Body(op, pc, s).pc = pc
           /\ Body(op, pc, s).src = s /\ Body(op, pc, s).kind = op.kind
           /\ Body(op, pc, s).id = op.id /\ Body(op, pc, s).gen = op.gen
BY DEF Body, Bodies, Ops

\* The call at the head begins.
LEMMA StartNextTypes == ASSUME RuntimeTypes, StartNext PROVE RuntimeTypes'
<1> DEFINE op == Head(queue)
<1>1. /\ ObjectInv(rt) /\ op \in Ops /\ queue # <<>> /\ UNCHANGED screenOn
      /\ rt.ready.id \in {0} \cup Calls
  BY DEF RuntimeTypes, StartNext, ObjectInv, Objects, Engines
<1>2. StartBoot(op) \/ StartReload(op) \/ StartTeardown(op) \/ StartCatalog(op) \/ StartOwn(op)
  BY DEF StartNext
<1> HIDE DEF op
<1>3. ASSUME ObjectInv(rt'), SourcesStay(rt, rt'), rt'.ready \in {rt.ready, NoEngine},
             UNCHANGED <<queue, call>>, NEW g, work' = work \cup {g}, BodyTyped(g, rt')
      PROVE  RuntimeTypes'
  BY <1>1, <1>3, TypesFrom DEF RuntimeTypes
<1>4. ASSUME ObjectInv(rt'), SourcesStay(rt, rt'), rt'.ready = rt.ready,
             UNCHANGED work, CallEnds(op.id, "failed")
      PROVE  RuntimeTypes'
  <2>1. queue' \in Seq(Ops) /\ call' \in [Calls -> Results]
    BY <1>1, <1>4, CallEndsTypes
  <2> QED BY <1>1, <1>4, <2>1, TypesFrom DEF RuntimeTypes
<1>5. ObjectInv(rt') => rt'.memo \in 0..Len(rt'.srcs) /\ rt'.memo \in Nat /\ rt'.model \in Nat
                        /\ Len(rt'.srcs) \in Nat /\ DOMAIN rt'.srcs = 1..Len(rt'.srcs)
  <2> SUFFICES ASSUME ObjectInv(rt') PROVE rt'.memo \in 0..Len(rt'.srcs) /\ rt'.memo \in Nat
               /\ rt'.model \in Nat /\ Len(rt'.srcs) \in Nat /\ DOMAIN rt'.srcs = 1..Len(rt'.srcs)
    OBVIOUS
  <2>1. rt'.srcs \in Seq(Sources) /\ rt' \in Objects
    BY DEF ObjectInv, Objects
  <2> QED BY <2>1 DEF ObjectInv, Objects, MemoIsGood
<1>6. CASE StartBoot(op)
  <2> DEFINE b == Body(op, "warm", 0)
             g == [b EXCEPT !.model = rt'.model]
  <2>1. /\ ObjectInv(rt') /\ rt'.srcs = rt.srcs
        /\ Rest(rt') = <<rt.gen, rt.abort, rt.aborted, rt.promise, rt.reload, rt.ready, TRUE, rt.selection>>
    BY <1>6, StartBootFacts
  <2>2. SourcesStay(rt, rt') /\ rt'.ready = rt.ready
    BY <1>1, <2>1, WaysToStay DEF Rest
  <2>3. b \in Bodies /\ b.pc = "warm" /\ b.src = 0 /\ b.kind = "boot"
    BY <1>1, <1>6, NewBody DEF StartBoot
  <2>4. work' = work \cup {g} /\ UNCHANGED <<queue, call>>
    BY <1>6 DEF StartBoot
  <2> HIDE DEF b
  <2>5. g \in Bodies /\ g.pc = "warm" /\ g.src = 0 /\ g.kind = "boot"
    BY <1>5, <2>1, <2>3 DEF Bodies
  <2> HIDE DEF g
  <2>6. BodyTyped(g, rt')
    BY <1>5, <2>1, <2>5 DEF BodyTyped, Doing
  <2> QED BY <1>3, <2>1, <2>2, <2>4, <2>6
<1>7. CASE StartReload(op)
  <2> DEFINE b == Body(op, "drain", 0)
             g == [b EXCEPT !.old = rt.ready.id]
  <2>1. /\ ObjectInv(rt') /\ Owned(rt') = Owned(rt)
        /\ \/ /\ CallEnds(op.id, "failed") /\ UNCHANGED work
              /\ Rest(rt') = <<rt.gen, rt.abort, rt.aborted, rt.promise, 0, rt.ready, rt.config, rt.selection>>
           \/ /\ UNCHANGED <<queue, call>> /\ work' = work \cup {g}
              /\ Rest(rt') = <<rt.gen, rt.abort, rt.aborted, 0, rt.reload, NoEngine, rt.config, op.sel>>
    BY <1>1, <1>7, StartReloadFacts
  <2>2. SourcesStay(rt, rt')
    BY <1>1, <2>1, WaysToStay
  <2>3. b \in Bodies /\ b.pc = "drain" /\ b.src = 0 /\ b.kind = "reload"
    BY <1>1, <1>7, NewBody DEF StartReload
  <2> HIDE DEF b
  <2>4. g \in Bodies /\ g.pc = "drain" /\ g.src = 0 /\ g.kind = "reload"
    BY <1>1, <2>3 DEF Bodies
  <2> HIDE DEF g
  <2>5. BodyTyped(g, rt')
    BY <1>5, <2>1, <2>4 DEF BodyTyped, Doing
  <2>6. CASE CallEnds(op.id, "failed") /\ UNCHANGED work /\ rt'.ready = rt.ready
    BY <1>4, <2>1, <2>2, <2>6
  <2>7. CASE UNCHANGED <<queue, call>> /\ work' = work \cup {g} /\ rt'.ready = NoEngine
    BY <1>3, <2>1, <2>2, <2>5, <2>7
  <2> QED BY <2>1, <2>6, <2>7 DEF Rest
<1>8. CASE StartTeardown(op)
  <2> DEFINE g == Body(op, "evict", rt.memo)
  <2>1. /\ ObjectInv(rt') /\ SrcsGo(rt, rt')
        /\ Rest(rt') = <<rt.gen + 1, rt.abort, rt.aborted, rt.promise, rt.reload, rt.ready,
                         rt.config, rt.selection>>
    BY <1>8, StartTeardownFacts
  <2>2. SourcesStay(rt, rt') /\ rt'.ready = rt.ready
    BY <1>1, <2>1, WaysToStay DEF Rest
  <2>3. rt.memo \in Nat /\ rt.memo \in 0..Len(rt'.srcs)
    <3>1. rt.srcs \in Seq(Sources) /\ rt \in Objects
      BY <1>1 DEF ObjectInv, Objects
    <3>2. rt.memo \in Nat /\ rt.memo \in 0..Len(rt.srcs)
      BY <1>1, <3>1 DEF ObjectInv, Objects, MemoIsGood
    <3> QED BY <1>5, <2>1, <2>2, <3>1, <3>2 DEF SourcesStay
  <2>4. g \in Bodies /\ g.pc = "evict" /\ g.src = rt.memo /\ g.kind \in {"dispose", "clear"}
    BY <1>1, <1>8, <2>3, NewBody DEF StartTeardown
  <2>5. work' = work \cup {g} /\ UNCHANGED <<queue, call>>
    BY <1>8 DEF StartTeardown
  <2> HIDE DEF g
  <2>6. BodyTyped(g, rt')
    BY <2>3, <2>4 DEF BodyTyped, Doing
  <2> QED BY <1>3, <2>1, <2>2, <2>5, <2>6
<1>9. CASE StartCatalog(op)
  <2> DEFINE g == Body(op, "read", rt'.memo)
  <2>1. /\ ObjectInv(rt') /\ SrcsKept(rt, rt')
        /\ Rest(rt') = <<rt.gen, rt.abort, rt.aborted, rt.promise, rt.reload, rt.ready, TRUE, rt.selection>>
    BY <1>9, StartCatalogFacts
  <2>2. SourcesStay(rt, rt') /\ rt'.ready = rt.ready
    BY <1>1, <2>1, WaysToStay DEF Rest
  <2>3. g \in Bodies /\ g.pc = "read" /\ g.src = rt'.memo /\ g.kind = "catalog"
    BY <1>1, <1>5, <1>9, <2>1, NewBody DEF StartCatalog
  <2>4. work' = work \cup {g} /\ UNCHANGED <<queue, call>>
    BY <1>9 DEF StartCatalog
  <2> HIDE DEF g
  <2>5. BodyTyped(g, rt')
    BY <1>5, <2>1, <2>3 DEF BodyTyped, Doing
  <2> QED BY <1>3, <2>1, <2>2, <2>4, <2>5
<1>10. CASE StartOwn(op)
  <2>1. CASE op.kind = "poll" /\ ~rt.config
    <3>1. rt' = rt /\ UNCHANGED work /\ CallEnds(op.id, "failed")
      BY <1>10, <2>1 DEF StartOwn
    <3> QED BY <1>1, <1>4, <3>1, WaysToStay
  <2>2. CASE ~(op.kind = "poll" /\ ~rt.config)
    <3> DEFINE n == Len(rt'.srcs)
               g == Body(op, "own", n)
    <3>1. rt' = Opened(rt, {}, FALSE) /\ work' = work \cup {g} /\ UNCHANGED <<queue, call>>
          /\ op.kind \in {"only", "poll"}
      BY <1>10, <2>2 DEF StartOwn
    <3>2. /\ ObjectInv(rt') /\ Rest(rt') = Rest(rt) /\ SrcsKept(rt, rt')
          /\ Len(rt'.srcs) = Len(rt.srcs) + 1
          /\ rt'.srcs[Len(rt.srcs) + 1] = [st |-> "opening", lists |-> {}, shared |-> FALSE]
      <4>1. {} \in ListSets
        BY DEF ListSets
      <4> QED BY <1>1, <3>1, <4>1, OpenedFacts
    <3>3. Len(rt.srcs) \in Nat
      BY <1>1 DEF ObjectInv, Objects
    <3>4. SourcesStay(rt, rt') /\ rt'.ready = rt.ready
      BY <1>1, <3>2, WaysToStay DEF Rest
    <3>5. g \in Bodies /\ g.pc = "own" /\ g.src = n /\ g.kind = op.kind
      BY <1>1, <3>2, <3>3, NewBody
    <3> HIDE DEF g
    <3>6. BodyTyped(g, rt')
      <4>1. op.kind \in {"only", "poll"}
        BY <3>1
      <4>2. Doing(g)
        BY <3>5, <4>1 DEF Doing
      <4>3. n \in 0..Len(rt'.srcs) /\ n # 0 /\ ~rt'.srcs[n].shared
        BY <3>2, <3>3
      <4> QED BY <3>5, <4>2, <4>3 DEF BodyTyped
    <3> QED BY <1>3, <3>1, <3>2, <3>4, <3>6
  <2> QED BY <2>1, <2>2
<1> QED BY <1>2, <1>6, <1>7, <1>8, <1>9, <1>10

\* A body moves on, its source as before.
LEMMA MovesOnTypes ==
    ASSUME RuntimeTypes, NEW f \in work, ObjectInv(rt'), SourcesStay(rt, rt'),
           rt'.ready \in {rt.ready, NoEngine}, UNCHANGED <<queue, call, screenOn>>,
           NEW g, g = [f EXCEPT !.pc = g.pc, !.src = g.src], GoesTo(f, g), Doing(g),
           g.pc \in {"drain", "evict", "clearing"}, g.src \in 0..Len(rt'.srcs)
    PROVE  RuntimeTypes'
<1>1. f \in Bodies
  BY DEF RuntimeTypes, BodyTyped
<1>2. g.src \in Nat /\ g.pc \in {"drain", "evict", "clearing"}
  BY DEF ObjectInv, Objects
<1> DEFINE n == g.src
           c == g.pc
           h == [f EXCEPT !.pc = c, !.src = n]
<1> HIDE DEF n, c
<1>3. n \in Nat /\ c \in {"drain", "evict", "clearing"}
  BY <1>2 DEF n, c
<1>4. h \in Bodies
  BY <1>1, <1>3 DEF Bodies
<1>5. g = h
  BY DEF n, c
<1> HIDE DEF h
<1>6. BodyTyped(g, rt')
  BY <1>4, <1>5 DEF BodyTyped
<1>7. \A x \in work' : x \in work \/ BodyTyped(x, rt')
  BY <1>6 DEF GoesTo
<1> QED BY <1>7, TypesFrom DEF RuntimeTypes

\* A body takes a step.
LEMMA BodyStepTypes == ASSUME RuntimeTypes, NEW f \in work, BodyStep(f) PROVE RuntimeTypes'
<1>1. /\ ObjectInv(rt) /\ f \in Bodies /\ Doing(f) /\ f.src \in 0..Len(rt.srcs)
      /\ UNCHANGED screenOn /\ BodyTyped(f, rt) /\ rt.srcs \in Seq(Sources)
  BY DEF RuntimeTypes, BodyStep, BodyTyped, ObjectInv, Objects
<1>2. BodyFails(f) => RuntimeTypes'
  BY <1>1, BodyFailsTypes
<1>3. CASE WarmUp(f)
  <2>1. f.kind = "boot"
    BY <1>1, <1>3 DEF WarmUp, Doing
  <2> QED BY <1>1, <1>2, <1>3, <2>1, LoadsCatalogTypes DEF WarmUp
<1>4. CASE CatalogRead(f)
  <2>1. f.kind \in {"boot", "reload"}
    BY <1>1, <1>4 DEF CatalogRead, Doing
  <2>2. LoadsList(f, rt.selection.lists \cap Lists) => RuntimeTypes'
    BY <1>1, <2>1, LoadsListTypes
  <2> QED BY <1>2, <1>4, <2>2 DEF CatalogRead
<1>5. CASE ListRead(f)
  <2>1. f.kind \in {"boot", "reload"}
    BY <1>1, <1>5 DEF ListRead, Doing
  <2>2. ASSUME NEW l, LoadsList(f, f.todo \ {l}) PROVE RuntimeTypes'
    <3>1. f.todo \ {l} \in SUBSET Lists
      BY <1>1 DEF Bodies
    <3> QED BY <1>1, <2>1, <2>2, <3>1, LoadsListTypes
  <2> QED BY <1>2, <1>5, <2>2 DEF ListRead
<1>6. CASE Drained(f)
  <2>1. f.pc = "drain" /\ f.kind \in {"reload", "dispose", "clear"}
    BY <1>1, <1>6 DEF Drained, Doing
  <2>2. CASE f.kind = "reload"
    <3> DEFINE g == [f EXCEPT !.pc = "evict", !.src = rt.memo]
    <3>1. rt' = Evicted(rt) /\ GoesTo(f, g) /\ UNCHANGED <<queue, call>>
      BY <1>6, <2>2 DEF Drained
    <3>2. /\ ObjectInv(rt') /\ SrcsGo(rt, rt') /\ Rest(rt') = Rest(rt)
          /\ Len(rt'.srcs) = Len(rt.srcs)
      BY <1>1, <3>1, EvictedFacts
    <3>3. g.pc = "evict" /\ g.src = rt.memo /\ g.kind = f.kind
          /\ g = [f EXCEPT !.pc = g.pc, !.src = g.src]
      BY <1>1 DEF Bodies
    <3>4. rt.memo \in 0..Len(rt'.srcs)
      BY <1>1, <3>2 DEF ObjectInv, Objects, MemoIsGood
    <3>5. SourcesStay(rt, rt') /\ rt'.ready = rt.ready
      BY <1>1, <3>2, WaysToStay DEF Rest
    <3> HIDE DEF g
    <3>6. Doing(g)
      BY <2>2, <3>3 DEF Doing
    <3> QED BY <1>1, <3>1, <3>2, <3>3, <3>4, <3>5, <3>6, MovesOnTypes
  <2>3. CASE f.kind = "dispose"
    <3> DEFINE e == EngineGone(rt)
    <3>1. rt' = TornDown(e) /\ Finished(f, "ok")
      BY <1>6, <2>3 DEF Drained
    <3>2. /\ ObjectInv(e) /\ e.srcs = rt.srcs
          /\ Rest(e) = <<rt.gen, rt.abort, rt.aborted, rt.promise, rt.reload, NoEngine,
                         rt.config, rt.selection>>
      BY <1>1, EngineGoneFacts
    <3> HIDE DEF e
    <3>3. /\ ObjectInv(rt') /\ rt'.srcs = e.srcs
          /\ Rest(rt') = <<e.gen, e.abort, e.aborted, 0, e.reload, e.ready, FALSE, e.selection>>
      BY <3>1, <3>2, TornDownFacts
    <3>4. SourcesStay(rt, rt') /\ rt'.ready = NoEngine
      BY <1>1, <3>2, <3>3, WaysToStay DEF Rest
    <3>5. queue' \in Seq(Ops) /\ call' \in [Calls -> Results] /\ work' = work \ {f}
      BY <3>1, FinishedTypes
    <3> QED BY <1>1, <3>3, <3>4, <3>5, TypesFrom DEF RuntimeTypes
  <2>4. CASE f.kind = "clear"
    <3> DEFINE g == [f EXCEPT !.pc = "clearing"]
    <3>1. rt' = EngineGone(rt) /\ GoesTo(f, g) /\ UNCHANGED <<queue, call>>
      BY <1>6, <2>4 DEF Drained
    <3>2. /\ ObjectInv(rt') /\ rt'.srcs = rt.srcs
          /\ Rest(rt') = <<rt.gen, rt.abort, rt.aborted, rt.promise, rt.reload, NoEngine,
                           rt.config, rt.selection>>
      BY <1>1, <3>1, EngineGoneFacts
    <3>3. g.pc = "clearing" /\ g.src = f.src /\ g.kind = f.kind
          /\ g = [f EXCEPT !.pc = g.pc, !.src = g.src]
      BY <1>1 DEF Bodies
    <3>4. SourcesStay(rt, rt') /\ rt'.ready = NoEngine
      BY <1>1, <3>2, WaysToStay DEF Rest
    <3> HIDE DEF g
    <3>5. Doing(g)
      BY <2>4, <3>3 DEF Doing
    <3> QED BY <1>1, <3>1, <3>2, <3>3, <3>4, <3>5, MovesOnTypes
  <2> QED BY <2>1, <2>2, <2>3, <2>4
<1>7. CASE SourceEvicted(f)
  <2>1. f.pc = "evict" /\ f.kind \in {"reload", "dispose", "clear"}
    BY <1>1, <1>7 DEF SourceEvicted, Doing
  <2>2. CASE f.kind = "reload"
    BY <1>1, <1>7, <2>2, LoadsCatalogTypes DEF SourceEvicted
  <2>3. CASE f.kind # "reload"
    <3> DEFINE g == [f EXCEPT !.pc = "drain"]
    <3>1. GoesTo(f, g) /\ UNCHANGED <<rt, queue, call>>
      BY <1>7, <2>3 DEF SourceEvicted
    <3>2. g.pc = "drain" /\ g.src = f.src /\ g.kind = f.kind
          /\ g = [f EXCEPT !.pc = g.pc, !.src = g.src]
      BY <1>1 DEF Bodies
    <3> HIDE DEF g
    <3>3. Doing(g)
      BY <2>1, <3>2 DEF Doing
    <3> QED BY <1>1, <3>1, <3>2, <3>3, MovesOnTypes, WaysToStay
  <2> QED BY <2>2, <2>3
<1>8. CASE Cleared(f)
  <2>1. CASE rt' = TornDown(rt) /\ Finished(f, "ok")
    <3>1. /\ ObjectInv(rt') /\ rt'.srcs = rt.srcs
          /\ Rest(rt') = <<rt.gen, rt.abort, rt.aborted, 0, rt.reload, rt.ready, FALSE, rt.selection>>
      BY <1>1, <2>1, TornDownFacts
    <3>2. SourcesStay(rt, rt') /\ rt'.ready = rt.ready
      BY <1>1, <3>1, WaysToStay DEF Rest
    <3>3. queue' \in Seq(Ops) /\ call' \in [Calls -> Results] /\ work' = work \ {f}
      BY <2>1, FinishedTypes
    <3> QED BY <1>1, <3>1, <3>2, <3>3, TypesFrom DEF RuntimeTypes
  <2> QED BY <1>2, <1>8, <2>1 DEF Cleared
<1>9. CASE CatalogAnswered(f)
  <2>1. queue' \in Seq(Ops) /\ call' \in [Calls -> Results] /\ work' = work \ {f}
    <3>1. PICK result \in {"ok", "failed"} : Finished(f, result)
      BY <1>9 DEF CatalogAnswered
    <3> QED BY <3>1, FinishedTypes
  <2>2. ObjectInv(rt') /\ SourcesStay(rt, rt') /\ rt'.ready = rt.ready
    <3>1. CASE f.pc = "own"
      <4>1. rt' = Doomed(rt, f.src) /\ f.src # 0 /\ ~rt.srcs[f.src].shared
        BY <1>1, <1>9, <3>1 DEF CatalogAnswered, BodyTyped
      <4>2. /\ rt' \in Objects /\ Rest(rt') = Rest(rt) /\ rt'.memo = rt.memo
            /\ rt'.model = rt.model /\ rt'.models = rt.models
            /\ Len(rt'.srcs) = Len(rt.srcs)
            /\ \A x \in DOMAIN rt.srcs :
                 /\ rt'.srcs[x].shared = rt.srcs[x].shared
                 /\ x # f.src => rt'.srcs[x] = rt.srcs[x]
        <5>1. rt \in Objects
          BY <1>1 DEF ObjectInv
        <5> QED BY <1>1, <4>1, <5>1, DoomedFacts
      <4>3. MemoIsGood(rt')
        <5>1. DOMAIN rt'.srcs = DOMAIN rt.srcs
          BY <1>1, <4>2 DEF Objects
        <5> QED BY <1>1, <4>1, <4>2, <5>1 DEF ObjectInv, MemoIsGood
      <4>4. ModelIsOne(rt')
        BY <1>1, <4>2 DEF ObjectInv, ModelIsOne
      <4>5. rt'.ready = rt.ready
        BY <4>2 DEF Rest
      <4>6. SourcesStay(rt, rt')
        BY <1>1, <4>2 DEF SourcesStay
      <4> QED BY <4>2, <4>3, <4>4, <4>5, <4>6 DEF ObjectInv
    <3>2. CASE f.pc # "own"
      BY <1>1, <1>9, <3>2, WaysToStay DEF CatalogAnswered
    <3> QED BY <3>1, <3>2
  <2> QED BY <1>1, <2>1, <2>2, TypesFrom DEF RuntimeTypes
<1> QED BY <1>3, <1>4, <1>5, <1>6, <1>7, <1>8, <1>9 DEF BodyStep

\* Every step keeps the types.
LEMMA RuntimeStepTypes ==
    ASSUME RuntimeTypes, [RuntimeNext]_runtimeVars PROVE RuntimeTypes'
<1>1. ObjectInv(rt)
  BY DEF RuntimeTypes
<1>2. CASE AbortWins
  <2>1. queue' \in Seq(Ops) /\ call' \in [Calls -> Results] /\ UNCHANGED <<rt, work, screenOn>>
    BY <1>2, CallEndsTypes DEF AbortWins
  <2> QED BY <1>1, <2>1, TypesFrom, WaysToStay DEF RuntimeTypes
<1>3. CASE BootTimesOut
  <2>1. /\ queue' \in Seq(Ops) /\ call' \in [Calls -> Results] /\ UNCHANGED <<work, screenOn>>
        /\ \E id : rt' = BootFailed(rt, id)
    BY <1>3, CallEndsTypes DEF BootTimesOut
  <2>2. PICK id : rt' = BootFailed(rt, id)
    BY <2>1
  <2>3. ObjectInv(rt') /\ SourcesStay(rt, rt') /\ rt'.ready = rt.ready
    <3>1. CASE rt.abort = id
      <4>1. /\ ObjectInv(rt') /\ SrcsGo(rt, rt')
            /\ Rest(rt') = <<rt.gen + 1, 0, rt.aborted, 0, rt.reload, rt.ready, FALSE, rt.selection>>
        BY <1>1, <2>2, <3>1, BootFailedFacts
      <4> QED BY <1>1, <4>1, WaysToStay DEF Rest
    <3>2. CASE rt.abort # id
      BY <1>1, <2>2, <3>2, WaysToStay DEF BootFailed
    <3> QED BY <3>1, <3>2
  <2> QED BY <2>1, <2>3, TypesFrom DEF RuntimeTypes
<1>4. ASSUME NEW s \in DOMAIN rt.srcs, SourceSettles(s) PROVE RuntimeTypes'
  <2>1. /\ ObjectInv(rt') /\ Rest(rt') = Rest(rt) /\ Len(rt'.srcs) = Len(rt.srcs)
        /\ \A x \in DOMAIN rt.srcs : rt'.srcs[x].shared = rt.srcs[x].shared
    BY <1>4, SourceSettlesFacts
  <2>2. SourcesStay(rt, rt') /\ rt'.ready = rt.ready
    BY <1>1, <2>1 DEF SourcesStay, Rest, ObjectInv, Objects
  <2> QED BY <1>4, <2>1, <2>2, TypesFrom DEF RuntimeTypes, SourceSettles
<1>5. CASE ScreenStarts
  BY <1>5 DEF ScreenStarts, RuntimeTypes
<1>6. CASE ScreenEnds
  BY <1>6 DEF ScreenEnds, RuntimeTypes
<1>7. CASE UNCHANGED runtimeVars
  BY <1>7 DEF runtimeVars, RuntimeTypes
<1> QED BY <1>2, <1>3, <1>4, <1>5, <1>6, <1>7, PageCallsTypes, StartNextTypes, BodyStepTypes
        DEF RuntimeNext, QueueStep

\* They hold at first.
LEMMA RuntimeInitTypes == ASSUME RuntimeInit PROVE RuntimeTypes
<1>1. rt.selection \in Sels /\ rt.ready \in Engines
  BY DEF RuntimeInit, Sels, NoEngine, Engines
<1>2. rt \in Objects
  BY <1>1 DEF RuntimeInit, Objects
<1>3. MemoIsGood(rt) /\ ModelIsOne(rt)
  BY DEF RuntimeInit, MemoIsGood, ModelIsOne
<1> QED BY <1>2, <1>3 DEF RuntimeInit, RuntimeTypes, ObjectInv, Results

\* So they always hold.
LEMMA RuntimeTypesHold == RuntimeSpec => []RuntimeTypes
<1>1. RuntimeInit => RuntimeTypes
  BY RuntimeInitTypes
<1>2. RuntimeTypes /\ [RuntimeNext]_runtimeVars => RuntimeTypes'
  BY RuntimeStepTypes
<1> QED BY <1>1, <1>2, PTL DEF RuntimeSpec

\* The types that the runtime keeps: what its source and its model name exists, whatever
\* is torn down, evicted or given up on the way.
THEOREM RuntimeTypeCorrect == RuntimeSpec => []RuntimeTypeOK
<1>1. RuntimeTypes => RuntimeTypeOK
  <2> SUFFICES ASSUME RuntimeTypes PROVE RuntimeTypeOK
    OBVIOUS
  <2>1. rt \in Objects /\ ObjectInv(rt) /\ rt.srcs \in Seq(Sources)
    BY DEF RuntimeTypes, ObjectInv, Objects
  <2>2. rt.memo \in 0..Len(rt.srcs) /\ rt.model \in 0..Len(rt.models)
    BY <2>1 DEF ObjectInv, Objects, MemoIsGood, ModelIsOne
  <2>3. \A s \in DOMAIN rt.srcs : rt.srcs[s].st \in Settled \cup {"opening", "doomed"}
    <3>1. \A s \in DOMAIN rt.srcs : rt.srcs[s] \in Sources
      BY <2>1
    <3> QED BY <3>1 DEF Sources
  <2>4. rt.abort \in {0} \cup Calls /\ rt.promise \in {0} \cup Calls
    BY <2>1 DEF Objects
  <2>5. \A f \in work : f.id \in Calls /\ f.src \in 0..Len(rt.srcs)
    BY DEF RuntimeTypes, BodyTyped, Bodies
  <2> QED BY <2>2, <2>3, <2>4, <2>5 DEF RuntimeTypeOK, RuntimeTypes
<1> QED BY <1>1, RuntimeTypesHold, PTL

\* runtime.ts:1019-1031: at most one model lives, the one that is held, although builds
\* that were given up go on.
THEOREM OneModelRuns == RuntimeSpec => []OneModel
<1>1. RuntimeTypes => OneModel
  BY DEF RuntimeTypes, ObjectInv, ModelIsOne, OneModel
<1> QED BY <1>1, RuntimeTypesHold, PTL

-----------------------------------------------------------------------------
\* The inductive invariant behind EngineIsCurrent, beside the types.
CurrentInv == QueueInv /\ WorkInv /\ ReadyInv
Serving == {"opening", "open", "failed"}

\* A source that is shared and not given up stays so, and stays open.
SourcesServe(r, q) ==
  /\ Len(r.srcs) <= Len(q.srcs)
  /\ \A s \in DOMAIN r.srcs :
       /\ q.srcs[s].shared = r.srcs[s].shared
       /\ r.srcs[s].shared /\ r.srcs[s].st \in Serving => q.srcs[s].st \in Serving
       /\ r.srcs[s].shared /\ r.srcs[s].st = "open" => q.srcs[s].st = "open"

\* A source that does not change serves as before.
LEMMA KeptServe ==
    ASSUME NEW r, NEW q, ObjectInv(r), SrcsKept(r, q) \/ q.srcs = r.srcs
    PROVE  SourcesServe(r, q)
<1>1. Len(r.srcs) \in Nat
  BY DEF ObjectInv, Objects
<1> QED BY <1>1 DEF SrcsKept, SourcesServe

\* And is not forgotten.
LEMMA ServeStay ==
    ASSUME NEW r, NEW q, SourcesServe(r, q) \/ SrcsGo(r, q) PROVE SourcesStay(r, q)
BY DEF SourcesServe, SrcsGo, SourcesStay

\* What is in the queue.
LEMMA InQueue ==
    ASSUME RuntimeTypes
    PROVE  /\ queue \in Seq(Ops) /\ DOMAIN queue = 1..Len(queue) /\ Len(queue) \in Nat
           /\ \A k \in DOMAIN queue : queue[k] \in Ops /\ queue[k].id \in Calls /\ queue[k].id # 0
           /\ queue # <<>> => 1 \in DOMAIN queue /\ Head(queue) = queue[1]
           /\ DOMAIN queue # {} => queue # <<>>
<1>1. queue \in Seq(Ops)
  BY DEF RuntimeTypes
<1>2. \A k \in DOMAIN queue : queue[k] \in Ops
  BY <1>1
<1>3. \A i \in Calls : i # 0
  BY RuntimeAssumption DEF Calls
<1>4. \A op \in Ops : op.id \in Calls /\ op.id # 0
  BY <1>3 DEF Ops
<1> QED BY <1>1, <1>2, <1>4

\* The queue without its head.
LEMMA QueueLoses ==
    ASSUME RuntimeTypes, queue # <<>>, queue' = Tail(queue)
    PROVE  /\ Len(queue') = Len(queue) - 1 /\ DOMAIN queue' = 1..(Len(queue) - 1)
           /\ \A k \in DOMAIN queue' : queue'[k] = queue[k + 1] /\ k + 1 \in DOMAIN queue /\ k + 1 # 1
           /\ \A k \in DOMAIN queue : k # 1 => k - 1 \in DOMAIN queue' /\ queue'[k - 1] = queue[k]
<1>1. queue \in Seq(Ops)
  BY DEF RuntimeTypes
<1> QED BY <1>1

\* The queue with one call more.
LEMMA QueueGains ==
    ASSUME RuntimeTypes, NEW op, queue' = Append(queue, op)
    PROVE  /\ DOMAIN queue' = 1..(Len(queue) + 1) /\ DOMAIN queue = 1..Len(queue) /\ Len(queue) \in Nat
           /\ \A k \in DOMAIN queue : k \in DOMAIN queue' /\ queue'[k] = queue[k]
           /\ queue'[Len(queue) + 1] = op /\ Len(queue) + 1 \in DOMAIN queue'
           /\ \A k \in DOMAIN queue' : k \in DOMAIN queue \/ k = Len(queue) + 1
           /\ queue # <<>> => Head(queue') = Head(queue)
           /\ queue = <<>> => Head(queue') = op /\ Len(queue) = 0
           /\ queue' # <<>>
<1>1. queue \in Seq(Ops)
  BY DEF RuntimeTypes
<1> QED BY <1>1

\* Behind a teardown or a reload that is running, no boot waits.
LEMMA NoBootBehind ==
    ASSUME RuntimeTypes, QueueInv, queue # <<>>, Head(queue).kind \in {"reload", "dispose", "clear"}
    PROVE  rt.abort = 0 /\ \A k \in DOMAIN queue : queue[k].kind # "boot"
<1>1. ASSUME NEW k \in DOMAIN queue, queue[k].kind = "boot" PROVE FALSE
  <2>1. k # 1 /\ k \in 1..Len(queue) /\ Len(queue) \in Nat
    BY <1>1, InQueue
  <2>2. 1 \in 1..(k - 1)
    BY <2>1
  <2> QED BY <1>1, <2>2, InQueue DEF QueueInv, OpInv
<1> QED BY <1>1 DEF QueueInv

\* Nothing moves in the queue; a new generation may begin when no boot is in it.
LEMMA QueueStill ==
    ASSUME RuntimeTypes, QueueInv, UNCHANGED <<queue, call>>,
           rt'.aborted = rt.aborted, rt'.abort = rt.abort, rt'.reload = rt.reload,
           rt.gen <= rt'.gen, rt'.gen \in Nat,
           (rt'.gen = rt.gen /\ rt'.promise = rt.promise)
             \/ \A k \in DOMAIN queue : queue[k].kind # "boot"
    PROVE  QueueInv'
<1>1. rt.gen \in Nat
  BY DEF RuntimeTypes, ObjectInv, Objects
<1>2. ASSUME NEW k \in DOMAIN queue PROVE OpInv(k)'
  <2>1. OpInv(k) /\ queue[k].gen \in Nat
    BY InQueue DEF QueueInv, Ops
  <2>2. CASE queue[k].kind = "boot"
    BY <1>1, <2>1, <2>2 DEF OpInv
  <2>3. CASE queue[k].kind # "boot"
    BY <1>1, <2>1, <2>3 DEF OpInv
  <2> QED BY <2>2, <2>3
<1> QED BY <1>2 DEF QueueInv

\* The head leaves the queue.
LEMMA QueueLeaves ==
    ASSUME RuntimeTypes, QueueInv, queue # <<>>, NEW result \in {"ok", "failed"},
           CallEnds(Head(queue).id, result), rt'.aborted = rt.aborted,
           rt.gen <= rt'.gen, rt'.gen \in Nat,
           \/ Head(queue).kind \in {"reload", "dispose", "clear"} /\ rt'.abort \in {0, rt.abort}
           \/ /\ rt'.abort = rt.abort /\ rt.abort # Head(queue).id
              /\ rt'.promise = rt.promise /\ rt'.gen = rt.gen
           \/ rt'.abort = 0 /\ rt.abort = Head(queue).id,
           rt'.reload = rt.reload \/ rt.reload = Head(queue).id \/ Head(queue).kind = "reload"
    PROVE  QueueInv'
<1> DEFINE h == Head(queue)
<1>1. h = queue[1] /\ 1 \in DOMAIN queue /\ rt.gen \in Nat /\ OpInv(1)
  BY InQueue DEF RuntimeTypes, ObjectInv, Objects, QueueInv
<1>2. /\ Len(queue') = Len(queue) - 1 /\ DOMAIN queue' = 1..(Len(queue) - 1)
      /\ \A k \in DOMAIN queue' : queue'[k] = queue[k + 1] /\ k + 1 \in DOMAIN queue /\ k + 1 # 1
      /\ \A k \in DOMAIN queue : k # 1 => k - 1 \in DOMAIN queue' /\ queue'[k - 1] = queue[k]
  BY QueueLoses DEF CallEnds
<1>3. \A i \in Calls : call'[i] = IF i = h.id THEN result ELSE call[i]
  BY DEF CallEnds, RuntimeTypes
<1>4. Len(queue) \in Nat /\ DOMAIN queue = 1..Len(queue)
  BY InQueue
<1>5. ASSUME NEW k \in DOMAIN queue' PROVE OpInv(k)'
  <2>0. PICK op : op = queue[k + 1]
    OBVIOUS
  <2>1. /\ queue'[k] = op /\ op = queue[k + 1] /\ op \in Ops /\ k + 1 \in DOMAIN queue /\ k + 1 # 1 /\ OpInv(k + 1)
        /\ k \in Nat /\ op.gen \in Nat /\ op.id \in Calls
    BY <1>2, <1>4, <2>0, InQueue DEF QueueInv, Ops
  <2>2. op.id # h.id
    BY <1>1, <2>1 DEF OpInv
  <2>3. call'[op.id] = "pending"
    BY <1>3, <2>1, <2>2 DEF OpInv
  <2>4. ASSUME NEW j \in DOMAIN queue', queue'[j].id = op.id PROVE j = k
    <3>1. queue[j + 1].id = op.id /\ j + 1 \in DOMAIN queue /\ j \in Nat
      BY <1>2, <1>4, <2>4
    <3>2. j + 1 = k + 1
      BY <2>1, <3>1 DEF OpInv
    <3> QED BY <2>1, <3>1, <3>2
  <2>5. ASSUME op.kind = "boot"
        PROVE  /\ IF rt'.abort = op.id THEN rt'.promise = op.id /\ op.gen = rt'.gen ELSE op.gen < rt'.gen
               /\ \A j \in 1..(k-1) : queue'[j].kind \notin {"reload", "dispose", "clear"}
    <3>1. h.kind \notin {"reload", "dispose", "clear"}
      BY <2>1, <2>5, NoBootBehind
    <3>2. IF rt.abort = op.id THEN rt.promise = op.id /\ op.gen = rt.gen ELSE op.gen < rt.gen
      BY <2>1, <2>5 DEF OpInv
    <3>3. IF rt'.abort = op.id THEN rt'.promise = op.id /\ op.gen = rt'.gen ELSE op.gen < rt'.gen
      <4>1. CASE rt'.abort = rt.abort /\ rt'.promise = rt.promise /\ rt'.gen = rt.gen
        BY <3>2, <4>1
      <4>2. CASE rt'.abort = 0 /\ rt.abort = h.id
        <5>1. op.gen < rt.gen /\ op.id # 0
          BY <2>1, <2>2, <3>2, <4>2, InQueue
        <5> QED BY <1>1, <2>1, <4>2, <5>1
      <4> QED BY <3>1, <4>1, <4>2
    <3>4. ASSUME NEW j \in 1..(k-1) PROVE queue'[j].kind \notin {"reload", "dispose", "clear"}
      <4>1. j \in DOMAIN queue' /\ j \in Nat
        BY <1>2, <1>4, <2>1
      <4>2. queue'[j] = queue[j + 1] /\ j + 1 \in 1..(k + 1 - 1)
        BY <1>2, <2>1, <4>1
      <4> QED BY <2>1, <2>5, <4>2 DEF OpInv
    <3> QED BY <3>3, <3>4
  <2>6. op.kind = "reload" => rt'.reload = op.id
    <3> SUFFICES ASSUME op.kind = "reload" PROVE rt'.reload = op.id
      OBVIOUS
    <3>1. rt.reload = op.id
      BY <2>1 DEF OpInv
    <3>2. h.kind = "reload" => rt.reload = h.id
      BY <1>1 DEF OpInv
    <3> QED BY <2>2, <3>1, <3>2
  <2>7. op.id \in rt'.aborted => op.kind = "boot" /\ op.gen < rt'.gen
    BY <1>1, <2>1 DEF OpInv
  <2> QED BY <2>1, <2>3, <2>4, <2>5, <2>6, <2>7 DEF OpInv
<1>6. ASSUME rt'.abort # 0
      PROVE  \E k \in DOMAIN queue' : queue'[k].kind = "boot" /\ queue'[k].id = rt'.abort
  <2>1. rt'.abort = rt.abort /\ rt.abort # h.id
    BY <1>6, NoBootBehind
  <2>2. PICK k \in DOMAIN queue : queue[k].kind = "boot" /\ queue[k].id = rt.abort
    BY <1>6, <2>1 DEF QueueInv
  <2>3. k # 1
    BY <1>1, <2>1, <2>2
  <2> QED BY <1>2, <2>1, <2>2, <2>3
<1>7. \A i \in rt'.aborted : call'[i] # "none"
  <2>1. rt.aborted \subseteq Calls
    BY DEF RuntimeTypes, ObjectInv, Objects
  <2> QED BY <1>3, <2>1 DEF QueueInv
<1> QED BY <1>5, <1>6, <1>7 DEF QueueInv

\* A page calls: it boots when nothing is promised and no teardown waits, it gives a boot
\* up to dispose or to clear, it asks for something that replaces nothing, or it reloads.
LEMMA QueueGrows ==
    ASSUME RuntimeTypes, QueueInv, CallersWait, NEW i \in NextCall,
           NEW kind, NEW sel, Enqueued(kind, i, sel), rt'.gen \in Nat,
           \/ /\ kind = "boot" /\ rt.reload = 0 /\ rt.promise = 0 /\ ~TearingDown
              /\ rt'.abort = i /\ rt'.promise = i
              /\ rt'.gen = rt.gen /\ rt'.aborted = rt.aborted /\ rt'.reload = rt.reload
           \/ /\ kind \notin {"boot", "reload"} /\ rt.abort # 0 /\ rt'.abort = 0
              /\ rt'.gen = rt.gen + 1 /\ rt'.aborted = rt.aborted \cup {rt.abort}
              /\ rt'.reload = rt.reload
           \/ /\ kind \notin {"boot", "reload"} /\ rt'.abort = rt.abort /\ rt'.gen = rt.gen
              /\ rt'.aborted = rt.aborted /\ rt'.reload = rt.reload /\ rt'.promise = rt.promise
           \/ /\ kind = "reload" /\ rt.reload = 0 /\ rt'.reload = i /\ rt'.abort = rt.abort
              /\ rt'.gen = rt.gen /\ rt'.aborted = rt.aborted /\ rt'.promise = rt.promise
    PROVE  QueueInv'
<1> DEFINE op == [kind |-> kind, id |-> i, sel |-> sel, gen |-> rt.gen]
<1>0. PICK n : n = Len(queue) + 1
  OBVIOUS
<1>1. call[i] = "none" /\ i \in Calls /\ i # 0
  BY RuntimeAssumption DEF NextCall, Calls
<1>2. /\ op.kind = kind /\ op.id = i /\ op.gen = rt.gen
      /\ queue' = Append(queue, op) /\ call' = [call EXCEPT ![i] = "pending"]
  BY DEF Enqueued
<1> HIDE DEF op
<1>3. /\ DOMAIN queue' = 1..(Len(queue) + 1) /\ DOMAIN queue = 1..Len(queue) /\ Len(queue) \in Nat
      /\ \A k \in DOMAIN queue : k \in DOMAIN queue' /\ queue'[k] = queue[k]
      /\ queue'[n] = op /\ n \in DOMAIN queue'
      /\ \A k \in DOMAIN queue' : k \in DOMAIN queue \/ k = n
  BY <1>0, <1>2, QueueGains
<1>4. \A c \in Calls : call'[c] = IF c = i THEN "pending" ELSE call[c]
  BY <1>2 DEF RuntimeTypes
<1>5. rt.gen \in Nat /\ rt.aborted \subseteq Calls /\ i \notin rt.aborted
  BY <1>1 DEF RuntimeTypes, ObjectInv, Objects, QueueInv
<1>6. \A k \in DOMAIN queue : queue[k].id # i /\ queue[k].id \in Calls /\ queue[k].id # 0
                               /\ queue[k].gen \in Nat /\ OpInv(k)
  BY <1>1, InQueue DEF QueueInv, OpInv, Ops
<1>7. rt.abort # 0 => rt.promise = rt.abort
  BY <1>6 DEF QueueInv, OpInv
<1>8. ASSUME NEW k \in DOMAIN queue PROVE OpInv(k)'
  <2>0. PICK o : o = queue[k]
    OBVIOUS
  <2>1. /\ queue'[k] = o /\ o = queue[k] /\ OpInv(k) /\ o.id # i /\ o.id \in Calls /\ o.id # 0
        /\ o.gen \in Nat /\ k \in 1..Len(queue)
    BY <1>3, <1>6, <2>0
  <2>2. call'[o.id] = "pending"
    BY <1>4, <2>1 DEF OpInv
  <2>3. \A j \in DOMAIN queue' : queue'[j].id = o.id => j = k
    BY <1>2, <1>3, <2>1 DEF OpInv
  <2>4. ASSUME o.kind = "boot"
        PROVE  IF rt'.abort = o.id THEN rt'.promise = o.id /\ o.gen = rt'.gen ELSE o.gen < rt'.gen
    <3>1. IF rt.abort = o.id THEN rt.promise = o.id /\ o.gen = rt.gen ELSE o.gen < rt.gen
      BY <2>1, <2>4 DEF OpInv
    <3> QED BY <1>5, <1>7, <2>1, <3>1
  <2>5. ASSUME o.kind = "boot", NEW j \in 1..(k-1)
        PROVE  queue'[j].kind \notin {"reload", "dispose", "clear"}
    <3>1. j \in DOMAIN queue
      BY <1>3, <2>1
    <3> QED BY <1>3, <2>1, <2>5, <3>1 DEF OpInv
  <2>6. o.kind = "reload" => rt'.reload = o.id
    <3>1. o.kind = "reload" => rt.reload = o.id
      BY <2>1 DEF OpInv
    <3> QED BY <2>1, <3>1
  <2>7. o.id \in rt'.aborted => o.kind = "boot" /\ o.gen < rt'.gen
    <3>1. CASE o.id \in rt.aborted
      BY <1>5, <2>1, <3>1 DEF OpInv
    <3>2. CASE o.id \notin rt.aborted /\ o.id \in rt'.aborted
      <4>1. o.id = rt.abort /\ rt'.gen = rt.gen + 1
        BY <3>2
      <4>2. PICK m \in DOMAIN queue : queue[m].kind = "boot" /\ queue[m].id = rt.abort
        BY <2>1, <4>1 DEF QueueInv
      <4>3. m = k
        BY <2>1, <4>1, <4>2 DEF OpInv
      <4>4. o.kind = "boot" /\ o.gen = rt.gen
        BY <2>1, <4>1, <4>2, <4>3 DEF OpInv
      <4> QED BY <1>5, <4>1, <4>4
    <3> QED BY <3>1, <3>2
  <2> QED BY <2>1, <2>2, <2>3, <2>4, <2>5, <2>6, <2>7 DEF OpInv
<1>9. OpInv(n)'
  <2>1. queue'[n] = op /\ n \in Nat /\ n = Len(queue) + 1
    BY <1>0, <1>3
  <2>2. call'[i] = "pending"
    BY <1>1, <1>4
  <2>3. \A j \in DOMAIN queue' : queue'[j].id = i => j = n
    BY <1>3, <1>6
  <2>4. ASSUME kind = "boot"
        PROVE  /\ rt'.abort = i /\ rt'.promise = i /\ rt'.gen = rt.gen
               /\ \A j \in 1..(n-1) : queue'[j].kind \notin {"reload", "dispose", "clear"}
    <3>1. rt.reload = 0 /\ ~TearingDown /\ rt'.abort = i /\ rt'.promise = i /\ rt'.gen = rt.gen
      BY <2>4
    <3>2. ASSUME NEW j \in 1..(n-1) PROVE queue'[j].kind \notin {"reload", "dispose", "clear"}
      <4>1. j \in DOMAIN queue /\ queue'[j] = queue[j]
        BY <1>3, <2>1
      <4>2. queue[j].kind # "reload"
        BY <1>6, <3>1, <4>1 DEF OpInv
      <4> QED BY <3>1, <4>1, <4>2 DEF TearingDown
    <3> QED BY <3>1, <3>2
  <2>5. kind = "reload" => rt'.reload = i
    OBVIOUS
  <2>6. i \notin rt'.aborted
    <3>1. rt.abort # 0 => rt.abort # i
      BY <1>6 DEF QueueInv
    <3> QED BY <1>5, <3>1
  <2> QED BY <1>2, <2>1, <2>2, <2>3, <2>4, <2>5, <2>6 DEF OpInv
<1>10. ASSUME rt'.abort # 0
       PROVE  \E k \in DOMAIN queue' : queue'[k].kind = "boot" /\ queue'[k].id = rt'.abort
  <2>1. CASE kind = "boot"
    BY <1>2, <1>3, <2>1
  <2>2. CASE kind # "boot"
    <3>1. rt'.abort = rt.abort
      BY <1>10, <2>2
    <3> QED BY <1>3, <1>10, <3>1 DEF QueueInv
  <2> QED BY <2>1, <2>2
<1>11. \A c \in rt'.aborted : call'[c] # "none"
  <2>1. ASSUME NEW c \in rt'.aborted PROVE call'[c] # "none"
    <3>1. CASE c \in rt.aborted
      BY <1>4, <1>5, <3>1 DEF QueueInv
    <3>2. CASE c = rt.abort /\ c # 0
      <4>1. PICK m \in DOMAIN queue : queue[m].id = rt.abort
        BY <3>2 DEF QueueInv
      <4>2. call[c] = "pending" /\ c \in Calls
        BY <1>6, <3>2, <4>1 DEF OpInv
      <4> QED BY <1>4, <4>2
    <3> QED BY <3>1, <3>2
  <2> QED BY <2>1
<1> QED BY <1>3, <1>8, <1>9, <1>10, <1>11 DEF QueueInv

\* What a step may do to the queue as the body f sees it: f's call goes on running, or f
\* was a boot.
QueueFor(f) ==
  /\ call'[f.id] # "none"
  /\ \A k \in DOMAIN queue' : queue'[k].id = f.id => k = 1
  /\ Running(f.id)' => /\ Running(f.id) /\ Head(queue').kind = Head(queue).kind
                       /\ Head(queue').gen = Head(queue).gen
  /\ Running(f.id) => f.kind = "boot" \/ Running(f.id)'

\* For each body, when the queue does not move,
LEMMA QueueForStill ==
    ASSUME NEW f, BodyInv(f), UNCHANGED <<queue, call>> PROVE QueueFor(f)
BY DEF BodyInv, QueueFor, Running

\* when a call is added,
LEMMA QueueForGrows ==
    ASSUME RuntimeTypes, NEW f, BodyInv(f), f.id \in Calls, NEW kind, NEW i \in NextCall, NEW sel,
           Enqueued(kind, i, sel)
    PROVE  QueueFor(f)
<1> DEFINE op == [kind |-> kind, id |-> i, sel |-> sel, gen |-> rt.gen]
<1>1. op.id = i /\ queue' = Append(queue, op) /\ call' = [call EXCEPT ![i] = "pending"]
  BY DEF Enqueued
<1> HIDE DEF op
<1>2. /\ \A k \in DOMAIN queue : queue'[k] = queue[k]
      /\ queue'[Len(queue) + 1] = op
      /\ \A k \in DOMAIN queue' : k \in DOMAIN queue \/ k = Len(queue) + 1
      /\ queue # <<>> => Head(queue') = Head(queue)
      /\ queue = <<>> => Head(queue') = op
      /\ queue' # <<>>
  BY <1>1, QueueGains
<1>3. call[i] = "none" /\ f.id # i
  BY DEF NextCall, BodyInv
<1>4. call'[f.id] # "none"
  BY <1>1, <1>3 DEF RuntimeTypes, BodyInv
<1>5. \A k \in DOMAIN queue' : queue'[k].id = f.id => k = 1
  BY <1>1, <1>2, <1>3 DEF BodyInv
<1>6. CASE queue # <<>>
  BY <1>2, <1>4, <1>5, <1>6 DEF QueueFor, Running
<1>7. CASE queue = <<>>
  <2>1. ~Running(f.id)' /\ ~Running(f.id)
    BY <1>1, <1>2, <1>3, <1>7 DEF Running
  <2> QED BY <1>4, <1>5, <2>1 DEF QueueFor
<1> QED BY <1>6, <1>7

\* and when the head leaves.
LEMMA QueueForLeaves ==
    ASSUME RuntimeTypes, NEW f, BodyInv(f), f.id \in Calls, queue # <<>>,
           NEW result \in {"ok", "failed"}, CallEnds(Head(queue).id, result),
           f.kind = "boot" \/ ~Running(f.id)
    PROVE  QueueFor(f) /\ ~Running(f.id)'
<1>1. queue' = Tail(queue) /\ call' = [call EXCEPT ![Head(queue).id] = result]
  BY DEF CallEnds
<1>2. \A k \in DOMAIN queue' : queue'[k] = queue[k + 1] /\ k + 1 \in DOMAIN queue /\ k + 1 # 1
  BY <1>1, QueueLoses
<1>3. \A k \in DOMAIN queue' : queue'[k].id # f.id
  BY <1>2 DEF BodyInv
<1>4. ~Running(f.id)'
  <2>1. RuntimeTypes => (queue # <<>> => 1 \in DOMAIN queue /\ Head(queue) = queue[1])
    BY InQueue
  <2>2. queue' \in Seq(Ops)
    BY CallEndsTypes
  <2>3. queue' # <<>> => 1 \in DOMAIN queue' /\ Head(queue') = queue'[1]
    BY <2>2
  <2> QED BY <1>3, <2>3 DEF Running
<1>5. call'[f.id] # "none"
  BY <1>1 DEF RuntimeTypes, BodyInv
<1> QED BY <1>3, <1>4, <1>5 DEF QueueFor

\* A body whose source still serves it.
LEMMA BodyServed ==
    ASSUME RuntimeTypes, NEW f, BodyTyped(f, rt), BodyInv(f), QueueFor(f),
           rt.gen <= rt'.gen, rt'.gen \in Nat, SourcesServe(rt, rt'),
           f.kind = "boot" /\ Running(f.id) => Running(f.id)' \/ f.gen < rt'.gen,
           f.kind = "boot" /\ f.gen = rt'.gen => rt'.model = rt.model,
           f.kind = "reload" => rt'.ready = NoEngine /\ rt'.model = rt.model,
           f.pc = "clearing" => rt'.ready = NoEngine
    PROVE  BodyInv(f)'
<1>1. f.gen \in Nat /\ rt.gen \in Nat /\ f.src \in 0..Len(rt.srcs)
      /\ DOMAIN rt.srcs = 1..Len(rt.srcs) /\ Len(rt.srcs) \in Nat
  BY DEF BodyTyped, Bodies, RuntimeTypes, ObjectInv, Objects
<1>2. f.kind # "boot" => Running(f.id)'
  BY DEF BodyInv, QueueFor
<1>3. Running(f.id)' => Head(queue').kind = f.kind /\ Head(queue').gen = f.gen
  BY DEF BodyInv, QueueFor
<1>4. f.kind = "boot" =>
        /\ f.gen <= rt'.gen /\ (~Running(f.id)' => f.gen < rt'.gen)
        /\ f.gen = rt'.gen => f.model = rt'.model /\ rt'.model # 0
  BY <1>1 DEF BodyInv
<1>5. f.kind = "reload" =>
        /\ rt'.ready = NoEngine /\ rt'.model # 0
        /\ Loading(f) => f.model = rt'.model
  BY DEF BodyInv
<1>6. Loading(f) /\ Current(f)' =>
        /\ f.src # 0 /\ rt'.srcs[f.src].shared
        /\ rt'.srcs[f.src].st \in {"opening", "open", "failed"}
  <2> SUFFICES ASSUME Loading(f), Current(f)'
               PROVE  /\ f.src # 0 /\ rt'.srcs[f.src].shared
                      /\ rt'.srcs[f.src].st \in {"opening", "open", "failed"}
    OBVIOUS
  <2>1. Current(f)
    BY <1>1 DEF Current, BodyInv
  <2>2. f.src # 0 /\ rt.srcs[f.src].shared /\ rt.srcs[f.src].st \in Serving
    BY <2>1 DEF BodyInv, Serving
  <2>3. f.src \in DOMAIN rt.srcs
    BY <1>1, <2>2
  <2> QED BY <2>2, <2>3 DEF SourcesServe, Serving
<1> QED BY <1>2, <1>3, <1>4, <1>5, <1>6 DEF BodyInv, QueueFor

\* A boot that the generation has left behind.
LEMMA BodyStale ==
    ASSUME NEW f, BodyTyped(f, rt), BodyInv(f), QueueFor(f), rt'.gen \in Nat,
           f.kind = "boot", f.gen < rt'.gen
    PROVE  BodyInv(f)'
<1>1. f.gen \in Nat /\ f.gen # rt'.gen /\ f.gen <= rt'.gen /\ f.pc # "clearing"
  BY DEF BodyTyped, Bodies, Doing
<1>2. Running(f.id)' => Head(queue').kind = f.kind /\ Head(queue').gen = f.gen
  BY DEF BodyInv, QueueFor
<1>3. ~Current(f)'
  BY <1>1 DEF Current
<1> QED BY <1>1, <1>2, <1>3 DEF BodyInv, QueueFor

\* The engine that is ready outlives a step that leaves what it stands on.
LEMMA ReadyStays ==
    ASSUME RuntimeTypes, ReadyInv, rt'.ready = rt.ready,
           rt.ready # NoEngine =>
             /\ SourcesStay(rt, rt')
             /\ call'[rt.ready.id] # "none"
             /\ \A k \in DOMAIN queue' : queue'[k].id # rt.ready.id
             /\ TearingDown => TearingDown'
             /\ ~TearingDown /\ rt.ready.id = rt.promise /\ rt.model # 0
                  /\ rt.srcs[rt.ready.src].st = "open" /\ rt.srcs[rt.ready.src].shared
                => TearingDown' \/ (/\ rt'.promise = rt.promise /\ rt'.model = rt.model
                                    /\ rt'.srcs[rt.ready.src].st = "open")
    PROVE  ReadyInv'
<1>1. CASE rt.ready = NoEngine
  BY <1>1 DEF ReadyInv
<1>2. CASE rt.ready # NoEngine
  <2>1. DOMAIN rt.srcs = 1..Len(rt.srcs) /\ Len(rt.srcs) \in Nat
    BY DEF RuntimeTypes, ObjectInv, Objects
  <2>2. rt.ready.src \in DOMAIN rt'.srcs /\ rt'.srcs[rt.ready.src].shared
    BY <1>2, <2>1 DEF ReadyInv, SourcesStay
  <2>3. TearingDown' \/ (/\ rt.ready.id = rt'.promise /\ rt.ready.model = rt'.model /\ rt'.model # 0
                         /\ rt'.srcs[rt.ready.src].st = "open")
    BY <1>2 DEF ReadyInv
  <2> QED BY <1>2, <2>2, <2>3 DEF ReadyInv
<1> QED BY <1>1, <1>2

\* A step that leaves the queue and the engine's own fields alone.
LEMMA StillStep ==
    ASSUME RuntimeTypes, RuntimeTypes', CurrentInv, UNCHANGED <<queue, call>>,
           rt'.gen = rt.gen, rt'.abort = rt.abort, rt'.aborted = rt.aborted,
           rt'.promise = rt.promise, rt'.reload = rt.reload, rt'.ready = rt.ready,
           rt'.model = rt.model, SourcesServe(rt, rt'),
           \A g \in work' : g \in work \/ BodyInv(g)',
           \A g, h \in work' : g.id = h.id => g = h
    PROVE  CurrentInv'
<1>1. rt.gen \in Nat /\ rt.gen <= rt'.gen /\ rt'.gen \in Nat
  BY DEF RuntimeTypes, ObjectInv, Objects
<1>2. QueueInv'
  BY <1>1, QueueStill DEF CurrentInv
<1>3. ASSUME NEW g \in work' PROVE BodyInv(g)'
  <2>1. CASE g \in work
    <3>1. BodyInv(g) /\ BodyTyped(g, rt) /\ QueueFor(g)
      BY <2>1, QueueForStill DEF CurrentInv, WorkInv, RuntimeTypes
    <3>2. g.kind = "boot" /\ Running(g.id) => Running(g.id)'
      BY DEF Running
    <3>3. /\ g.kind = "reload" => rt'.ready = NoEngine
          /\ g.pc = "clearing" => rt'.ready = NoEngine
      BY <3>1 DEF BodyInv
    <3> QED BY <1>1, <3>1, <3>2, <3>3, BodyServed
  <2> QED BY <1>3, <2>1
<1>4. ReadyInv'
  <2>1. rt.ready # NoEngine =>
          /\ SourcesStay(rt, rt')
          /\ call'[rt.ready.id] # "none"
          /\ \A k \in DOMAIN queue' : queue'[k].id # rt.ready.id
          /\ rt.srcs[rt.ready.src].st = "open" /\ rt.srcs[rt.ready.src].shared
               => rt'.srcs[rt.ready.src].st = "open"
    BY ServeStay DEF CurrentInv, ReadyInv, SourcesServe
  <2>2. TearingDown => TearingDown'
    BY DEF TearingDown
  <2> QED BY <2>1, <2>2, ReadyStays DEF CurrentInv
<1> QED BY <1>2, <1>3, <1>4 DEF CurrentInv, WorkInv

\* The running body ends: what is left of the work are boots left behind.
LEMMA WorkAfter ==
    ASSUME RuntimeTypes, CurrentInv, NEW f \in work, Running(f.id),
           NEW result \in {"ok", "failed"}, Finished(f, result),
           rt.gen <= rt'.gen, rt'.gen \in Nat
    PROVE  WorkInv'
<1>1. /\ work' = work \ {f} /\ CallEnds(Head(queue).id, result) /\ queue # <<>> /\ Head(queue).id = f.id
  BY DEF Finished, Running
<1>2. ASSUME NEW g \in work' PROVE BodyInv(g)'
  <2>1. g \in work /\ BodyInv(g) /\ BodyTyped(g, rt) /\ g.id # f.id
    BY <1>1 DEF CurrentInv, WorkInv, RuntimeTypes
  <2>2. ~Running(g.id)
    BY <1>1, <2>1 DEF Running
  <2>3. g.kind = "boot" /\ g.gen < rt.gen /\ g.id \in Calls /\ g.gen \in Nat /\ rt.gen \in Nat
    BY <2>1, <2>2 DEF BodyInv, BodyTyped, Bodies, RuntimeTypes, ObjectInv, Objects
  <2>4. QueueFor(g)
    BY <1>1, <2>1, <2>3, QueueForLeaves
  <2> QED BY <2>1, <2>3, <2>4, BodyStale
<1> QED BY <1>1, <1>2 DEF CurrentInv, WorkInv

\* The head leaves the queue: what the engine that is ready sees of it.
LEMMA ReadyOutlives ==
    ASSUME RuntimeTypes, ReadyInv, queue # <<>>, NEW result \in {"ok", "failed"},
           CallEnds(Head(queue).id, result)
    PROVE  /\ rt.ready # NoEngine => /\ call'[rt.ready.id] # "none"
                                     /\ \A k \in DOMAIN queue' : queue'[k].id # rt.ready.id
           /\ Head(queue).kind \notin {"dispose", "clear"} /\ TearingDown => TearingDown'
<1>1. /\ \A k \in DOMAIN queue' : queue'[k] = queue[k + 1] /\ k + 1 \in DOMAIN queue /\ k + 1 # 1
      /\ \A k \in DOMAIN queue : k # 1 => k - 1 \in DOMAIN queue' /\ queue'[k - 1] = queue[k]
  BY QueueLoses DEF CallEnds
<1>2. call' = [call EXCEPT ![Head(queue).id] = result]
  BY DEF CallEnds
<1>3. rt.ready # NoEngine => call'[rt.ready.id] # "none"
  BY <1>2 DEF RuntimeTypes, ReadyInv
<1>4. rt.ready # NoEngine => \A k \in DOMAIN queue' : queue'[k].id # rt.ready.id
  BY <1>1 DEF ReadyInv
<1>5. ASSUME Head(queue).kind \notin {"dispose", "clear"}, TearingDown PROVE TearingDown'
  <2>1. PICK k \in DOMAIN queue : queue[k].kind \in {"dispose", "clear"}
    BY <1>5 DEF TearingDown
  <2>2. k # 1
    BY <1>5, <2>1, InQueue
  <2> QED BY <1>1, <2>1, <2>2 DEF TearingDown
<1> QED BY <1>3, <1>4, <1>5

\* The head is a boot that the generation has left behind, or an operation that changes none
\* of the object's fields: it leaves the queue.
LEMMA HeadLeaves ==
    ASSUME RuntimeTypes, CurrentInv, queue # <<>>, NEW result \in {"ok", "failed"},
           CallEnds(Head(queue).id, result), rt.abort # Head(queue).id,
           Head(queue).kind \notin {"dispose", "clear"},
           rt'.gen = rt.gen, rt'.abort = rt.abort, rt'.aborted = rt.aborted,
           rt'.promise = rt.promise, rt'.ready = rt.ready, rt'.model = rt.model,
           rt'.reload = rt.reload \/ Head(queue).kind = "reload",
           SourcesServe(rt, rt')
    PROVE  QueueInv' /\ ReadyInv'
<1>1. rt.gen \in Nat /\ rt.gen <= rt'.gen /\ rt'.gen \in Nat
  BY DEF RuntimeTypes, ObjectInv, Objects
<1>2. QueueInv'
  BY <1>1, QueueLeaves DEF CurrentInv
<1>3. ReadyInv'
  <2>1. rt.ready # NoEngine =>
          /\ SourcesStay(rt, rt')
          /\ rt.srcs[rt.ready.src].st = "open" /\ rt.srcs[rt.ready.src].shared
               => rt'.srcs[rt.ready.src].st = "open"
    BY ServeStay DEF CurrentInv, ReadyInv, SourcesServe
  <2>2. /\ rt.ready # NoEngine => /\ call'[rt.ready.id] # "none"
                                  /\ \A k \in DOMAIN queue' : queue'[k].id # rt.ready.id
        /\ TearingDown => TearingDown'
    BY ReadyOutlives DEF CurrentInv
  <2> QED BY <2>1, <2>2, ReadyStays DEF CurrentInv
<1> QED BY <1>2, <1>3

\* The boot that is still the current one fails, by itself or by the ceiling on it.
LEMMA CurrentBootFails ==
    ASSUME RuntimeTypes, CurrentInv, queue # <<>>, NEW result \in {"ok", "failed"},
           CallEnds(Head(queue).id, result), Head(queue).kind = "boot",
           rt.abort = Head(queue).id, rt' = BootFailed(rt, Head(queue).id),
           work' \subseteq work
    PROVE  CurrentInv'
<1>1. ObjectInv(rt) /\ rt.gen \in Nat
  BY DEF RuntimeTypes, ObjectInv, Objects
<1>2. /\ ObjectInv(rt') /\ SrcsGo(rt, rt')
      /\ Rest(rt') = <<rt.gen + 1, 0, rt.aborted, 0, rt.reload, rt.ready, FALSE, rt.selection>>
  BY <1>1, BootFailedFacts
<1>3. /\ rt'.gen = rt.gen + 1 /\ rt'.abort = 0 /\ rt'.aborted = rt.aborted
      /\ rt'.reload = rt.reload /\ rt'.ready = rt.ready /\ rt.gen <= rt'.gen /\ rt'.gen \in Nat
  BY <1>1, <1>2 DEF Rest
<1>4. QueueInv'
  BY <1>3, QueueLeaves DEF CurrentInv
<1>5. ASSUME NEW f \in work' PROVE BodyInv(f)'
  <2>1. f \in work /\ BodyInv(f) /\ BodyTyped(f, rt) /\ f.gen \in Nat /\ f.id \in Calls
    BY <1>5 DEF CurrentInv, WorkInv, RuntimeTypes, BodyTyped, Bodies
  <2>2. f.kind = "boot" /\ f.gen < rt'.gen
    BY <1>1, <1>3, <2>1 DEF BodyInv
  <2>3. QueueFor(f)
    BY <2>1, <2>2, QueueForLeaves
  <2> QED BY <1>3, <2>1, <2>2, <2>3, BodyStale
<1>6. ReadyInv'
  <2>1. /\ rt.ready # NoEngine => /\ call'[rt.ready.id] # "none"
                                  /\ \A k \in DOMAIN queue' : queue'[k].id # rt.ready.id
        /\ TearingDown => TearingDown'
    BY ReadyOutlives DEF CurrentInv
  <2>2. rt.promise = Head(queue).id
    BY InQueue DEF CurrentInv, QueueInv, OpInv
  <2>3. rt.ready # NoEngine => rt.ready.id # rt.promise
    BY <2>2, InQueue DEF CurrentInv, ReadyInv
  <2> QED BY <1>2, <1>3, <2>1, <2>3, ServeStay, ReadyStays DEF CurrentInv
<1> QED BY <1>4, <1>5, <1>6 DEF CurrentInv, WorkInv

\* The fields of the rest, one by one.
LEMMA FieldsOf ==
    ASSUME NEW r, NEW q, Rest(q) = Rest(r)
    PROVE  /\ q.gen = r.gen /\ q.abort = r.abort /\ q.aborted = r.aborted /\ q.promise = r.promise
           /\ q.reload = r.reload /\ q.ready = r.ready
BY DEF Rest

\* A body fails: a boot that was given up touches nothing, any other is the running
\* call's.
LEMMA BodyFailsStep ==
    ASSUME RuntimeTypes, RuntimeTypes', CurrentInv, NEW f \in work, BodyFails(f),
           f.kind \in {"boot", "reload", "clear"}, f.kind = "clear" => f.pc = "clearing"
    PROVE  CurrentInv'
<1>1. /\ ObjectInv(rt) /\ rt.gen \in Nat /\ BodyInv(f) /\ BodyTyped(f, rt) /\ Finished(f, "failed")
      /\ rt.gen <= rt.gen
  BY DEF RuntimeTypes, ObjectInv, Objects, CurrentInv, WorkInv, BodyFails
<1>2. CASE ~Running(f.id)
  <2>1. f.kind = "boot" /\ rt' = rt /\ UNCHANGED <<queue, call>> /\ work' = work \ {f}
    BY <1>1, <1>2 DEF BodyInv, BodyFails, Finished
  <2> QED BY <1>1, <2>1, KeptServe, StillStep DEF CurrentInv, WorkInv
<1>3. CASE Running(f.id)
  <2>1. /\ queue # <<>> /\ Head(queue).id = f.id /\ Head(queue).kind = f.kind
        /\ CallEnds(Head(queue).id, "failed") /\ work' = work \ {f}
    BY <1>1, <1>3 DEF BodyInv, Running, Finished
  <2>2. CASE f.kind = "boot"
    <3>1. rt' = BootFailed(rt, Head(queue).id)
      BY <1>3, <2>1, <2>2 DEF BodyFails
    <3>2. CASE rt.abort = Head(queue).id
      BY <2>1, <2>2, <3>1, <3>2, CurrentBootFails
    <3>3. CASE rt.abort # Head(queue).id
      <4>1. rt' = rt
        BY <3>1, <3>3 DEF BootFailed
      <4>2. WorkInv'
        BY <1>1, <1>3, <4>1, WorkAfter
      <4>3. QueueInv' /\ ReadyInv'
        BY <1>1, <2>1, <2>2, <3>3, <4>1, KeptServe, HeadLeaves
      <4> QED BY <4>2, <4>3 DEF CurrentInv
    <3> QED BY <3>2, <3>3
  <2>3. CASE f.kind = "reload"
    <3>1. rt' = ReloadFailed(rt)
      BY <2>3 DEF BodyFails
    <3>2. /\ ObjectInv(rt')
          /\ Rest(rt') = <<rt.gen, rt.abort, rt.aborted, 0, 0, rt.ready, rt.config, rt.selection>>
      BY <1>1, <3>1, ReloadFailedFacts
    <3>3. /\ rt'.gen = rt.gen /\ rt'.abort = rt.abort /\ rt'.aborted = rt.aborted
          /\ rt'.ready = NoEngine
      BY <1>1, <2>3, <3>2 DEF Rest, BodyInv
    <3>4. WorkInv'
      BY <1>1, <1>3, <3>3, WorkAfter
    <3>5. QueueInv'
      BY <1>1, <2>1, <2>3, <3>3, QueueLeaves DEF CurrentInv
    <3> QED BY <3>3, <3>4, <3>5 DEF CurrentInv, ReadyInv
  <2>4. CASE f.kind = "clear"
    <3>1. rt' = TornDown(rt)
      BY <2>4 DEF BodyFails
    <3>2. Rest(rt') = <<rt.gen, rt.abort, rt.aborted, 0, rt.reload, rt.ready, FALSE, rt.selection>>
      BY <1>1, <3>1, TornDownFacts
    <3>3. /\ rt'.gen = rt.gen /\ rt'.abort = rt.abort /\ rt'.aborted = rt.aborted
          /\ rt'.ready = NoEngine /\ rt'.reload = rt.reload
      BY <1>1, <2>4, <3>2 DEF Rest, BodyInv
    <3>4. WorkInv'
      BY <1>1, <1>3, <3>3, WorkAfter
    <3>5. QueueInv'
      BY <1>1, <2>1, <2>4, <3>3, QueueLeaves DEF CurrentInv
    <3> QED BY <3>3, <3>4, <3>5 DEF CurrentInv, ReadyInv
  <2> QED BY <2>2, <2>3, <2>4
<1> QED BY <1>2, <1>3

\* What is published is the engine the promise stands for.
LEMMA PublishesStep ==
    ASSUME RuntimeTypes, RuntimeTypes', CurrentInv, NEW f \in work, Publishes(f),
           Loading(f), Current(f) => rt.srcs[f.src].st = "open"
    PROVE  CurrentInv'
<1>1. /\ ObjectInv(rt) /\ rt.gen \in Nat /\ BodyInv(f) /\ BodyTyped(f, rt) /\ f \in Bodies
      /\ f.kind \in {"boot", "reload"} /\ rt.gen <= rt.gen
  BY SMTT(20) DEF RuntimeTypes, ObjectInv, Objects, CurrentInv, WorkInv, BodyTyped, Doing, Loading
<1>2. CASE ~Current(f)
  BY <1>1, <1>2, BodyFailsStep DEF Publishes
<1>3. CASE Current(f)
  <2>1. /\ ObjectInv(rt') /\ Owned(rt') = Owned(rt) /\ Finished(f, "ok")
        /\ rt'.ready = [id |-> f.id, src |-> f.src, model |-> f.model, gen |-> rt.gen]
        /\ rt'.gen = rt.gen /\ rt'.aborted = rt.aborted
        /\ rt'.abort = IF rt.abort = f.id THEN 0 ELSE rt.abort
        /\ rt'.promise = IF f.kind = "reload" THEN f.id ELSE rt.promise
        /\ rt'.reload = IF rt.reload = f.id THEN 0 ELSE rt.reload
    BY <1>1, <1>3, PublishesFacts
  <2>2. Running(f.id)
    BY <1>1, <1>3 DEF BodyInv, Current
  <2>3. /\ queue # <<>> /\ Head(queue).id = f.id /\ Head(queue).kind = f.kind
        /\ Head(queue).gen = f.gen /\ CallEnds(Head(queue).id, "ok") /\ work' = work \ {f}
    BY <1>1, <2>1, <2>2 DEF BodyInv, Running, Finished
  <2>4. WorkInv'
    BY <1>1, <2>1, <2>2, WorkAfter
  <2>5. f.kind = "boot" => rt.abort = f.id /\ rt.promise = f.id
    <3> SUFFICES ASSUME f.kind = "boot" PROVE rt.abort = f.id /\ rt.promise = f.id
      OBVIOUS
    <3>1. f.gen = rt.gen
      BY <1>3 DEF Current
    <3>2. queue[1] = Head(queue) /\ OpInv(1)
      BY <2>3, InQueue DEF CurrentInv, QueueInv
    <3> QED BY <1>1, <2>3, <3>1, <3>2 DEF OpInv
  <2>6. QueueInv'
    <3>1. CASE f.kind = "boot"
      BY <1>1, <2>1, <2>3, <2>5, <3>1, QueueLeaves DEF CurrentInv
    <3>2. CASE f.kind = "reload"
      BY <1>1, <2>1, <2>3, <3>2, QueueLeaves DEF CurrentInv
    <3> QED BY <1>1, <3>1, <3>2
  <2>7. ReadyInv'
    <3>1. /\ rt'.ready.id = f.id /\ rt'.ready.src = f.src /\ rt'.ready.model = f.model
          /\ rt'.srcs = rt.srcs /\ rt'.model = rt.model
      BY <2>1 DEF Owned
    <3>2. f.src # 0 /\ rt.srcs[f.src].shared /\ rt.srcs[f.src].st = "open"
      BY <1>1, <1>3 DEF BodyInv
    <3>3. f.src \in DOMAIN rt.srcs
      BY <1>1, <3>2 DEF BodyTyped, ObjectInv, Objects
    <3>4. f.model = rt.model /\ rt.model # 0
      BY <1>1, <1>3 DEF BodyInv, Current
    <3>5. rt'.promise = f.id
      BY <1>1, <2>1, <2>5
    <3>6. call'[f.id] # "none"
      BY <1>1, <2>3 DEF CallEnds, RuntimeTypes, Bodies
    <3>7. \A k \in DOMAIN queue' : queue'[k].id # f.id
      <4>1. queue' = Tail(queue)
        BY <2>3 DEF CallEnds
      <4> QED BY <1>1, <2>3, <4>1, QueueLoses DEF BodyInv
    <3> QED BY <3>1, <3>2, <3>3, <3>4, <3>5, <3>6, <3>7 DEF ReadyInv
  <2> QED BY <2>4, <2>6, <2>7 DEF CurrentInv
<1> QED BY <1>2, <1>3

\* One body goes on as another of the same call.
LEMMA OnlyIds ==
    ASSUME WorkInv, NEW f \in work, NEW g, g.id = f.id, work' = (work \ {f}) \cup {g}
    PROVE  \A x, y \in work' : x.id = y.id => x = y
BY DEF WorkInv

\* A body that is not outdated goes on to the catalogue with a source that serves.
LEMMA LoadsCatalogStep ==
    ASSUME RuntimeTypes, RuntimeTypes', CurrentInv, NEW f \in work, LoadsCatalog(f, rt),
           Current(f), f.kind \in {"boot", "reload"}
    PROVE  CurrentInv'
<1> DEFINE s == SourceFor(rt)
<1>0. PICK g : g = [f EXCEPT !.pc = "catalog", !.src = s.memo, !.model = s.model]
  OBVIOUS
<1>1. ObjectInv(rt) /\ f \in Bodies /\ BodyInv(f) /\ rt.gen \in Nat
  BY DEF RuntimeTypes, BodyTyped, CurrentInv, WorkInv, ObjectInv, Objects
<1>2. ObjectInv(s) /\ Rest(s) = Rest(rt) /\ s.model = rt.model /\ SrcsKept(rt, s) /\ s.memo # 0
  BY <1>1, SourceForFacts
<1>3. rt' = s /\ work' = (work \ {f}) \cup {g} /\ UNCHANGED <<queue, call>>
  BY <1>0 DEF LoadsCatalog, GoesTo
<1> HIDE DEF s
<1>4. /\ g.id = f.id /\ g.kind = f.kind /\ g.gen = f.gen /\ g.pc = "catalog" /\ g.src = s.memo
      /\ g.model = s.model
  BY <1>0, <1>1 DEF Bodies
<1>5. /\ s.gen = rt.gen /\ s.abort = rt.abort /\ s.aborted = rt.aborted /\ s.promise = rt.promise
      /\ s.reload = rt.reload /\ s.ready = rt.ready
  BY <1>2, FieldsOf
<1>6. s.srcs[s.memo].shared /\ s.srcs[s.memo].st \in {"opening", "open"}
  BY <1>2 DEF ObjectInv, MemoIsGood
<1>7. (Running(g.id))' <=> Running(f.id)
  BY <1>3, <1>4 DEF Running
<1>8. BodyInv(g)'
  BY <1>1, <1>2, <1>3, <1>4, <1>5, <1>6, <1>7 DEF BodyInv, Current
<1>9. SourcesServe(rt, s)
  BY <1>1, <1>2, KeptServe
<1>10. \A x, y \in work' : x.id = y.id => x = y
  BY <1>3, <1>4, OnlyIds DEF CurrentInv
<1>11. \A x \in work' : x \in work \/ BodyInv(x)'
  BY <1>3, <1>8
<1> QED BY <1>2, <1>3, <1>5, <1>9, <1>10, <1>11, StillStep

\* It goes on to the next list, or publishes.
LEMMA LoadsListStep ==
    ASSUME RuntimeTypes, RuntimeTypes', CurrentInv, NEW f \in work, NEW todo, LoadsList(f, todo),
           Loading(f), Current(f) => rt.srcs[f.src].st = "open"
    PROVE  CurrentInv'
<1> DEFINE s == IF rt.selection.streaming THEN rt ELSE SourceFor(rt)
           n == IF rt.selection.streaming THEN f.src ELSE s.memo
<1>0. PICK g : g = [f EXCEPT !.pc = "list", !.todo = todo, !.src = n]
  OBVIOUS
<1>1. /\ ObjectInv(rt) /\ f \in Bodies /\ BodyInv(f) /\ rt.gen \in Nat /\ BodyTyped(f, rt)
      /\ f.kind \in {"boot", "reload"} /\ DOMAIN rt.srcs = 1..Len(rt.srcs) /\ Len(rt.srcs) \in Nat
  BY DEF RuntimeTypes, BodyTyped, CurrentInv, WorkInv, ObjectInv, Objects, Doing, Loading
<1>2. CASE todo = {}
  BY <1>1, <1>2, PublishesStep DEF LoadsList
<1>3. CASE todo # {}
  <2>1. ObjectInv(s) /\ Rest(s) = Rest(rt) /\ s.model = rt.model /\ SrcsKept(rt, s)
    BY <1>1, SourceForFacts DEF SrcsKept
  <2>2. rt' = s /\ work' = (work \ {f}) \cup {g} /\ UNCHANGED <<queue, call>>
    BY <1>0, <1>3 DEF LoadsList, GoesTo
  <2>3. n = f.src \/ (n = s.memo /\ s.memo # 0)
    BY <1>1, SourceForFacts
  <2> HIDE DEF s, n
  <2>4. /\ g.id = f.id /\ g.kind = f.kind /\ g.gen = f.gen /\ g.pc = "list" /\ g.src = n
        /\ g.model = f.model
    BY <1>0, <1>1 DEF Bodies
  <2>5. /\ s.gen = rt.gen /\ s.abort = rt.abort /\ s.aborted = rt.aborted /\ s.promise = rt.promise
        /\ s.reload = rt.reload /\ s.ready = rt.ready
    BY <2>1, FieldsOf
  <2>6. Current(f) => n # 0 /\ s.srcs[n].shared /\ s.srcs[n].st \in {"opening", "open", "failed"}
    <3>1. CASE n = s.memo /\ s.memo # 0
      BY <2>1, <3>1 DEF ObjectInv, MemoIsGood
    <3>2. CASE n = f.src
      <4> SUFFICES ASSUME Current(f)
                   PROVE  n # 0 /\ s.srcs[n].shared /\ s.srcs[n].st \in {"opening", "open", "failed"}
        OBVIOUS
      <4>1. f.src # 0 /\ rt.srcs[f.src].shared /\ rt.srcs[f.src].st \in {"opening", "open", "failed"}
        BY <1>1 DEF BodyInv
      <4>2. f.src \in DOMAIN rt.srcs
        BY <1>1, <4>1 DEF BodyTyped
      <4> QED BY <2>1, <3>2, <4>1, <4>2 DEF SrcsKept
    <3> QED BY <2>3, <3>1, <3>2
  <2>7. Current(g)' <=> Current(f)
    BY <2>2, <2>4, <2>5 DEF Current
  <2>8. Running(g.id)' <=> Running(f.id)
    BY <2>2, <2>4 DEF Running
  <2>9. BodyInv(g)'
    BY <1>1, <2>1, <2>2, <2>4, <2>5, <2>6, <2>7, <2>8 DEF BodyInv, Loading
  <2>10. SourcesServe(rt, s)
    BY <1>1, <2>1, KeptServe
  <2>11. \A x, y \in work' : x.id = y.id => x = y
    BY <2>2, <2>4, OnlyIds DEF CurrentInv
  <2>12. \A x \in work' : x \in work \/ BodyInv(x)'
    BY <2>2, <2>9
  <2> QED BY <2>1, <2>2, <2>5, <2>10, <2>11, <2>12, StillStep
<1> QED BY <1>2, <1>3

\* A body of no boot or reload has only its place in the queue to keep.
LEMMA BodyIdle ==
    ASSUME NEW f, BodyTyped(f, rt), BodyInv(f), QueueFor(f),
           f.kind \notin {"boot", "reload"}, f.pc = "clearing" => rt'.ready = NoEngine
    PROVE  BodyInv(f)'
BY DEF BodyInv, BodyTyped, Doing, Loading, QueueFor

\* What a page may call.
LEMMA PageCallsStep ==
    ASSUME RuntimeTypes, RuntimeTypes', CurrentInv, CallersWait, PageCalls PROVE CurrentInv'
<1>1. /\ ObjectInv(rt) /\ rt.gen \in Nat /\ rt.gen <= rt.gen /\ QueueInv /\ ReadyInv
      /\ \A f \in work : BodyInv(f) /\ BodyTyped(f, rt) /\ f.id \in Calls /\ f.gen \in Nat
  BY SMTT(20) DEF RuntimeTypes, BodyTyped, Bodies, CurrentInv, WorkInv, ObjectInv, Objects
<1>2. PICK i \in NextCall :
        \/ \E sel \in Selections : Bootstrap(i, sel) \/ Reload(i, sel)
        \/ \E kind \in Kinds : Teardown(kind, i) \/ Read(kind, i)
  BY DEF PageCalls
<1>3. i \in Calls /\ call[i] = "none"
  BY DEF NextCall
<1>4. ASSUME NEW kind, NEW sel, Enqueued(kind, i, sel)
      PROVE  /\ work' = work /\ \A f \in work : QueueFor(f)
             /\ \A f \in work : Running(f.id) => Running(f.id)'
             /\ rt.ready # NoEngine => /\ call'[rt.ready.id] # "none"
                                       /\ \A k \in DOMAIN queue' : queue'[k].id # rt.ready.id
             /\ TearingDown \/ kind \in {"dispose", "clear"} => TearingDown'
  <2> DEFINE op == [kind |-> kind, id |-> i, sel |-> sel, gen |-> rt.gen]
  <2>1. op.id = i /\ op.kind = kind /\ queue' = Append(queue, op) /\ call' = [call EXCEPT ![i] = "pending"]
        /\ work' = work
    BY <1>4 DEF Enqueued
  <2> HIDE DEF op
  <2>2. /\ \A k \in DOMAIN queue : k \in DOMAIN queue' /\ queue'[k] = queue[k]
        /\ queue'[Len(queue) + 1] = op /\ Len(queue) + 1 \in DOMAIN queue'
        /\ \A k \in DOMAIN queue' : k \in DOMAIN queue \/ k = Len(queue) + 1
        /\ queue # <<>> => Head(queue') = Head(queue)
        /\ queue' # <<>>
    BY <2>1, QueueGains
  <2>3. \A f \in work : QueueFor(f)
    BY <1>1, <1>4, QueueForGrows
  <2>4. \A f \in work : Running(f.id) => Running(f.id)'
    BY <2>2 DEF Running
  <2>5. rt.ready # NoEngine => rt.ready.id # i /\ call'[rt.ready.id] # "none"
    BY <1>1, <1>3, <2>1 DEF ReadyInv, RuntimeTypes
  <2>6. rt.ready # NoEngine => \A k \in DOMAIN queue' : queue'[k].id # rt.ready.id
    BY <1>1, <2>1, <2>2, <2>5 DEF ReadyInv
  <2>7. TearingDown \/ kind \in {"dispose", "clear"} => TearingDown'
    BY <2>1, <2>2 DEF TearingDown
  <2> QED BY <2>1, <2>3, <2>4, <2>5, <2>6, <2>7
<1>5. ASSUME NEW kind, NEW sel, Enqueued(kind, i, sel), SourcesServe(rt, rt'),
             rt'.gen = rt.gen, rt'.model = rt.model, rt'.ready = rt.ready
      PROVE  WorkInv'
  <2>1. /\ work' = work /\ \A f \in work : QueueFor(f)
        /\ \A f \in work : Running(f.id) => Running(f.id)'
    BY <1>4, <1>5
  <2>2. ASSUME NEW f \in work PROVE BodyInv(f)'
    <3>1. /\ f.kind = "reload" => rt'.ready = NoEngine
          /\ f.pc = "clearing" => rt'.ready = NoEngine
      BY <1>1, <1>5 DEF BodyInv
    <3> QED BY <1>1, <1>5, <2>1, <3>1, BodyServed
  <2> QED BY <2>1, <2>2 DEF CurrentInv, WorkInv
<1>6. ASSUME NEW kind, NEW sel, Enqueued(kind, i, sel), SourcesServe(rt, rt'),
             rt'.promise = rt.promise, rt'.model = rt.model, rt'.ready = rt.ready
      PROVE  ReadyInv'
  <2>1. /\ rt.ready # NoEngine => /\ call'[rt.ready.id] # "none"
                                  /\ \A k \in DOMAIN queue' : queue'[k].id # rt.ready.id
        /\ TearingDown => TearingDown'
    BY <1>4, <1>6
  <2>2. rt.ready # NoEngine /\ rt.srcs[rt.ready.src].st = "open" /\ rt.srcs[rt.ready.src].shared
          => rt'.srcs[rt.ready.src].st = "open"
    BY <1>1, <1>6 DEF ReadyInv, SourcesServe
  <2>3. SourcesStay(rt, rt')
    BY <1>6, ServeStay
  <2> QED BY <1>1, <1>6, <2>1, <2>2, <2>3, ReadyStays
<1>7. ASSUME NEW sel \in Selections, Bootstrap(i, sel) PROVE CurrentInv'
  <2>1. /\ Owned(rt') = Owned(rt)
        /\ Rest(rt') = <<rt.gen, i, rt.aborted, i, rt.reload, rt.ready, rt.config, sel>>
    BY <1>3, <1>7, BootstrapFacts
  <2>2. /\ rt'.gen = rt.gen /\ rt'.abort = i /\ rt'.aborted = rt.aborted /\ rt'.promise = i
        /\ rt'.reload = rt.reload /\ rt'.ready = rt.ready /\ rt'.srcs = rt.srcs /\ rt'.model = rt.model
    BY <2>1 DEF Rest, Owned
  <2>3. Enqueued("boot", i, sel) /\ rt.reload = 0 /\ rt.promise = 0 /\ ~TearingDown
    BY <1>7 DEF Bootstrap
  <2>4. QueueInv'
    BY <1>1, <2>2, <2>3, QueueGrows
  <2>5. WorkInv'
    BY <1>1, <1>5, <2>2, <2>3, KeptServe
  <2>6. rt'.ready = NoEngine
    <3>1. rt.ready # NoEngine => rt.ready.id # 0
      BY RuntimeAssumption DEF RuntimeTypes, Calls
    <3> QED BY <1>1, <2>2, <2>3, <3>1 DEF ReadyInv
  <2> QED BY <2>4, <2>5, <2>6 DEF CurrentInv, ReadyInv
<1>8. ASSUME NEW sel \in Selections, Reload(i, sel) PROVE CurrentInv'
  <2>1. /\ Owned(rt') = Owned(rt)
        /\ Rest(rt') = <<rt.gen, rt.abort, rt.aborted, rt.promise, i, rt.ready, rt.config, rt.selection>>
    BY <1>3, <1>8, ReloadAskedFacts
  <2>2. /\ rt'.gen = rt.gen /\ rt'.abort = rt.abort /\ rt'.aborted = rt.aborted /\ rt'.promise = rt.promise
        /\ rt'.reload = i /\ rt'.ready = rt.ready /\ rt'.srcs = rt.srcs /\ rt'.model = rt.model
    BY <2>1 DEF Rest, Owned
  <2>3. Enqueued("reload", i, sel) /\ rt.reload = 0
    BY <1>8 DEF Reload
  <2>4. QueueInv'
    BY <1>1, <2>2, <2>3, QueueGrows
  <2> QED BY <1>1, <1>5, <1>6, <2>2, <2>3, <2>4, KeptServe DEF CurrentInv
<1>9. ASSUME NEW kind \in Kinds, Read(kind, i) PROVE CurrentInv'
  <2>1. rt' = rt /\ Enqueued(kind, i, rt.selection) /\ kind \notin {"boot", "reload"}
    BY <1>9 DEF Read
  <2>2. QueueInv'
    BY <1>1, <2>1, QueueGrows
  <2> QED BY <1>1, <1>5, <1>6, <2>1, <2>2, KeptServe DEF CurrentInv
<1>10. ASSUME NEW kind \in Kinds, Teardown(kind, i) PROVE CurrentInv'
  <2>1. rt' = BootAborted(rt) /\ Enqueued(kind, i, rt.selection) /\ kind \in {"dispose", "clear"}
    BY <1>10 DEF Teardown
  <2>2. CASE rt.abort = 0
    <3>1. rt' = rt
      BY <2>1, <2>2 DEF BootAborted
    <3>2. QueueInv'
      BY <1>1, <2>1, <3>1, QueueGrows
    <3> QED BY <1>1, <1>5, <1>6, <2>1, <3>1, <3>2, KeptServe DEF CurrentInv
  <2>3. CASE rt.abort # 0
    <3>1. /\ SrcsGo(rt, rt')
          /\ Rest(rt') = <<rt.gen + 1, 0, rt.aborted \cup {rt.abort}, rt.promise, rt.reload,
                           rt.ready, rt.config, rt.selection>>
      BY <1>1, <2>1, <2>3, BootAbortedFacts
    <3>2. /\ rt'.gen = rt.gen + 1 /\ rt'.abort = 0 /\ rt'.aborted = rt.aborted \cup {rt.abort}
          /\ rt'.reload = rt.reload /\ rt'.ready = rt.ready /\ rt'.gen \in Nat
      BY <1>1, <3>1 DEF Rest
    <3>3. QueueInv'
      BY <1>1, <2>1, <2>3, <3>2, QueueGrows
    <3>4. /\ work' = work /\ \A f \in work : QueueFor(f)
          /\ rt.ready # NoEngine => /\ call'[rt.ready.id] # "none"
                                    /\ \A k \in DOMAIN queue' : queue'[k].id # rt.ready.id
          /\ TearingDown'
      BY <1>4, <2>1
    <3>5. ReadyInv'
      BY <1>1, <3>1, <3>2, <3>4, ServeStay, ReadyStays
    <3>6. ASSUME NEW f \in work PROVE BodyInv(f)'
      <4>1. CASE f.kind = "boot"
        <5>1. f.gen < rt'.gen
          BY <1>1, <3>2, <4>1 DEF BodyInv
        <5> QED BY <1>1, <3>2, <3>4, <4>1, <5>1, BodyStale
      <4>2. CASE f.kind # "boot"
        <5>1. Head(queue).kind = f.kind /\ queue # <<>>
          BY <1>1, <4>2 DEF BodyInv, Running
        <5>2. f.kind \notin {"boot", "reload", "dispose", "clear"}
          BY <1>1, <2>3, <4>2, <5>1, NoBootBehind
        <5>3. f.pc # "clearing"
          BY <1>1, <5>2 DEF BodyTyped, Doing
        <5> QED BY <1>1, <3>4, <5>2, <5>3, BodyIdle
      <4> QED BY <4>1, <4>2
    <3> QED BY <3>3, <3>4, <3>5, <3>6 DEF CurrentInv, WorkInv
  <2> QED BY <2>2, <2>3
<1> QED BY <1>2, <1>7, <1>8, <1>9, <1>10

\* The call at the head begins: a boot, a reload, a teardown, or a read.
LEMMA StartNextStep ==
    ASSUME RuntimeTypes, RuntimeTypes', CurrentInv, StartNext PROVE CurrentInv'
<1>0. PICK op : op = Head(queue)
  OBVIOUS
<1>1. /\ ObjectInv(rt) /\ rt.gen \in Nat /\ rt.gen <= rt.gen /\ QueueInv /\ ReadyInv /\ WorkInv
      /\ queue # <<>> /\ op = queue[1] /\ 1 \in DOMAIN queue /\ op \in Ops /\ op.gen \in Nat
      /\ op.id \in Calls /\ OpInv(1)
  BY <1>0, InQueue, SMTT(20) DEF RuntimeTypes, CurrentInv, ObjectInv, Objects, StartNext, QueueInv, Ops
<1>2. /\ \A f \in work : f.id # op.id
      /\ StartBoot(op) \/ StartReload(op) \/ StartTeardown(op) \/ StartCatalog(op) \/ StartOwn(op)
  BY <1>0 DEF StartNext
<1>3. \A f \in work : /\ BodyInv(f) /\ BodyTyped(f, rt) /\ f.id \in Calls /\ f.gen \in Nat
                       /\ ~Running(f.id) /\ f.kind = "boot" /\ f.gen < rt.gen
  BY <1>0, <1>1, <1>2 DEF RuntimeTypes, BodyTyped, Bodies, WorkInv, BodyInv, Running
<1>4. ASSUME NEW g, g.id = op.id, work' = work \cup {g}
      PROVE  \A x, y \in work' : x.id = y.id => x = y
  BY <1>1, <1>2, <1>4 DEF WorkInv
<1>5. ASSUME NEW g, g.id = op.id, g.kind = op.kind, g.gen = op.gen, UNCHANGED <<queue, call>>,
             ~Loading(g), g.kind = "reload" => rt'.ready = NoEngine /\ rt'.model # 0,
             g.kind = "boot" => g.gen <= rt'.gen /\ (g.gen = rt'.gen => g.model = rt'.model /\ rt'.model # 0),
             g.pc # "clearing"
      PROVE  BodyInv(g)'
  <2>1. Running(g.id)' /\ Head(queue') = op
    BY <1>0, <1>1, <1>5 DEF Running
  <2>2. call'[g.id] # "none" /\ \A k \in DOMAIN queue' : queue'[k].id = g.id => k = 1
    BY <1>1, <1>5 DEF OpInv
  <2> QED BY <1>5, <2>1, <2>2 DEF BodyInv
<1>6. ASSUME UNCHANGED <<queue, call>>, NEW f \in work, rt.gen <= rt'.gen, rt'.gen \in Nat
      PROVE  BodyInv(f)'
  <2>1. QueueFor(f)
    BY <1>3, <1>6, QueueForStill
  <2>2. f.gen < rt'.gen
    BY <1>1, <1>3, <1>6
  <2> QED BY <1>3, <1>6, <2>1, <2>2, BodyStale
<1>7. CASE StartBoot(op)
  <2> DEFINE b == Body(op, "warm", 0)
  <2>0. PICK g : g = [b EXCEPT !.model = rt'.model]
    OBVIOUS
  <2>1. /\ rt'.srcs = rt.srcs /\ rt'.model # 0 /\ (rt.model # 0 => rt'.model = rt.model)
        /\ Rest(rt') = <<rt.gen, rt.abort, rt.aborted, rt.promise, rt.reload, rt.ready, TRUE, rt.selection>>
    BY <1>7, StartBootFacts
  <2>2. /\ rt'.gen = rt.gen /\ rt'.abort = rt.abort /\ rt'.aborted = rt.aborted
        /\ rt'.promise = rt.promise /\ rt'.reload = rt.reload /\ rt'.ready = rt.ready
    BY <2>1 DEF Rest
  <2>3. /\ b \in Bodies /\ b.pc = "warm" /\ b.kind = op.kind /\ b.id = op.id /\ b.gen = op.gen
        /\ op.kind = "boot"
    BY <1>1, <1>7, NewBody DEF StartBoot
  <2>4. work' = work \cup {g} /\ UNCHANGED <<queue, call>>
    BY <1>7, <2>0 DEF StartBoot
  <2> HIDE DEF b
  <2>5. /\ g.pc = "warm" /\ g.kind = op.kind /\ g.id = op.id /\ g.gen = op.gen /\ g.model = rt'.model
    BY <2>0, <2>3 DEF Bodies
  <2>6. op.gen <= rt.gen
    BY <1>1, <2>3 DEF OpInv
  <2>7. BodyInv(g)'
    BY <1>5, <2>1, <2>2, <2>3, <2>4, <2>5, <2>6 DEF Loading
  <2>8. QueueInv'
    BY <1>1, <2>2, <2>4, QueueStill
  <2>9. WorkInv'
    BY <1>1, <1>4, <1>6, <2>2, <2>4, <2>5, <2>7 DEF WorkInv
  <2>10. ReadyInv'
    <3>1. SourcesStay(rt, rt')
      BY <1>1, <2>1, KeptServe, ServeStay
    <3>2. TearingDown => TearingDown'
      BY <2>4 DEF TearingDown
    <3>3. rt.ready # NoEngine => /\ call'[rt.ready.id] # "none"
                                /\ \A k \in DOMAIN queue' : queue'[k].id # rt.ready.id
      BY <1>1, <2>4 DEF ReadyInv
    <3> QED BY <1>1, <2>1, <2>2, <3>1, <3>2, <3>3, ReadyStays
  <2> QED BY <2>8, <2>9, <2>10 DEF CurrentInv
<1>8. CASE StartReload(op)
  <2> DEFINE b == Body(op, "drain", 0)
  <2>0. PICK g : g = [b EXCEPT !.old = rt.ready.id]
    OBVIOUS
  <2>1. /\ Owned(rt') = Owned(rt)
        /\ \/ /\ CallEnds(op.id, "failed") /\ UNCHANGED work
              /\ Rest(rt') = <<rt.gen, rt.abort, rt.aborted, rt.promise, 0, rt.ready, rt.config, rt.selection>>
           \/ /\ rt.model # 0 /\ UNCHANGED <<queue, call>> /\ work' = work \cup {g}
              /\ Rest(rt') = <<rt.gen, rt.abort, rt.aborted, 0, rt.reload, NoEngine, rt.config, op.sel>>
    BY <1>1, <1>8, <2>0, StartReloadFacts
  <2>2. /\ b \in Bodies /\ b.pc = "drain" /\ b.kind = op.kind /\ b.id = op.id /\ b.gen = op.gen
        /\ op.kind = "reload"
    BY <1>1, <1>8, NewBody DEF StartReload
  <2> HIDE DEF b
  <2>3. /\ g.pc = "drain" /\ g.kind = op.kind /\ g.id = op.id /\ g.gen = op.gen
    BY <2>0, <2>2 DEF Bodies
  <2>4. rt'.srcs = rt.srcs /\ rt'.model = rt.model
    BY <2>1 DEF Owned
  <2>5. rt.abort = 0 /\ \A k \in DOMAIN queue : queue[k].kind # "boot"
    BY <1>0, <1>1, <2>2, NoBootBehind
  <2>6. CASE /\ CallEnds(op.id, "failed") /\ UNCHANGED work
             /\ Rest(rt') = <<rt.gen, rt.abort, rt.aborted, rt.promise, 0, rt.ready, rt.config, rt.selection>>
    <3>1. /\ rt'.gen = rt.gen /\ rt'.abort = rt.abort /\ rt'.aborted = rt.aborted
          /\ rt'.promise = rt.promise /\ rt'.reload = 0 /\ rt'.ready = rt.ready
      BY <2>6 DEF Rest
    <3>2. rt.abort # op.id
      BY <1>1, <2>5, InQueue
    <3>3. QueueInv' /\ ReadyInv'
      BY <1>0, <1>1, <2>2, <2>4, <2>6, <3>1, <3>2, KeptServe, HeadLeaves
    <3>4. ASSUME NEW f \in work PROVE BodyInv(f)'
      BY <1>0, <1>1, <1>3, <2>6, <3>1, QueueForLeaves, BodyStale
    <3> QED BY <1>1, <2>6, <3>3, <3>4 DEF CurrentInv, WorkInv
  <2>7. CASE /\ rt.model # 0 /\ UNCHANGED <<queue, call>> /\ work' = work \cup {g}
             /\ Rest(rt') = <<rt.gen, rt.abort, rt.aborted, 0, rt.reload, NoEngine, rt.config, op.sel>>
    <3>1. /\ rt'.gen = rt.gen /\ rt'.abort = rt.abort /\ rt'.aborted = rt.aborted
          /\ rt'.reload = rt.reload /\ rt'.ready = NoEngine
      BY <2>7 DEF Rest
    <3>2. BodyInv(g)'
      BY <1>5, <2>2, <2>3, <2>4, <2>7, <3>1 DEF Loading
    <3>3. QueueInv'
      BY <1>1, <2>5, <2>7, <3>1, QueueStill
    <3>4. WorkInv'
      BY <1>1, <1>4, <1>6, <2>3, <2>7, <3>1, <3>2 DEF WorkInv
    <3> QED BY <3>1, <3>3, <3>4 DEF CurrentInv, ReadyInv
  <2> QED BY <2>1, <2>6, <2>7
<1>9. CASE StartTeardown(op)
  <2>0. PICK g : g = Body(op, "evict", rt.memo)
    OBVIOUS
  <2>1. /\ SrcsGo(rt, rt')
        /\ Rest(rt') = <<rt.gen + 1, rt.abort, rt.aborted, rt.promise, rt.reload, rt.ready,
                         rt.config, rt.selection>>
    BY <1>9, StartTeardownFacts
  <2>2. /\ rt'.gen = rt.gen + 1 /\ rt'.abort = rt.abort /\ rt'.aborted = rt.aborted
        /\ rt'.reload = rt.reload /\ rt'.ready = rt.ready /\ rt'.gen \in Nat /\ rt.gen <= rt'.gen
    BY <1>1, <2>1 DEF Rest
  <2>3. /\ g.pc = "evict" /\ g.kind = op.kind /\ g.id = op.id /\ g.gen = op.gen
        /\ op.kind \in {"dispose", "clear"}
    BY <1>9, <2>0 DEF StartTeardown, Body
  <2>4. work' = work \cup {g} /\ UNCHANGED <<queue, call>>
    BY <1>9, <2>0 DEF StartTeardown
  <2>5. \A k \in DOMAIN queue : queue[k].kind # "boot"
    BY <1>0, <1>1, <2>3, NoBootBehind
  <2>6. BodyInv(g)'
    BY <1>5, <2>3, <2>4 DEF Loading
  <2>7. QueueInv'
    BY <1>1, <2>2, <2>4, <2>5, QueueStill
  <2>8. WorkInv'
    BY <1>1, <1>4, <1>6, <2>2, <2>3, <2>4, <2>6 DEF WorkInv
  <2>9. ReadyInv'
    <3>1. TearingDown'
      BY <1>1, <2>3, <2>4 DEF TearingDown
    <3>2. rt.ready # NoEngine => /\ call'[rt.ready.id] # "none"
                                /\ \A k \in DOMAIN queue' : queue'[k].id # rt.ready.id
      BY <1>1, <2>4 DEF ReadyInv
    <3> QED BY <1>1, <2>1, <2>2, <3>1, <3>2, ServeStay, ReadyStays
  <2> QED BY <2>7, <2>8, <2>9 DEF CurrentInv
<1>10. ASSUME NEW g, g.id = op.id, g.kind = op.kind, g.gen = op.gen, g.pc \in {"read", "own"},
              op.kind \notin {"boot", "reload"}, work' = work \cup {g}, UNCHANGED <<queue, call>>,
              SrcsKept(rt, rt'), rt'.model = rt.model,
              rt'.gen = rt.gen, rt'.abort = rt.abort, rt'.aborted = rt.aborted,
              rt'.promise = rt.promise, rt'.reload = rt.reload, rt'.ready = rt.ready
       PROVE  CurrentInv'
  <2>1. BodyInv(g)'
    BY <1>5, <1>10 DEF Loading
  <2>2. \A x, y \in work' : x.id = y.id => x = y
    BY <1>4, <1>10
  <2>3. \A x \in work' : x \in work \/ BodyInv(x)'
    BY <1>10, <2>1
  <2> QED BY <1>1, <1>10, <2>2, <2>3, KeptServe, StillStep
<1>11. CASE StartCatalog(op)
  <2>0. PICK g : g = Body(op, "read", rt'.memo)
    OBVIOUS
  <2>1. /\ rt'.model = rt.model /\ SrcsKept(rt, rt')
        /\ Rest(rt') = <<rt.gen, rt.abort, rt.aborted, rt.promise, rt.reload, rt.ready, TRUE, rt.selection>>
    BY <1>11, StartCatalogFacts
  <2>2. /\ rt'.gen = rt.gen /\ rt'.abort = rt.abort /\ rt'.aborted = rt.aborted
        /\ rt'.promise = rt.promise /\ rt'.reload = rt.reload /\ rt'.ready = rt.ready
    BY <2>1 DEF Rest
  <2>3. /\ g.id = op.id /\ g.kind = op.kind /\ g.gen = op.gen /\ g.pc = "read"
    BY <2>0 DEF Body
  <2>4. work' = work \cup {g} /\ UNCHANGED <<queue, call>> /\ op.kind = "catalog"
    BY <1>11, <2>0 DEF StartCatalog
  <2> QED BY <1>10, <2>1, <2>2, <2>3, <2>4
<1>12. CASE StartOwn(op)
  <2>1. CASE op.kind = "poll" /\ ~rt.config
    <3>1. rt' = rt /\ UNCHANGED work /\ CallEnds(op.id, "failed")
      BY <1>12, <2>1 DEF StartOwn
    <3>2. rt.abort # op.id
      <4> SUFFICES ASSUME rt.abort = op.id PROVE FALSE
        OBVIOUS
      <4>1. op.id # 0
        BY <1>1, InQueue
      <4>2. PICK k \in DOMAIN queue : queue[k].kind = "boot" /\ queue[k].id = op.id
        BY <1>1, <4>1 DEF QueueInv
      <4>3. k = 1
        BY <1>1, <4>2 DEF OpInv
      <4> QED BY <1>1, <2>1, <4>2, <4>3
    <3>3. QueueInv' /\ ReadyInv'
      BY <1>0, <1>1, <2>1, <3>1, <3>2, KeptServe, HeadLeaves
    <3>4. ASSUME NEW f \in work PROVE BodyInv(f)'
      BY <1>0, <1>1, <1>3, <3>1, QueueForLeaves, BodyStale
    <3> QED BY <1>1, <3>1, <3>3, <3>4 DEF CurrentInv, WorkInv
  <2>2. CASE ~(op.kind = "poll" /\ ~rt.config)
    <3>0. PICK g : g = Body(op, "own", Len(rt'.srcs))
      OBVIOUS
    <3>1. rt' = Opened(rt, {}, FALSE) /\ work' = work \cup {g} /\ UNCHANGED <<queue, call>>
          /\ op.kind \in {"only", "poll"}
      BY <1>12, <2>2, <3>0 DEF StartOwn
    <3>2. Rest(rt') = Rest(rt) /\ SrcsKept(rt, rt') /\ rt'.model = rt.model
      <4>1. {} \in ListSets
        BY DEF ListSets
      <4> QED BY <1>1, <3>1, <4>1, OpenedFacts
    <3>3. /\ g.id = op.id /\ g.kind = op.kind /\ g.gen = op.gen /\ g.pc = "own"
      BY <3>0 DEF Body
    <3> QED BY <1>10, <3>1, <3>2, <3>3, FieldsOf, ZenonT(40)
  <2> QED BY <2>1, <2>2
<1> QED BY <1>2, <1>7, <1>8, <1>9, <1>11, <1>12

\* The running body of a teardown or of a read ends well.
LEMMA TornDownStep ==
    ASSUME RuntimeTypes, RuntimeTypes', CurrentInv, NEW f \in work, Finished(f, "ok"),
           f.kind \in {"dispose", "clear"}, rt'.ready = NoEngine,
           rt'.gen = rt.gen, rt'.abort = rt.abort, rt'.aborted = rt.aborted, rt'.reload = rt.reload
    PROVE  CurrentInv'
<1>1. rt.gen \in Nat /\ rt.gen <= rt.gen /\ BodyInv(f) /\ Running(f.id)
  BY DEF RuntimeTypes, ObjectInv, Objects, CurrentInv, WorkInv, BodyInv
<1>2. /\ queue # <<>> /\ Head(queue).kind = f.kind /\ CallEnds(Head(queue).id, "ok")
  BY <1>1 DEF BodyInv, Running, Finished
<1>3. WorkInv'
  BY <1>1, WorkAfter
<1>4. QueueInv'
  BY <1>1, <1>2, QueueLeaves DEF CurrentInv
<1> QED BY <1>3, <1>4 DEF CurrentInv, ReadyInv

\* The catalogue is read.
LEMMA CatalogAnsweredStep ==
    ASSUME RuntimeTypes, RuntimeTypes', CurrentInv, NEW f \in work, CatalogAnswered(f)
    PROVE  CurrentInv'
<1>1. /\ ObjectInv(rt) /\ rt \in Objects /\ rt.gen \in Nat /\ rt.gen <= rt.gen /\ BodyInv(f)
      /\ BodyTyped(f, rt) /\ f.kind \in {"catalog", "only", "poll"} /\ Running(f.id)
      /\ QueueInv /\ ReadyInv /\ WorkInv
  BY SMTT(20) DEF RuntimeTypes, ObjectInv, Objects, CurrentInv, WorkInv, BodyInv, BodyTyped, Doing,
         CatalogAnswered
<1>2. PICK result \in {"ok", "failed"} : Finished(f, result)
  BY DEF CatalogAnswered
<1>3. /\ queue # <<>> /\ Head(queue).kind = f.kind /\ Head(queue).id = f.id
      /\ CallEnds(Head(queue).id, result)
  BY <1>1, <1>2 DEF BodyInv, Running, Finished
<1>4. rt.abort # Head(queue).id
  <2> SUFFICES ASSUME rt.abort = Head(queue).id PROVE FALSE
    OBVIOUS
  <2>1. 1 \in DOMAIN queue /\ Head(queue) = queue[1] /\ queue[1].id # 0 /\ OpInv(1)
    BY <1>1, <1>3, InQueue DEF QueueInv
  <2>2. PICK k \in DOMAIN queue : queue[k].kind = "boot" /\ queue[k].id = Head(queue).id
    BY <1>1, <2>1 DEF QueueInv
  <2>3. k = 1
    BY <2>1, <2>2 DEF OpInv
  <2> QED BY <1>1, <1>3, <2>1, <2>2, <2>3
<1>5. SourcesServe(rt, rt') /\ Rest(rt') = Rest(rt) /\ rt'.model = rt.model
  <2>1. CASE f.pc = "own"
    <3>1. rt' = Doomed(rt, f.src) /\ f.src \in 0..Len(rt.srcs) /\ ~rt.srcs[f.src].shared
      BY <1>1, <2>1 DEF CatalogAnswered, BodyTyped
    <3>2. /\ Rest(rt') = Rest(rt) /\ rt'.model = rt.model /\ Len(rt'.srcs) = Len(rt.srcs)
          /\ \A x \in DOMAIN rt.srcs :
               /\ rt'.srcs[x].shared = rt.srcs[x].shared
               /\ x # f.src => rt'.srcs[x] = rt.srcs[x]
      BY <1>1, <3>1, DoomedFacts
    <3>3. Len(rt.srcs) \in Nat
      BY <1>1 DEF Objects
    <3> QED BY <3>1, <3>2, <3>3 DEF SourcesServe
  <2>2. CASE f.pc # "own"
    BY <1>1, <2>2, KeptServe DEF CatalogAnswered
  <2> QED BY <2>1, <2>2
<1>6. /\ rt'.gen = rt.gen /\ rt'.abort = rt.abort /\ rt'.aborted = rt.aborted
      /\ rt'.promise = rt.promise /\ rt'.reload = rt.reload /\ rt'.ready = rt.ready
  BY <1>5, FieldsOf
<1>7. WorkInv'
  BY <1>1, <1>2, <1>6, WorkAfter
<1>8. QueueInv' /\ ReadyInv'
  BY <1>1, <1>3, <1>4, <1>5, <1>6, HeadLeaves
<1> QED BY <1>7, <1>8 DEF CurrentInv

\* The old engine has drained: a reload reads on, a teardown is over or goes on to clear.
LEMMA DrainedStep ==
    ASSUME RuntimeTypes, RuntimeTypes', CurrentInv, NEW f \in work, Drained(f)
    PROVE  CurrentInv'
<1>1. /\ ObjectInv(rt) /\ rt.gen \in Nat /\ rt.gen <= rt.gen /\ BodyInv(f) /\ f \in Bodies
      /\ BodyTyped(f, rt) /\ f.kind \in {"reload", "dispose", "clear"} /\ Running(f.id)
      /\ QueueInv /\ ReadyInv /\ WorkInv
  <2>1. ObjectInv(rt) /\ BodyTyped(f, rt)
    BY DEF RuntimeTypes
  <2>2. rt.gen \in Nat
    BY <2>1 DEF ObjectInv, Objects
  <2>3. QueueInv /\ ReadyInv /\ WorkInv /\ BodyInv(f)
    BY DEF CurrentInv, WorkInv
  <2>4. f.pc = "drain"
    BY DEF Drained
  <2>5. f \in Bodies /\ f.kind \in {"reload", "dispose", "clear"}
    BY <2>1, <2>4 DEF BodyTyped, Doing
  <2>6. Running(f.id)
    BY <2>3, <2>5 DEF BodyInv
  <2> QED BY <2>1, <2>2, <2>3, <2>5, <2>6
<1>2. /\ queue # <<>> /\ Head(queue).kind = f.kind /\ Head(queue).id = f.id
  BY <1>1 DEF BodyInv, Running
<1>3. \A k \in DOMAIN queue : queue[k].kind # "boot"
  BY <1>1, <1>2, NoBootBehind
<1>4. ASSUME NEW g, g.id = f.id, work' = (work \ {f}) \cup {g}, UNCHANGED <<queue, call>>,
             rt'.gen = rt.gen, rt'.abort = rt.abort, rt'.aborted = rt.aborted, rt'.reload = rt.reload,
             rt'.ready = NoEngine, BodyInv(g)'
      PROVE  CurrentInv'
  <2>1. QueueInv'
    BY <1>1, <1>3, <1>4, QueueStill
  <2>2. ASSUME NEW h \in work' PROVE BodyInv(h)'
    <3>1. CASE h \in work /\ h # f
      <4>1. BodyInv(h) /\ BodyTyped(h, rt) /\ h.id # f.id /\ QueueFor(h)
        BY <1>1, <1>4, <3>1, QueueForStill DEF WorkInv, RuntimeTypes
      <4>2. ~Running(h.id)
        BY <1>2, <4>1 DEF Running
      <4>3. h.kind = "boot" /\ h.gen < rt.gen
        BY <4>1, <4>2 DEF BodyInv
      <4> QED BY <1>1, <1>4, <4>1, <4>3, BodyStale
    <3> QED BY <1>4, <2>2, <3>1
  <2>3. WorkInv'
    BY <1>1, <1>4, <2>2, OnlyIds DEF WorkInv
  <2> QED BY <1>4, <2>1, <2>3 DEF CurrentInv, ReadyInv
<1>5. CASE f.kind = "reload"
  <2>0. PICK g : g = [f EXCEPT !.pc = "evict", !.src = rt.memo]
    OBVIOUS
  <2>1. rt' = Evicted(rt) /\ work' = (work \ {f}) \cup {g} /\ UNCHANGED <<queue, call>>
    BY <1>5, <2>0 DEF Drained, GoesTo
  <2>2. Rest(rt') = Rest(rt) /\ rt'.model = rt.model
    BY <1>1, <2>1, EvictedFacts
  <2>3. /\ rt'.gen = rt.gen /\ rt'.abort = rt.abort /\ rt'.aborted = rt.aborted
        /\ rt'.reload = rt.reload /\ rt'.ready = NoEngine
    BY <1>1, <1>5, <2>2, FieldsOf DEF BodyInv
  <2>4. g.id = f.id /\ g.kind = f.kind /\ g.gen = f.gen /\ g.pc = "evict"
    BY <1>1, <2>0 DEF Bodies
  <2>5. Running(g.id)' <=> Running(f.id)
    BY <2>1, <2>4 DEF Running
  <2>6. BodyInv(g)'
    BY <1>1, <1>5, <2>1, <2>2, <2>3, <2>4, <2>5 DEF BodyInv, Loading
  <2> QED BY <1>4, <2>1, <2>3, <2>4, <2>6
<1>6. CASE f.kind = "dispose"
  <2>1. PICK e : e = EngineGone(rt)
    OBVIOUS
  <2>2. rt' = TornDown(e) /\ Finished(f, "ok")
    BY <1>6, <2>1 DEF Drained
  <2>3. /\ ObjectInv(e)
        /\ Rest(e) = <<rt.gen, rt.abort, rt.aborted, rt.promise, rt.reload, NoEngine,
                       rt.config, rt.selection>>
    BY <1>1, <2>1, EngineGoneFacts
  <2>4. Rest(rt') = <<e.gen, e.abort, e.aborted, 0, e.reload, e.ready, FALSE, e.selection>>
    BY <2>2, <2>3, TornDownFacts
  <2>5. /\ rt'.gen = rt.gen /\ rt'.abort = rt.abort /\ rt'.aborted = rt.aborted
        /\ rt'.reload = rt.reload /\ rt'.ready = NoEngine
    BY <2>3, <2>4 DEF Rest
  <2> QED BY <1>6, <2>2, <2>5, TornDownStep
<1>7. CASE f.kind = "clear"
  <2>0. PICK g : g = [f EXCEPT !.pc = "clearing"]
    OBVIOUS
  <2>1. rt' = EngineGone(rt) /\ work' = (work \ {f}) \cup {g} /\ UNCHANGED <<queue, call>>
    BY <1>7, <2>0 DEF Drained, GoesTo
  <2>2. Rest(rt') = <<rt.gen, rt.abort, rt.aborted, rt.promise, rt.reload, NoEngine,
                     rt.config, rt.selection>>
    BY <1>1, <2>1, EngineGoneFacts
  <2>3. /\ rt'.gen = rt.gen /\ rt'.abort = rt.abort /\ rt'.aborted = rt.aborted
        /\ rt'.reload = rt.reload /\ rt'.ready = NoEngine
    BY <2>2 DEF Rest
  <2>4. g.id = f.id /\ g.kind = f.kind /\ g.gen = f.gen /\ g.pc = "clearing"
    BY <1>1, <2>0 DEF Bodies
  <2>5. Running(g.id)' <=> Running(f.id)
    BY <2>1, <2>4 DEF Running
  <2>6. BodyInv(g)'
    BY <1>1, <1>7, <2>1, <2>3, <2>4, <2>5 DEF BodyInv, Loading
  <2> QED BY <1>4, <2>1, <2>3, <2>4, <2>6
<1> QED BY <1>1, <1>5, <1>6, <1>7

\* A body takes a step.
LEMMA BodyStepStep ==
    ASSUME RuntimeTypes, RuntimeTypes', CurrentInv, NEW f \in work, BodyStep(f)
    PROVE  CurrentInv'
<1>1. /\ ObjectInv(rt) /\ rt.gen \in Nat /\ BodyInv(f) /\ f \in Bodies /\ BodyTyped(f, rt) /\ Doing(f)
      /\ WorkInv
  BY DEF RuntimeTypes, ObjectInv, Objects, CurrentInv, WorkInv, BodyTyped
<1>2. CASE WarmUp(f)
  <2>1. f.kind = "boot"
    BY <1>1, <1>2 DEF WarmUp, Doing
  <2>2. CASE BodyFails(f)
    BY <2>1, <2>2, BodyFailsStep
  <2>3. CASE Current(f) /\ LoadsCatalog(f, rt)
    BY <2>1, <2>3, LoadsCatalogStep
  <2> QED BY <1>2, <2>2, <2>3 DEF WarmUp
<1>3. CASE CatalogRead(f)
  <2>1. f.kind \in {"boot", "reload"} /\ Loading(f)
    BY <1>1, <1>3 DEF CatalogRead, Doing, Loading
  <2>2. CASE rt.srcs[f.src].st = "failed"
    BY <1>3, <2>1, <2>2, BodyFailsStep DEF CatalogRead
  <2>3. CASE rt.srcs[f.src].st # "failed"
    <3>1. Current(f) => rt.srcs[f.src].st = "open"
      BY <1>1, <1>3, <2>1, <2>3 DEF CatalogRead, BodyInv, Settled
    <3>2. LoadsList(f, rt.selection.lists \cap Lists)
      BY <1>3, <2>3 DEF CatalogRead
    <3> QED BY <2>1, <3>1, <3>2, LoadsListStep
  <2> QED BY <2>2, <2>3
<1>4. CASE ListRead(f)
  <2>1. f.kind \in {"boot", "reload"} /\ Loading(f)
    BY <1>1, <1>4 DEF ListRead, Doing, Loading
  <2>2. CASE BodyFails(f)
    BY <2>1, <2>2, BodyFailsStep
  <2>3. ASSUME rt.srcs[f.src].st = "open", NEW l, LoadsList(f, f.todo \ {l}) PROVE CurrentInv'
    BY <2>1, <2>3, LoadsListStep
  <2> QED BY <1>4, <2>2, <2>3 DEF ListRead
<1>5. CASE SourceEvicted(f)
  <2>1. f.pc = "evict" /\ f.kind \in {"reload", "dispose", "clear"}
    BY <1>1, <1>5 DEF SourceEvicted, Doing
  <2>2. CASE f.kind = "reload"
    <3>1. Current(f) /\ LoadsCatalog(f, rt)
      BY <1>5, <2>2 DEF SourceEvicted, Current
    <3> QED BY <2>2, <3>1, LoadsCatalogStep
  <2>3. CASE f.kind # "reload"
    <3>0. PICK g : g = [f EXCEPT !.pc = "drain"]
      OBVIOUS
    <3>1. work' = (work \ {f}) \cup {g} /\ UNCHANGED <<rt, queue, call>>
      BY <1>5, <2>3, <3>0 DEF SourceEvicted, GoesTo
    <3>2. g.id = f.id /\ g.kind = f.kind /\ g.gen = f.gen /\ g.pc = "drain"
      BY <1>1, <3>0 DEF Bodies
    <3>3. Running(g.id)' <=> Running(f.id)
      BY <3>1, <3>2 DEF Running
    <3>4. BodyInv(g)'
      BY <1>1, <2>1, <2>3, <3>1, <3>2, <3>3 DEF BodyInv, Loading
    <3>5. \A x, y \in work' : x.id = y.id => x = y
      BY <1>1, <3>1, <3>2, OnlyIds
    <3>6. \A x \in work' : x \in work \/ BodyInv(x)'
      BY <3>1, <3>4
    <3> QED BY <1>1, <3>1, <3>5, <3>6, KeptServe, StillStep
  <2> QED BY <2>2, <2>3
<1>6. CASE Cleared(f)
  <2>1. f.kind = "clear" /\ f.pc = "clearing" /\ rt.ready = NoEngine
    BY <1>1, <1>6 DEF Cleared, Doing, BodyInv
  <2>2. CASE BodyFails(f)
    BY <2>1, <2>2, BodyFailsStep
  <2>3. CASE rt' = TornDown(rt) /\ Finished(f, "ok")
    <3>1. Rest(rt') = <<rt.gen, rt.abort, rt.aborted, 0, rt.reload, rt.ready, FALSE, rt.selection>>
      BY <1>1, <2>3, TornDownFacts
    <3>2. /\ rt'.gen = rt.gen /\ rt'.abort = rt.abort /\ rt'.aborted = rt.aborted
          /\ rt'.ready = NoEngine /\ rt'.reload = rt.reload
      BY <2>1, <3>1 DEF Rest
    <3> QED BY <2>1, <2>3, <3>2, TornDownStep
  <2> QED BY <1>6, <2>2, <2>3 DEF Cleared
<1> QED BY <1>2, <1>3, <1>4, <1>5, <1>6, DrainedStep, CatalogAnsweredStep DEF BodyStep

\* Every step keeps it.
LEMMA RuntimeStepCurrent ==
    ASSUME CallersWait, RuntimeTypes, CurrentInv, [RuntimeNext]_runtimeVars PROVE CurrentInv'
<1>1. /\ RuntimeTypes' /\ ObjectInv(rt) /\ QueueInv /\ ReadyInv /\ WorkInv /\ rt.gen \in Nat
      /\ rt.gen <= rt.gen
  BY RuntimeStepTypes DEF CurrentInv, RuntimeTypes, ObjectInv, Objects
<1>2. ASSUME queue # <<>>, CallEnds(Head(queue).id, "failed"), UNCHANGED <<rt, work>>,
             Head(queue).kind = "boot", Head(queue).gen < rt.gen, rt.abort # Head(queue).id
      PROVE  CurrentInv'
  <2>1. QueueInv' /\ ReadyInv'
    BY <1>1, <1>2, KeptServe, HeadLeaves
  <2>2. ASSUME NEW f \in work PROVE BodyInv(f)'
    <3>1. BodyInv(f) /\ BodyTyped(f, rt) /\ f.id \in Calls
      BY <1>1 DEF WorkInv, RuntimeTypes, BodyTyped, Bodies
    <3>2. f.kind = "boot" /\ f.gen < rt.gen
      BY <1>2, <3>1 DEF BodyInv
    <3>3. QueueFor(f)
      BY <1>2, <3>1, <3>2, QueueForLeaves
    <3> QED BY <1>1, <1>2, <3>1, <3>2, <3>3, BodyStale
  <2> QED BY <1>1, <1>2, <2>1, <2>2 DEF CurrentInv, WorkInv
<1>3. CASE AbortWins
  <2>1. /\ queue # <<>> /\ Head(queue).id \in rt.aborted /\ CallEnds(Head(queue).id, "failed")
        /\ UNCHANGED <<rt, work>>
    BY <1>3 DEF AbortWins
  <2>2. OpInv(1) /\ queue[1] = Head(queue) /\ Head(queue) \in Ops /\ Head(queue).gen \in Nat
    BY <1>1, <2>1, InQueue DEF QueueInv, Ops
  <2>3. Head(queue).kind = "boot" /\ Head(queue).gen < rt.gen /\ rt.abort # Head(queue).id
    BY <1>1, <2>1, <2>2 DEF OpInv
  <2> QED BY <1>2, <2>1, <2>3
<1>4. CASE BootTimesOut
  <2>1. /\ queue # <<>> /\ Head(queue).kind = "boot" /\ CallEnds(Head(queue).id, "failed")
        /\ rt' = BootFailed(rt, Head(queue).id) /\ UNCHANGED work
    BY <1>4 DEF BootTimesOut
  <2>2. CASE rt.abort = Head(queue).id
    BY <2>1, <2>2, CurrentBootFails
  <2>3. CASE rt.abort # Head(queue).id
    <3>1. OpInv(1) /\ queue[1] = Head(queue)
      BY <1>1, <2>1, InQueue DEF QueueInv
    <3>2. Head(queue).gen < rt.gen
      BY <2>1, <2>3, <3>1 DEF OpInv
    <3>3. rt' = rt
      BY <2>1, <2>3 DEF BootFailed
    <3> QED BY <1>2, <2>1, <2>3, <3>2, <3>3
  <2> QED BY <2>2, <2>3
<1>5. ASSUME NEW s \in DOMAIN rt.srcs, SourceSettles(s) PROVE CurrentInv'
  <2>1. /\ Rest(rt') = Rest(rt) /\ rt'.model = rt.model
        /\ Len(rt'.srcs) = Len(rt.srcs) /\ rt.srcs[s].st \in {"opening", "doomed"}
        /\ \A x \in DOMAIN rt.srcs :
             /\ rt'.srcs[x].shared = rt.srcs[x].shared
             /\ x # s => rt'.srcs[x].st = rt.srcs[x].st
        /\ rt.srcs[s].st = "opening" => rt'.srcs[s].st \in {"open", "failed"}
    BY <1>1, <1>5, SourceSettlesFacts
  <2>2. SourcesServe(rt, rt')
    <3>1. Len(rt.srcs) \in Nat
      BY <1>1 DEF ObjectInv, Objects
    <3> QED BY <2>1, <3>1 DEF SourcesServe, Serving
  <2>3. UNCHANGED <<queue, call, work>>
    BY <1>5 DEF SourceSettles
  <2> QED BY <1>1, <2>1, <2>2, <2>3, FieldsOf, StillStep DEF WorkInv
<1>6. CASE ScreenStarts \/ ScreenEnds \/ UNCHANGED runtimeVars
  <2>1. UNCHANGED <<rt, queue, work, call>>
    BY <1>6 DEF ScreenStarts, ScreenEnds, runtimeVars
  <2> QED BY <1>1, <2>1, KeptServe, StillStep DEF WorkInv
<1> QED BY <1>1, <1>3, <1>4, <1>5, <1>6, PageCallsStep, StartNextStep, BodyStepStep
        DEF RuntimeNext, QueueStep

\* runtime.ts:556-598, 709-770: while no teardown is queued, an engine that is ready is
\* the one the last promise stands for, with the living model and an open source; a build
\* that was given up never publishes. Assumed of the callers: no page boots while a
\* dispose or a clear of its own is queued.
THEOREM ReadyEngineIsCurrent ==
    ASSUME CallersWait PROVE RuntimeSpec => []EngineIsCurrent
<1>1. RuntimeInit => RuntimeTypes /\ CurrentInv
  <2> SUFFICES ASSUME RuntimeInit PROVE RuntimeTypes /\ CurrentInv
    OBVIOUS
  <2>1. /\ queue = <<>> /\ work = {} /\ rt.ready = NoEngine /\ rt.abort = 0 /\ rt.aborted = {}
    BY DEF RuntimeInit
  <2> QED BY <2>1, RuntimeInitTypes DEF CurrentInv, QueueInv, WorkInv, ReadyInv
<1>2. RuntimeTypes /\ CurrentInv /\ [RuntimeNext]_runtimeVars => RuntimeTypes' /\ CurrentInv'
  BY RuntimeStepTypes, RuntimeStepCurrent
<1>3. RuntimeTypes /\ CurrentInv => EngineIsCurrent
  <2> SUFFICES ASSUME RuntimeTypes, CurrentInv, rt.ready # NoEngine, ~TearingDown
               PROVE  /\ rt.ready.id = rt.promise
                      /\ rt.ready.model = rt.model /\ rt.models[rt.model] = "live"
                      /\ rt.srcs[rt.ready.src].st = "open"
    BY DEF EngineIsCurrent
  <2>1. /\ rt.ready.id = rt.promise /\ rt.ready.model = rt.model /\ rt.model # 0
        /\ rt.srcs[rt.ready.src].st = "open"
    BY DEF CurrentInv, ReadyInv
  <2>2. rt.model \in DOMAIN rt.models
    BY <2>1 DEF RuntimeTypes, ObjectInv, Objects, ModelIsOne
  <2> QED BY <2>1, <2>2 DEF RuntimeTypes, ObjectInv, ModelIsOne
<1> QED BY <1>1, <1>2, <1>3, PTL DEF RuntimeSpec

-----------------------------------------------------------------------------
(* The query index of a list.                                                *)

KnownRows == UNION {RowsOf(c) : c \in Content}
KnownMarked == UNION {Marked(RowsOf(c), c) : c \in Content}
Phases == {"none", "opening", "opened", "checking", "inserting", "ready", "failed", "ended"}
IndexRecords ==
  [tab : Tab \cup {NoHandle}, list : List \cup {NoHandle}, content : Content \cup {NoContent},
   at : Phases, on : {"opfs", "memory"}, rows : SUBSET KnownMarked, left : SUBSET KnownRows,
   disposed : BOOLEAN, query : {"none", "waiting", "sent"}]

IsOpen(h) == index[h].at \in {"opened", "checking", "inserting", "ready"}
Holds(h) == index[h].on = "opfs" /\ IsOpen(h)

\* One index: while it has its file open it is the one that has; what it has written is the
\* part of its content that is not left, and all of it once it is ready.
HandleInv(h) ==
  /\ index[h] \in IndexRecords
  /\ index[h].at # "none" =>
       index[h].tab \in Tab /\ index[h].list \in List /\ index[h].content \in Content
  /\ index[h].at = "opening" => index[h].on = "opfs"
  /\ Holds(h) => holder[index[h].list] = h
  /\ IsFiniteSet(index[h].rows)
  /\ index[h].at = "inserting" =>
       /\ index[h].left \subseteq RowsOf(index[h].content)
       /\ Stored(h) = Marked(RowsOf(index[h].content) \ index[h].left, index[h].content)
  /\ index[h].at = "ready" => Stored(h) = Marked(RowsOf(index[h].content), index[h].content)

Held(l) ==
  holder[l] # NoHandle =>
    holder[l] \in Handle /\ Holds(holder[l]) /\ index[holder[l]].list = l
HolderInv == \A l \in List : Held(l)
FileInv == \A l \in List : file[l] \subseteq KnownMarked /\ IsFiniteSet(file[l])
Domains ==
  /\ index = [h \in Handle |-> index[h]] /\ file = [l \in List |-> file[l]]
  /\ holder = [l \in List |-> holder[l]] /\ loads \in 0..MaxLoads

IndexInv ==
  /\ Domains /\ FileInv /\ HolderInv /\ QueriesSeeTheList
  /\ \A h \in Handle : HandleInv(h)

-----------------------------------------------------------------------------
(* Rows and their marks. *)

MarkOf(S, c) == [r \in S |-> [row |-> r, mark |-> Marker(c)]]

LEMMA MarkingIsOneToOne ==
  ASSUME NEW c \in Content, NEW S \in SUBSET RowsOf(c)
  PROVE  /\ IsFiniteSet(S) /\ IsFiniteSet(Marked(S, c))
         /\ Cardinality(Marked(S, c)) = Cardinality(S)
<1>1. MarkOf(S, c) \in [S -> Marked(S, c)]
  BY DEF MarkOf, Marked
<1>2. \A x, y \in S : MarkOf(S, c)[x] = MarkOf(S, c)[y] => x = y
  BY DEF MarkOf
<1>3. \A m \in Marked(S, c) : \E r \in S : MarkOf(S, c)[r] = m
  BY DEF MarkOf, Marked
<1>4. MarkOf(S, c) \in Bijection(S, Marked(S, c))
  <2>1. IsInjective(MarkOf(S, c))
    BY <1>1, <1>2 DEF IsInjective
  <2> QED BY <2>1, <1>1, <1>3 DEF Bijection, Injection, Surjection
<1>5. ExistsBijection(S, Marked(S, c))
  BY <1>4 DEF ExistsBijection
<1>6. IsFiniteSet(S)
  BY IndexAssumption, FS_Subset
<1> QED BY <1>5, <1>6, FS_Bijection

LEMMA MarkedFacts ==
  ASSUME NEW c \in Content, NEW S \in SUBSET RowsOf(c)
  PROVE  /\ Marked(S, c) \subseteq Marked(RowsOf(c), c) /\ Marked(S, c) \subseteq KnownMarked
         /\ IsFiniteSet(Marked(S, c)) /\ Plain(Marked(S, c)) = S
<1>1. Marked(S, c) \subseteq Marked(RowsOf(c), c)
  BY DEF Marked
<1>2. Marked(RowsOf(c), c) \subseteq KnownMarked
  BY DEF KnownMarked
<1>3. Plain(Marked(S, c)) = S
  <2>1. ASSUME NEW r \in S
        PROVE  r \in Plain(Marked(S, c))
    <3>1. [row |-> r, mark |-> Marker(c)] \in Marked(S, c)
      BY DEF Marked
    <3> QED BY <3>1 DEF Plain
  <2>2. ASSUME NEW r \in Plain(Marked(S, c))
        PROVE  r \in S
    BY DEF Plain, Marked
  <2> QED BY <2>1, <2>2
<1> QED BY <1>1, <1>2, <1>3, MarkingIsOneToOne

\* A row that bears the mark of a content was written for it.
LEMMA MarkTells ==
  ASSUME NEW c \in Content, NEW m \in KnownMarked, m.mark = Marker(c)
  PROVE  m \in Marked(RowsOf(c), c)
<1>1. PICK d \in Content : m \in Marked(RowsOf(d), d)
  BY DEF KnownMarked
<1>2. m.mark = Marker(d)
  BY <1>1 DEF Marked
<1>3. c = d
  BY <1>2 DEF Marker
<1> QED BY <1>1, <1>3

\* Why the count and the marks suffice (holdsExactly): the rows that bear the mark are as many
\* as the content has, so they are all of it; and there are no others.
LEMMA ExactlyMeansAll ==
  ASSUME NEW h \in Handle, index[h].content \in Content, HoldsExactly(h),
         IsFiniteSet(Stored(h)), Stored(h) \subseteq KnownMarked
  PROVE  Stored(h) = Marked(RowsOf(index[h].content), index[h].content)
<1> DEFINE c == index[h].content
           Full == Marked(RowsOf(c), c)
           T == {m \in Stored(h) : m.mark = Marker(c)}
<1>1. IsFiniteSet(Full) /\ Cardinality(Full) = Cardinality(RowsOf(c))
  BY MarkingIsOneToOne
<1>2. Cardinality(Stored(h)) = Cardinality(RowsOf(c)) /\ Cardinality(T) = Cardinality(RowsOf(c))
  BY DEF HoldsExactly
<1>3. T \subseteq Full
  BY MarkTells
<1>4. T = Full
  <2> HIDE DEF T, Full
  <2> QED BY <1>1, <1>2, <1>3, FS_Subset
<1>5. T = Stored(h)
  <2>1. T \in SUBSET Stored(h)
    OBVIOUS
  <2> HIDE DEF T
  <2> QED BY <2>1, <1>2, FS_Subset
<1> QED BY <1>4, <1>5

-----------------------------------------------------------------------------
(* The steps: of one index, the others untouched.                            *)

LEMMA IndexInvInit == IndexInit => IndexInv
<1> SUFFICES ASSUME IndexInit PROVE IndexInv
  OBVIOUS
<1>1. Domains /\ HolderInv /\ QueriesSeeTheList
  BY IndexAssumption DEF IndexInit, Domains, HolderInv, Held, QueriesSeeTheList
<1>2. FileInv
  BY FS_EmptySet DEF IndexInit, FileInv
<1>3. \A h \in Handle : HandleInv(h)
  BY FS_EmptySet DEF IndexInit, HandleInv, NoIndex, IndexRecords, Phases, Holds, IsOpen
<1> QED BY <1>1, <1>2, <1>3 DEF IndexInv

\* An index keeps what is said of it while another writes the file that is open to it alone.
LEMMA OthersKeep ==
  ASSUME IndexInv, NEW h \in Handle, NEW g \in Handle, g # h, index'[g] = index[g],
         \A l \in List : file'[l] = file[l] \/ holder[l] = h,
         \A l \in List : holder[l] = g => holder'[l] = g
  PROVE  HandleInv(g)'
<1>1. HandleInv(g)
  BY DEF IndexInv
<1>2. index[g].list \in List /\ index[g].on = "opfs" /\ IsOpen(g) => file'[index[g].list] = file[index[g].list]
  BY <1>1 DEF HandleInv, Holds
<1>3. Holds(g)' <=> Holds(g)
  BY DEF Holds, IsOpen
<1>4. index[g].at \in {"inserting", "ready"} => Stored(g)' = Stored(g)
  BY <1>1, <1>2 DEF HandleInv, Stored, IsOpen
<1>5. Holds(g) => holder'[index[g].list] = g
  BY <1>1 DEF HandleInv, Holds, IsOpen
<1> QED BY <1>1, <1>3, <1>4, <1>5 DEF HandleInv

\* A step that writes no file and leaves who has them open.
LEMMA PlainStepKeeps ==
  ASSUME IndexInv, NEW h \in Handle, index' = [index EXCEPT ![h] = index'[h]],
         UNCHANGED <<file, holder>>, loads' \in 0..MaxLoads, QueriesSeeTheList', HandleInv(h)',
         Holds(h) => Holds(h)' /\ index'[h].list = index[h].list
  PROVE  IndexInv'
<1>1. \A g \in Handle : g # h => index'[g] = index[g]
  BY DEF IndexInv, Domains
<1>2. \A g \in Handle : HandleInv(g)'
  BY <1>1, OthersKeep
<1>3. HolderInv'
  <2> SUFFICES ASSUME NEW l \in List, holder[l] # NoHandle
               PROVE  holder[l] \in Handle /\ Holds(holder[l])' /\ index'[holder[l]].list = l
    BY DEF HolderInv, Held
  <2>1. holder[l] \in Handle /\ Holds(holder[l]) /\ index[holder[l]].list = l
    BY DEF IndexInv, HolderInv, Held
  <2>2. CASE holder[l] = h
    BY <2>1, <2>2
  <2>3. CASE holder[l] # h
    BY <2>1, <2>3, <1>1 DEF Holds, IsOpen
  <2> QED BY <2>2, <2>3
<1> QED BY <1>2, <1>3 DEF IndexInv, Domains, FileInv

\* A step that writes the rows of an index where it keeps them.
LEMMA WritingKeeps ==
  ASSUME IndexInv, NEW h \in Handle, NEW rows, NEW left \in SUBSET RowsOf(index[h].content),
         index[h].at \in {"checking", "inserting"},
         rows = Marked(RowsOf(index[h].content) \ left, index[h].content),
         Writes(h, rows, [index[h] EXCEPT !.at = "inserting", !.left = left]),
         UNCHANGED <<holder, loads, seen>>
  PROVE  IndexInv'
<1> DEFINE c == index[h].content
           next == [index[h] EXCEPT !.at = "inserting", !.left = left]
<1>1. index[h] \in IndexRecords /\ c \in Content /\ index[h].list \in List /\ index[h].tab \in Tab
  BY DEF IndexInv, HandleInv
<1>2. rows \subseteq KnownMarked /\ IsFiniteSet(rows) /\ left \subseteq KnownRows
  BY <1>1, MarkedFacts DEF KnownRows
<1>3. /\ next \in IndexRecords /\ next.at = "inserting" /\ next.left = left /\ next.content = c
      /\ next.list = index[h].list /\ next.tab = index[h].tab /\ next.on = index[h].on
      /\ next.rows = index[h].rows
  BY <1>1, <1>2 DEF IndexRecords, Phases
<1>4. Domains /\ index = [g \in Handle |-> index[g]] /\ file = [l \in List |-> file[l]]
  BY DEF IndexInv, Domains
<1>5. \A g \in Handle : g # h => index'[g] = index[g]
  BY <1>4 DEF Writes
<1>6. CASE index[h].on = "opfs"
  <2>1. /\ index'[h] = next /\ file'[index[h].list] = rows
        /\ \A l \in List : l # index[h].list => file'[l] = file[l]
    BY <1>1, <1>4, <1>6 DEF Writes
  <2>2. Holds(h) /\ holder[index[h].list] = h
    BY <1>6 DEF Holds, IsOpen, IndexInv, HandleInv
  <2>3. Holds(h)'
    BY <1>3, <1>6, <2>1 DEF Holds, IsOpen
  <2>4. HandleInv(h)'
    <3>1. Stored(h)' = rows
      BY <2>1, <1>3, <1>6 DEF Stored
    <3>2. IsFiniteSet(index'[h].rows)
      BY <2>1, <1>3 DEF IndexInv, HandleInv
    <3> HIDE DEF next
    <3> QED BY <1>1, <1>3, <2>1, <2>2, <3>1, <3>2 DEF HandleInv
  <2>5. \A l \in List : file'[l] = file[l] \/ holder[l] = h
    BY <2>1, <2>2
  <2>6. \A g \in Handle : HandleInv(g)'
    BY <1>5, <2>4, <2>5, OthersKeep
  <2>7. FileInv'
    BY <1>2, <2>1 DEF IndexInv, FileInv
  <2>8. HolderInv'
    <3>1. index'[h].list = index[h].list
      BY <1>3, <2>1
    <3> QED BY <1>5, <2>3, <3>1 DEF IndexInv, HolderInv, Held, Holds, IsOpen
  <2>9. Domains' /\ QueriesSeeTheList'
    BY <1>4, <1>6 DEF Writes, Domains, IndexInv, QueriesSeeTheList
  <2> QED BY <2>6, <2>7, <2>8, <2>9 DEF IndexInv
<1>7. CASE index[h].on # "opfs"
  <2>1. index' = [index EXCEPT ![h] = [next EXCEPT !.rows = rows]] /\ UNCHANGED file
    BY <1>7 DEF Writes
  <2>2. index'[h] = [next EXCEPT !.rows = rows]
    BY <2>1, <1>4
  <2>3. /\ index'[h] \in IndexRecords /\ index'[h].at = "inserting" /\ index'[h].left = left
        /\ index'[h].content = c /\ index'[h].list = index[h].list /\ index'[h].tab = index[h].tab
        /\ index'[h].on = index[h].on /\ index'[h].rows = rows
    <3> HIDE DEF next
    <3> QED BY <1>2, <1>3, <2>2 DEF IndexRecords
  <2>4. ~Holds(h) /\ ~Holds(h)'
    BY <1>7, <2>3 DEF Holds
  <2>5. HandleInv(h)'
    <3>1. Stored(h)' = rows
      BY <1>7, <2>3 DEF Stored
    <3> QED BY <1>1, <1>2, <2>3, <2>4, <3>1 DEF HandleInv
  <2>6. index' = [index EXCEPT ![h] = index'[h]]
    BY <2>1, <2>2
  <2>7. loads' \in 0..MaxLoads /\ QueriesSeeTheList'
    BY <1>4 DEF Domains, IndexInv, QueriesSeeTheList
  <2> QED BY <2>1, <2>4, <2>5, <2>6, <2>7, PlainStepKeeps
<1> QED BY <1>6, <1>7

LEMMA ClearsKeeps ==
  ASSUME IndexInv, NEW h \in Handle, Clears(h)
  PROVE  IndexInv'
<1> DEFINE left == RowsOf(index[h].content)
<1>1. {} = Marked(RowsOf(index[h].content) \ left, index[h].content)
  BY DEF Marked
<1>2. index[h].at \in {"checking", "inserting"} /\ UNCHANGED <<holder, loads, seen>>
      /\ Writes(h, {}, [index[h] EXCEPT !.at = "inserting", !.left = left])
  BY DEF Clears, At
<1> QED BY <1>1, <1>2, WritingKeeps

LEMMA InsertsKeeps ==
  ASSUME IndexInv, NEW h \in Handle, Inserts(h)
  PROVE  IndexInv'
<1> DEFINE c == index[h].content
<1>1. index[h].at = "inserting" /\ UNCHANGED <<holder, loads, seen>>
  BY DEF Inserts, At
<1>2. PICK B \in SUBSET index[h].left :
        Writes(h, Stored(h) \cup Marked(B, c), [index[h] EXCEPT !.left = @ \ B])
  BY DEF Inserts, Batches
<1> DEFINE left == index[h].left \ B
<1>3. /\ index[h] \in IndexRecords /\ index[h].left \subseteq RowsOf(c)
      /\ Stored(h) = Marked(RowsOf(c) \ index[h].left, c)
  BY <1>1 DEF IndexInv, HandleInv
<1>4. Stored(h) \cup Marked(B, c) = Marked(RowsOf(c) \ left, c)
  BY <1>3 DEF Marked
<1>5. [index[h] EXCEPT !.left = @ \ B] = [index[h] EXCEPT !.at = "inserting", !.left = left]
  BY <1>1, <1>3 DEF IndexRecords
<1>6. left \in SUBSET RowsOf(c)
  BY <1>3
<1> HIDE DEF left, c
<1> QED BY <1>1, <1>2, <1>4, <1>5, <1>6, WritingKeeps DEF c

LEMMA LoadKeeps ==
  ASSUME IndexInv, NEW t \in Tab, NEW l \in List, NEW c \in Content, NEW h \in Handle, Load(t, l, c, h)
  PROVE  IndexInv'
<1> DEFINE next == [NoIndex EXCEPT !.tab = t, !.list = l, !.content = c, !.at = "opening"]
<1>1. /\ index[h].at = "none" /\ loads' = loads + 1 /\ loads < MaxLoads
      /\ index' = [index EXCEPT ![h] = next] /\ UNCHANGED <<file, holder, told, seen>>
  BY DEF Load, At
<1>2. index = [g \in Handle |-> index[g]] /\ loads \in 0..MaxLoads
  BY DEF IndexInv, Domains
<1>3. index'[h] = next
  BY <1>1, <1>2
<1>4. next \in IndexRecords /\ next.at = "opening" /\ next.tab = t /\ next.list = l /\ next.content = c
      /\ next.rows = {} /\ next.on = "opfs"
  BY DEF NoIndex, IndexRecords, Phases
<1>5. ~Holds(h) /\ ~Holds(h)'
  BY <1>1, <1>3, <1>4 DEF Holds, IsOpen
<1>6. HandleInv(h)'
  BY <1>3, <1>4, <1>5, FS_EmptySet DEF HandleInv
<1>7. loads' \in 0..MaxLoads
  BY <1>1, <1>2, IndexAssumption
<1> QED BY <1>1, <1>3, <1>5, <1>6, <1>7, PlainStepKeeps DEF IndexInv, QueriesSeeTheList

LEMMA TakesFileKeeps ==
  ASSUME IndexInv, NEW h \in Handle, TakesFile(h)
  PROVE  IndexInv'
<1>1. /\ index[h].at = "opening" /\ holder[index[h].list] = NoHandle
      /\ holder' = [holder EXCEPT ![index[h].list] = h]
      /\ index' = [index EXCEPT ![h].at = "opened"] /\ UNCHANGED <<file, told, loads, seen>>
  BY DEF TakesFile, At
<1>2. Domains /\ index[h] \in IndexRecords /\ index[h].list \in List /\ HandleInv(h)
  BY <1>1 DEF IndexInv, HandleInv
<1>3. /\ index'[h] = [index[h] EXCEPT !.at = "opened"] /\ \A g \in Handle : g # h => index'[g] = index[g]
      /\ holder'[index[h].list] = h /\ \A l \in List : l # index[h].list => holder'[l] = holder[l]
  BY <1>1, <1>2 DEF Domains
<1>4. /\ index'[h] \in IndexRecords /\ index'[h].at = "opened" /\ index'[h].list = index[h].list
      /\ index'[h].tab = index[h].tab /\ index'[h].content = index[h].content
      /\ index'[h].rows = index[h].rows /\ index'[h].on = index[h].on
  BY <1>2, <1>3 DEF IndexRecords, Phases
<1>5. HandleInv(h)'
  BY <1>1, <1>2, <1>3, <1>4 DEF HandleInv
<1>6. \A g \in Handle : g # h => HandleInv(g)'
  <2> SUFFICES ASSUME NEW g \in Handle, g # h PROVE HandleInv(g)'
    OBVIOUS
  <2>1. \A l \in List : holder[l] = g => holder'[l] = g
    BY <1>1, <1>3, IndexAssumption
  <2> QED BY <1>1, <1>3, <2>1, OthersKeep
<1>7. CASE index[h].on = "opfs"
  <2>1. Holds(h)'
    BY <1>4, <1>7 DEF Holds, IsOpen
  <2>2. HolderInv'
    <3> SUFFICES ASSUME NEW l \in List PROVE Held(l)'
      BY DEF HolderInv
    <3>1. CASE l = index[h].list
      BY <1>3, <1>4, <1>7, <3>1 DEF Held, Holds, IsOpen
    <3>2. CASE l # index[h].list
      <4>1. holder'[l] = holder[l] /\ Held(l)
        BY <1>3, <3>2 DEF IndexInv, HolderInv
      <4>2. holder[l] # NoHandle => index'[holder[l]] = index[holder[l]]
        BY <4>1, <3>2, <1>3 DEF Held
      <4> QED BY <4>1, <4>2 DEF Held, Holds, IsOpen
    <3> QED BY <3>1, <3>2
  <2> QED BY <1>1, <1>5, <1>6, <2>2 DEF IndexInv, Domains, FileInv, QueriesSeeTheList
<1>8. CASE index[h].on # "opfs"
  BY <1>2, <1>8, <1>1 DEF HandleInv
<1> QED BY <1>7, <1>8

\* A query runs over the rows of an index that is ready: of its content, all.
LEMMA AnswersSeesAll ==
  ASSUME IndexInv, NEW h \in Handle, Answers(h)
  PROVE  QueriesSeeTheList'
<1>1. seen' = seen \cup {[of |-> index[h].content, rows |-> Plain(Stored(h))]} /\ index[h].at = "ready"
  BY DEF Answers, At
<1>2. index[h].content \in Content /\ Stored(h) = Marked(RowsOf(index[h].content), index[h].content)
  BY <1>1 DEF IndexInv, HandleInv
<1>3. Plain(Stored(h)) = RowsOf(index[h].content)
  BY <1>2, MarkedFacts
<1> QED BY <1>1, <1>3 DEF IndexInv, QueriesSeeTheList

\* A step that moves an index to another phase, or its query, its rows and its file left alone.
MovesTo(h, at, on, left) ==
  /\ index' = [index EXCEPT ![h] = index'[h]] /\ index'[h] \in IndexRecords
  /\ index'[h].tab = index[h].tab /\ index'[h].list = index[h].list
  /\ index'[h].content = index[h].content /\ index'[h].rows = index[h].rows
  /\ index'[h].at = at /\ index'[h].on = on /\ index'[h].left = left
  /\ UNCHANGED <<file, holder, loads>>

LEMMA MovingKeeps ==
  ASSUME IndexInv, NEW h \in Handle, NEW at, index[h].at # "none",
         MovesTo(h, at, index[h].on, index[h].left), UNCHANGED seen \/ Answers(h),
         at = "opening" => index[h].at = "opening",
         at = "inserting" => index[h].at = "inserting",
         at = "ready" => Stored(h) = Marked(RowsOf(index[h].content), index[h].content),
         at \in {"opened", "checking", "inserting", "ready"} <=> IsOpen(h)
  PROVE  IndexInv'
<1>1. HandleInv(h) /\ loads \in 0..MaxLoads
  BY DEF IndexInv, Domains
<1>2. Stored(h)' = Stored(h) /\ (Holds(h)' <=> Holds(h))
  BY DEF Stored, MovesTo, Holds, IsOpen
<1>3. HandleInv(h)'
  BY <1>1, <1>2 DEF HandleInv, MovesTo
<1>4. QueriesSeeTheList'
  BY AnswersSeesAll DEF IndexInv, QueriesSeeTheList
<1> QED BY <1>1, <1>2, <1>3, <1>4, PlainStepKeeps DEF MovesTo

\* A step that gives an index up: its file is let go.
LEMMA ReleaseKeeps ==
  ASSUME IndexInv, NEW h \in Handle, NEW next \in IndexRecords, index[h].at # "none",
         index' = [index EXCEPT ![h] = next], next.at \in {"failed", "ended"}, next.rows = {},
         next.tab = index[h].tab, next.list = index[h].list, next.content = index[h].content,
         holder' = Released(h), UNCHANGED <<file, loads, seen>>
  PROVE  IndexInv'
<1>1. Domains /\ HandleInv(h)
  BY DEF IndexInv
<1>2. index'[h] = next /\ \A g \in Handle : g # h => index'[g] = index[g]
  BY <1>1 DEF Domains
<1>3. \A l \in List : holder'[l] = IF holder[l] = h THEN NoHandle ELSE holder[l]
  BY DEF Released
<1>4. HandleInv(h)'
  BY <1>1, <1>2, FS_EmptySet DEF HandleInv, Holds, IsOpen
<1>5. \A g \in Handle : g # h => HandleInv(g)'
  BY <1>2, <1>3, OthersKeep
<1>6. HolderInv'
  <2> SUFFICES ASSUME NEW l \in List PROVE Held(l)'
    BY DEF HolderInv
  <2>1. CASE holder[l] = h
    BY <1>3, <2>1 DEF Held
  <2>2. CASE holder[l] # h
    <3>1. holder'[l] = holder[l] /\ Held(l)
      BY <1>3, <2>2 DEF IndexInv, HolderInv
    <3>2. holder[l] # NoHandle => index'[holder[l]] = index[holder[l]]
      BY <1>2, <2>2, <3>1 DEF Held
    <3> QED BY <3>1, <3>2 DEF Held, Holds, IsOpen
  <2> QED BY <2>1, <2>2
<1>7. Domains'
  BY <1>1 DEF Domains, Released
<1> QED BY <1>4, <1>5, <1>6, <1>7 DEF IndexInv, FileInv, QueriesSeeTheList

\* The tab goes: its indexes with it, and the files they had open.
LEMMA LeavesKeeps ==
  ASSUME IndexInv, NEW t \in Tab, Leaves(t)
  PROVE  IndexInv'
<1>1. UNCHANGED <<file, loads, seen>> /\ Domains
  BY DEF Leaves, IndexInv
<1>2. \A h \in Handle : index'[h] = IF index[h].tab = t THEN NoIndex ELSE index[h]
  BY DEF Leaves
<1>3. \A l \in List : holder'[l] = IF holder[l] # NoHandle /\ index[holder[l]].tab = t
                                   THEN NoHandle ELSE holder[l]
  BY DEF Leaves
<1>4. ASSUME NEW h \in Handle PROVE HandleInv(h)'
  <2>1. CASE index[h].tab = t
    <3>1. index'[h] = NoIndex
      BY <1>2, <2>1
    <3> QED BY <3>1, FS_EmptySet DEF HandleInv, NoIndex, IndexRecords, Phases, Holds, IsOpen
  <2>2. CASE index[h].tab # t
    <3>1. index'[h] = index[h] /\ HandleInv(h)
      BY <1>2, <2>2 DEF IndexInv
    <3>2. Stored(h)' = Stored(h) /\ (Holds(h)' <=> Holds(h))
      BY <1>1, <3>1 DEF Stored, Holds, IsOpen
    <3>3. Holds(h) => holder'[index[h].list] = h
      BY <1>3, <2>2, <3>1 DEF HandleInv, Holds, IsOpen
    <3> QED BY <3>1, <3>2, <3>3 DEF HandleInv
  <2> QED BY <2>1, <2>2
<1>5. ASSUME NEW l \in List PROVE Held(l)'
  <2>1. Held(l)
    BY DEF IndexInv, HolderInv
  <2>2. CASE holder'[l] = NoHandle
    BY <2>2 DEF Held
  <2>3. CASE holder'[l] # NoHandle
    <3>1. holder'[l] = holder[l] /\ index[holder[l]].tab # t
      BY <1>3, <2>3
    <3>2. index'[holder[l]] = index[holder[l]]
      BY <1>2, <2>1, <2>3, <3>1 DEF Held
    <3> QED BY <2>1, <3>1, <3>2 DEF Held, Holds, IsOpen
  <2> QED BY <2>2, <2>3
<1>6. Domains'
  BY <1>1 DEF Domains, Leaves
<1> QED BY <1>1, <1>4, <1>5, <1>6 DEF IndexInv, FileInv, HolderInv, QueriesSeeTheList

LEMMA HandleStepKeeps ==
  ASSUME IndexInv, NEW h \in Handle,
         \/ FallsBack(h) \/ Tells(h) \/ OpenFails(h) \/ Reuses(h) \/ Completes(h)
         \/ Asks(h) \/ Sends(h) \/ Refuses(h) \/ Answers(h) \/ Disposes(h)
  PROVE  IndexInv'
<1>1. /\ index = [g \in Handle |-> index[g]] /\ index[h] \in IndexRecords /\ HandleInv(h)
      /\ loads \in 0..MaxLoads
  BY DEF IndexInv, HandleInv, Domains
<1>2. CASE FallsBack(h)
  <2>1. index[h].at = "opening" /\ UNCHANGED <<file, holder, loads, seen>>
        /\ index' = [index EXCEPT ![h].at = "opened", ![h].on = "memory"]
    BY <1>2 DEF FallsBack, At
  <2>2. MovesTo(h, "opened", "memory", index[h].left)
    BY <1>1, <2>1 DEF MovesTo, IndexRecords, Phases
  <2>3. ~Holds(h) /\ ~Holds(h)'
    BY <2>1, <2>2 DEF Holds, IsOpen, MovesTo
  <2>4. HandleInv(h)'
    BY <1>1, <2>1, <2>2, <2>3 DEF HandleInv, MovesTo
  <2>5. QueriesSeeTheList'
    BY <2>1 DEF IndexInv, QueriesSeeTheList
  <2> QED BY <1>1, <2>1, <2>2, <2>3, <2>4, <2>5, PlainStepKeeps DEF MovesTo
<1>3. CASE Tells(h)
  <2>1. index[h].at = "opened" /\ index' = [index EXCEPT ![h].at = "checking"] /\ UNCHANGED <<file, holder, loads, seen>>
    BY <1>3 DEF Tells, At
  <2>2. MovesTo(h, "checking", index[h].on, index[h].left)
    BY <1>1, <2>1 DEF MovesTo, IndexRecords, Phases
  <2> QED BY <2>1, <2>2, MovingKeeps DEF IsOpen
<1>4. CASE OpenFails(h)
  <2>1. index[h].at = "opening" /\ index' = [index EXCEPT ![h].at = "failed"] /\ UNCHANGED <<file, holder, loads, seen>>
    BY <1>4 DEF OpenFails, At
  <2>2. MovesTo(h, "failed", index[h].on, index[h].left)
    BY <1>1, <2>1 DEF MovesTo, IndexRecords, Phases
  <2> QED BY <2>1, <2>2, MovingKeeps DEF IsOpen
<1>5. CASE Reuses(h)
  <2>1. index[h].at = "checking" /\ index' = [index EXCEPT ![h].at = "ready"] /\ UNCHANGED <<file, holder, loads, seen>>
    BY <1>5 DEF Reuses, At
  <2>2. MovesTo(h, "ready", index[h].on, index[h].left)
    BY <1>1, <2>1 DEF MovesTo, IndexRecords, Phases
  <2>3. HoldsExactly(h) /\ index[h].content \in Content /\ IsFiniteSet(Stored(h)) /\ Stored(h) \subseteq KnownMarked
    BY <1>1, <1>5, <2>1 DEF Reuses, IndexInv, FileInv, HandleInv, IndexRecords, Stored
  <2>4. Stored(h) = Marked(RowsOf(index[h].content), index[h].content)
    BY <2>3, ExactlyMeansAll
  <2> QED BY <2>1, <2>2, <2>4, MovingKeeps DEF IsOpen
<1>6. CASE Completes(h)
  <2>1. index[h].at = "inserting" /\ index' = [index EXCEPT ![h].at = "ready"] /\ UNCHANGED <<file, holder, loads, seen>>
    BY <1>6 DEF Completes, At
  <2>2. MovesTo(h, "ready", index[h].on, index[h].left)
    BY <1>1, <2>1 DEF MovesTo, IndexRecords, Phases
  <2>3. index[h].left = {}
    BY <1>6 DEF Completes
  <2>4. Stored(h) = Marked(RowsOf(index[h].content), index[h].content)
    BY <1>1, <2>1, <2>3 DEF HandleInv
  <2> QED BY <2>1, <2>2, <2>4, MovingKeeps DEF IsOpen
<1>7. CASE Asks(h) \/ Sends(h) \/ Refuses(h) \/ Answers(h) \/ Disposes(h)
  <2>1. \/ \E q \in {"none", "waiting", "sent"} : index' = [index EXCEPT ![h].query = q]
        \/ index' = [index EXCEPT ![h].disposed = TRUE]
    BY <1>7 DEF Asks, Sends, Refuses, Answers, Disposes
  <2>2. index[h].at # "none" /\ UNCHANGED <<file, holder, loads>> /\ (UNCHANGED seen \/ Answers(h))
    BY <1>7 DEF Asks, Sends, Refuses, Answers, Disposes, At
  <2>3. MovesTo(h, index[h].at, index[h].on, index[h].left)
    <3>1. CASE index' = [index EXCEPT ![h].disposed = TRUE]
      <4>1. index'[h] = [index[h] EXCEPT !.disposed = TRUE]
        BY <1>1, <3>1
      <4> QED BY <1>1, <2>2, <3>1, <4>1 DEF MovesTo, IndexRecords
    <3>2. ASSUME NEW q \in {"none", "waiting", "sent"}, index' = [index EXCEPT ![h].query = q]
          PROVE  MovesTo(h, index[h].at, index[h].on, index[h].left)
      <4>1. index'[h] = [index[h] EXCEPT !.query = q]
        BY <1>1, <3>2
      <4> QED BY <1>1, <2>2, <3>2, <4>1 DEF MovesTo, IndexRecords
    <3> QED BY <2>1, <3>1, <3>2
  <2>4. index[h].at = "ready" => Stored(h) = Marked(RowsOf(index[h].content), index[h].content)
    BY <1>1 DEF HandleInv
  <2> QED BY <2>2, <2>3, <2>4, MovingKeeps DEF IsOpen
<1> QED BY <1>2, <1>3, <1>4, <1>5, <1>6, <1>7

LEMMA EndingKeeps ==
  ASSUME IndexInv, NEW h \in Handle, InitFails(h) \/ EndsWorker(h)
  PROVE  IndexInv'
<1>1. index[h] \in IndexRecords /\ index = [g \in Handle |-> index[g]]
  BY DEF IndexInv, HandleInv, Domains
<1>2. CASE InitFails(h)
  <2> DEFINE next == [index[h] EXCEPT !.at = "failed", !.rows = {}, !.left = {}]
  <2>1. next \in IndexRecords
    BY <1>1 DEF IndexRecords, Phases
  <2>2. index' = [index EXCEPT ![h] = next] /\ index[h].at # "none" /\ holder' = Released(h)
        /\ UNCHANGED <<file, loads, seen>>
    BY <1>1, <1>2 DEF InitFails
  <2>3. /\ next.at = "failed" /\ next.rows = {} /\ next.tab = index[h].tab
        /\ next.list = index[h].list /\ next.content = index[h].content
    BY <1>1 DEF IndexRecords
  <2> HIDE DEF next
  <2> QED BY <2>1, <2>2, <2>3, ReleaseKeeps
<1>3. CASE EndsWorker(h)
  <2> DEFINE next == [index[h] EXCEPT !.at = "ended", !.rows = {}]
  <2>1. next \in IndexRecords
    BY <1>1 DEF IndexRecords, Phases
  <2>2. index' = [index EXCEPT ![h] = next] /\ index[h].at # "none" /\ holder' = Released(h)
        /\ UNCHANGED <<file, loads, seen>>
    BY <1>1, <1>3 DEF EndsWorker, At
  <2>3. /\ next.at = "ended" /\ next.rows = {} /\ next.tab = index[h].tab
        /\ next.list = index[h].list /\ next.content = index[h].content
    BY <1>1 DEF IndexRecords
  <2> HIDE DEF next
  <2> QED BY <2>1, <2>2, <2>3, ReleaseKeeps
<1> QED BY <1>2, <1>3

LEMMA VanishesKeeps ==
  ASSUME IndexInv, NEW h \in Handle, Vanishes(h)
  PROVE  IndexInv'
<1>1. /\ index = [g \in Handle |-> index[g]] /\ loads \in 0..MaxLoads
      /\ index[h].at \in {"failed", "ended"} /\ index' = [index EXCEPT ![h] = NoIndex]
      /\ UNCHANGED <<file, holder, loads, seen>>
  BY DEF Vanishes, At, IndexInv, Domains
<1>2. index'[h] = NoIndex /\ index' = [index EXCEPT ![h] = index'[h]]
  BY <1>1
<1>3. HandleInv(h)'
  BY <1>2, FS_EmptySet DEF HandleInv, NoIndex, IndexRecords, Phases, Holds, IsOpen
<1>4. ~Holds(h)
  BY <1>1 DEF Holds, IsOpen
<1> QED BY <1>1, <1>2, <1>3, <1>4, PlainStepKeeps DEF IndexInv, QueriesSeeTheList

LEMMA IndexInvNext == IndexInv /\ [IndexNext]_indexVars => IndexInv'
<1> SUFFICES ASSUME IndexInv, [IndexNext]_indexVars PROVE IndexInv'
  OBVIOUS
<1>1. ASSUME NEW t \in Tab, NEW l \in List, NEW c \in Content, NEW h \in Handle, Load(t, l, c, h)
      PROVE  IndexInv'
  BY <1>1, LoadKeeps
<1>2. ASSUME NEW t \in Tab, Leaves(t) PROVE IndexInv'
  BY <1>2, LeavesKeeps
<1>3. ASSUME NEW h \in Handle, TakesFile(h) \/ Clears(h) \/ Inserts(h) \/ Vanishes(h) PROVE IndexInv'
  BY <1>3, TakesFileKeeps, ClearsKeeps, InsertsKeeps, VanishesKeeps
<1>4. ASSUME NEW h \in Handle, InitFails(h) \/ EndsWorker(h) PROVE IndexInv'
  BY <1>4, EndingKeeps
<1>5. ASSUME NEW h \in Handle,
             \/ FallsBack(h) \/ Tells(h) \/ OpenFails(h) \/ Reuses(h) \/ Completes(h)
             \/ Asks(h) \/ Sends(h) \/ Refuses(h) \/ Answers(h) \/ Disposes(h)
      PROVE  IndexInv'
  BY <1>5, HandleStepKeeps
<1>6. CASE UNCHANGED indexVars
  <2>1. \A h \in Handle : HandleInv(h)'
    BY <1>6 DEF indexVars, IndexInv, HandleInv, Stored, Holds, IsOpen
  <2>2. Domains' /\ FileInv' /\ HolderInv' /\ QueriesSeeTheList'
    BY <1>6 DEF indexVars, IndexInv, Domains, FileInv, HolderInv, Held, Holds, IsOpen, QueriesSeeTheList
  <2> QED BY <2>1, <2>2 DEF IndexInv
<1> QED BY <1>1, <1>2, <1>3, <1>4, <1>5, <1>6 DEF IndexNext

-----------------------------------------------------------------------------
\* A file that is open is open to one index, which is of its list and not in memory
\* (openWithMemoryFallback, vectorIndex.ts).
THEOREM IndexTypeCorrect == IndexSpec => []IndexTypeOK
<1>1. IndexInv => IndexTypeOK
  BY DEF IndexInv, Domains, HolderInv, Held, Holds, IndexTypeOK
<1> QED BY <1>1, IndexInvInit, IndexInvNext, PTL DEF IndexSpec

\* A query is answered from the rows of the list its engine was loaded with, all of them and
\* no other (vectorIndex.ts:145-149), for any tabs, lists, contents and batch size.
THEOREM QueriesSeeLists == IndexSpec => []QueriesSeeTheList
<1>1. IndexInv => QueriesSeeTheList
  BY DEF IndexInv
<1> QED BY <1>1, IndexInvInit, IndexInvNext, PTL DEF IndexSpec
=============================================================================
