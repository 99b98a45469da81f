----------------------------- MODULE TabProofs -----------------------------
(* The boot of the store, the settings page and the page that screens, for any *)
(* tabs, workers, delays, lists, persists, queries and calls: types, that no   *)
(* request sees a schema that is not there, that a busy store is not the tab's *)
(* own past, that no list is switched off unasked, and that what is on display *)
(* comes to rest on the box.                                                   *)
EXTENDS StoreBoot, SettingsPage, ScreenPage, TLAPS

-----------------------------------------------------------------------------
(* The boot of the store.                                                    *)

\* A request on its way to a worker.
Request == [id: Nat, kind: {"open", "request"}]
WorkerRecord ==
  [tab: Tab \cup {NoTab}, live: BOOLEAN, pending: SUBSET Nat, next: Nat,
   inbox: Seq(Request), open: {"none", "trying", "held"}, attempt: Nat, delay: Nat,
   wait: Nat, waiters: SUBSET Nat, database: BOOLEAN, guarded: BOOLEAN,
   usable: BOOLEAN, lostTo: [tab: Tab \cup {NoTab}, releasing: BOOLEAN]]
\* Handles that are being released are somebody's.
Pools == {p \in [by: {0} \cup Workers, release: Nat] : p.release # 0 => p.by # 0}

StoreTypes ==
  /\ memo \in [Tab -> {0} \cup Workers]
  /\ worker \in [Workers -> WorkerRecord]
  /\ pool \in Pools
  /\ disk \in 0..SchemaVersion /\ ranAt \in 0..SchemaVersion

\* What is in the inbox of a worker is pending and waits for nothing else;
\* its number was given once.
Numbered(w) ==
  /\ w.waiters \subseteq w.pending /\ \A n \in w.pending : n <= w.next
  /\ \A i \in DOMAIN w.inbox : w.inbox[i].id \in w.pending \ w.waiters
  /\ \A i, j \in DOMAIN w.inbox : w.inbox[i].id = w.inbox[j].id => i = j
\* Whoever may post has a database with its triggers, up to date; before,
\* there is only the open.
Guarded(w) ==
  /\ w.usable => w.guarded /\ w.open = "held"
  /\ ~w.usable => \A i \in DOMAIN w.inbox : w.inbox[i].kind = "open"
UpToDate == \A k \in Workers : worker[k].usable => disk = SchemaVersion

StoreInv ==
  /\ StoreTypes /\ UpToDate
  /\ \A k \in Workers : Numbered(worker[k]) /\ Guarded(worker[k])
  /\ RequestsSeeTheSchema

\* The first open of a worker has not been answered.
Opening(w) == w.live /\ ~w.usable /\ (w.open = "trying" \/ w.inbox # <<>>)
FirstOpen(w) ==
  /\ ~w.usable /\ w.inbox # <<>> => w.open = "none" /\ Len(w.inbox) = 1
  /\ ~w.live => ~w.usable /\ w.open = "none" /\ w.inbox = <<>>
Backoffs(D, S) ==
  /\ D \in [1..MaxAttempts -> Nat] /\ S \in [1..MaxAttempts -> Nat]
  /\ D[1] = InitialDelay /\ S[1] = 0
  /\ \A n \in 1..(MaxAttempts - 1) : D[n + 1] = NextDelay(D[n]) /\ S[n + 1] = S[n] + D[n]

\* A worker whose first open is not answered is the one its page counts
\* on; it has waited as long as the handles of its tab have been on their
\* way.
PastOf(k, D, S) ==
  /\ FirstOpen(worker[k])
  /\ Opening(worker[k]) => worker[k].tab \in Tab /\ memo[worker[k].tab] = k
  /\ worker[k].open = "trying" =>
       worker[k].attempt \in 1..MaxAttempts /\ worker[k].delay = D[worker[k].attempt]
  /\ Opening(worker[k]) /\ worker[k].open = "trying" /\ pool.release # 0
     /\ worker[pool.by].tab = worker[k].tab
     => pool.release + S[worker[k].attempt] <= ReleaseTime + worker[k].wait
  /\ ~(worker[k].lostTo.releasing /\ worker[k].lostTo.tab = worker[k].tab)
PastInv(D, S) == pool.release <= ReleaseTime /\ \A k \in Workers : PastOf(k, D, S)

\* A sequence of no length is empty, and one append gives one element.
LEMMA NothingIn == ASSUME NEW S, NEW t \in Seq(S), Len(t) = 0 PROVE t = <<>>
OBVIOUS

\* And one append to it gives one element.
LEMMA OneIn == ASSUME NEW x, NEW s, s = <<>> PROVE Len(Append(s, x)) = 1
<1>1. Append(s, x) = <<x>>
  OBVIOUS
<1> QED BY <1>1

\* A worker that is not there yet, and one that was stopped.
LEMMA UnbornTyped == Unborn \in WorkerRecord /\ Numbered(Unborn) /\ Guarded(Unborn)
BY DEF Unborn, NotLost, WorkerRecord, Numbered, Guarded

\* Nor has a worker that was stopped anything to answer.
LEMMA StoppedTyped ==
    ASSUME NEW w \in WorkerRecord
    PROVE  Stopped(w) \in WorkerRecord /\ Numbered(Stopped(w)) /\ Guarded(Stopped(w))
           /\ ~Stopped(w).usable
<1> DEFINE u == [Unborn EXCEPT !.tab = w.tab]
<1>1. u \in WorkerRecord /\ u = [Unborn EXCEPT !.tab = w.tab]
  BY UnbornTyped DEF WorkerRecord
<1>2. w.lostTo \in [tab: Tab \cup {NoTab}, releasing: BOOLEAN]
  BY DEF WorkerRecord
<1>3. Stopped(w) = [u EXCEPT !.lostTo = w.lostTo]
  BY DEF Stopped
<1> HIDE DEF u
<1>4. Stopped(w) \in WorkerRecord
  BY <1>1, <1>2, <1>3 DEF WorkerRecord
<1>5. /\ Stopped(w).waiters = {} /\ Stopped(w).pending = {} /\ Stopped(w).inbox = <<>>
      /\ Stopped(w).usable = FALSE
  BY DEF Stopped, Unborn
<1> QED BY <1>4, <1>5 DEF Numbered, Guarded

\* client.ts:196-228: a request is numbered anew and waits for its answer.
LEMMA PostedTyped ==
    ASSUME NEW w \in WorkerRecord, Numbered(w), Guarded(w), NEW kind \in {"open", "request"},
           w.usable \/ kind = "open"
    PROVE  Posted(w, kind) \in WorkerRecord /\ Numbered(Posted(w, kind)) /\ Guarded(Posted(w, kind))
           /\ Posted(w, kind).usable = w.usable
<1> DEFINE r == [id |-> w.next + 1, kind |-> kind]
           queue == Append(w.inbox, r)
           p == Posted(w, kind)
<1>1. r \in Request /\ w.inbox \in Seq(Request)
  BY DEF WorkerRecord, Request
<1>2. /\ queue \in Seq(Request) /\ Len(queue) = Len(w.inbox) + 1
      /\ \A i \in 1..Len(w.inbox) : queue[i] = w.inbox[i]
      /\ queue[Len(w.inbox) + 1] = r
  BY <1>1
<1>3. p = [w EXCEPT !.next = w.next + 1, !.pending = w.pending \cup {w.next + 1}, !.inbox = queue]
  BY DEF Posted, WorkerRecord
<1> HIDE DEF queue, p
<1>4. p \in WorkerRecord
  <2>1. w.next + 1 \in Nat /\ w.pending \cup {w.next + 1} \in SUBSET Nat
    BY DEF WorkerRecord
  <2> QED BY <1>2, <1>3, <2>1 DEF WorkerRecord
<1>5. p.next = w.next + 1 /\ p.pending = w.pending \cup {w.next + 1} /\ p.inbox = queue
      /\ p.waiters = w.waiters /\ p.usable = w.usable /\ p.guarded = w.guarded /\ p.open = w.open
  BY <1>3 DEF WorkerRecord
<1>6. Numbered(p)
  <2>1. \A i \in 1..Len(w.inbox) : w.inbox[i].id \in w.pending \ w.waiters /\ w.inbox[i].id # w.next + 1
    BY <1>1 DEF Numbered, WorkerRecord
  <2>2. w.next + 1 \notin w.pending
    BY DEF Numbered, WorkerRecord
  <2>3. DOMAIN queue = 1..(Len(w.inbox) + 1) /\ DOMAIN w.inbox = 1..Len(w.inbox) /\ Len(w.inbox) \in Nat
    BY <1>1, <1>2
  <2>4. \A i \in DOMAIN queue : (i \in DOMAIN w.inbox /\ queue[i] = w.inbox[i])
                                \/ (i = Len(w.inbox) + 1 /\ queue[i].id = w.next + 1)
    <3> TAKE i \in DOMAIN queue
    <3>1. CASE i <= Len(w.inbox)
      BY <2>3, <1>2, <3>1
    <3>2. CASE ~(i <= Len(w.inbox))
      <4>1. i = Len(w.inbox) + 1
        BY <2>3, <3>2
      <4> QED BY <4>1, <1>2
    <3> QED BY <3>1, <3>2
  <2>5. \A i \in DOMAIN queue : queue[i].id \in p.pending \ p.waiters
    BY <2>1, <2>2, <2>3, <2>4, <1>5 DEF Numbered
  <2>6. \A i, j \in DOMAIN queue : queue[i].id = queue[j].id => i = j
    BY <2>1, <2>3, <2>4 DEF Numbered
  <2>7. p.waiters \subseteq p.pending /\ \A n \in p.pending : n <= p.next
    BY <1>5 DEF Numbered, WorkerRecord
  <2> QED BY <2>5, <2>6, <2>7, <1>5 DEF Numbered
<1>7. Guarded(p)
  <2>1. p.usable => p.guarded /\ p.open = "held"
    BY <1>5 DEF Guarded
  <2>2. ASSUME ~w.usable, NEW i \in DOMAIN queue PROVE queue[i].kind = "open"
    <3>1. DOMAIN queue = 1..(Len(w.inbox) + 1) /\ DOMAIN w.inbox = 1..Len(w.inbox) /\ Len(w.inbox) \in Nat
      BY <1>1, <1>2
    <3>2. CASE i <= Len(w.inbox)
      BY <1>2, <2>2, <3>1, <3>2 DEF Guarded
    <3>3. CASE ~(i <= Len(w.inbox))
      <4>1. i = Len(w.inbox) + 1
        BY <3>1, <3>3
      <4> QED BY <4>1, <1>2, <2>2
    <3> QED BY <3>2, <3>3
  <2> QED BY <1>5, <2>1, <2>2 DEF Guarded
<1> QED BY <1>4, <1>5, <1>6, <1>7 DEF p

\* client.ts:230-238: the answer of a worker settles whoever waited for it.
LEMMA SettledTyped ==
    ASSUME NEW w \in WorkerRecord, Numbered(w), Guarded(w), NEW ok \in BOOLEAN,
           ok => w.guarded /\ w.open = "held",
           NEW r, r = [w EXCEPT !.waiters = {}, !.usable = @ \/ ok, !.pending = @ \ w.waiters]
    PROVE  /\ r \in WorkerRecord /\ Numbered(r) /\ Guarded(r)
           /\ r.usable => w.usable \/ ok
<1>1. r \in WorkerRecord
  BY DEF WorkerRecord
<1>2. r.waiters = {} /\ r.usable = (w.usable \/ ok) /\ r.pending = w.pending \ w.waiters
      /\ r.inbox = w.inbox /\ r.next = w.next /\ r.guarded = w.guarded /\ r.open = w.open
  BY DEF WorkerRecord
<1>3. Numbered(r)
  BY <1>2 DEF Numbered
<1>4. r.usable => w.usable \/ ok
  BY <1>2
<1>5. Guarded(r)
  <2>1. CASE w.usable
    BY <1>2, <2>1 DEF Guarded
  <2>2. CASE ok
    BY <1>2, <2>2 DEF Guarded
  <2>3. CASE ~w.usable /\ ~ok
    BY <1>2, <2>3 DEF Guarded
  <2> QED BY <2>1, <2>2, <2>3
<1> QED BY <1>1, <1>3, <1>4, <1>5

\* One worker moves, and says it is usable only with the schema there.
LEMMA OneWorkerMoves ==
    ASSUME StoreInv, NEW k \in Workers, NEW r \in WorkerRecord, Numbered(r), Guarded(r),
           worker' = [worker EXCEPT ![k] = r], disk' = disk, r.usable => disk = SchemaVersion
    PROVE  /\ worker' \in [Workers -> WorkerRecord] /\ UpToDate'
           /\ \A j \in Workers : Numbered(worker'[j]) /\ Guarded(worker'[j])
<1>1. \A j \in Workers : worker'[j] = IF j = k THEN r ELSE worker[j]
  BY DEF StoreInv, StoreTypes
<1>2. worker' \in [Workers -> WorkerRecord]
  BY DEF StoreInv, StoreTypes
<1> QED BY <1>1, <1>2 DEF StoreInv, UpToDate

\* The steps of a worker: it answers,
LEMMA SettlesKeeps ==
    ASSUME StoreInv, NEW k \in Workers, NEW w \in WorkerRecord, Numbered(w), Guarded(w),
           w.usable => worker[k].usable,
           NEW ok \in BOOLEAN, ok => w.guarded /\ w.open = "held" /\ disk = SchemaVersion,
           Settles(k, w, ok), UNCHANGED <<disk, ranAt>>, pool' \in Pools
    PROVE  StoreInv'
<1> DEFINE r == [w EXCEPT !.waiters = {}, !.usable = @ \/ ok, !.pending = @ \ w.waiters]
<1>1. r \in WorkerRecord /\ Numbered(r) /\ Guarded(r) /\ (r.usable => w.usable \/ ok)
  BY SettledTyped
<1>2. worker' = [worker EXCEPT ![k] = r]
  BY DEF Settles
<1>3. memo' \in [Tab -> {0} \cup Workers]
  BY DEF Settles, StoreInv, StoreTypes
<1> HIDE DEF r
<1>4. r.usable => disk = SchemaVersion
  BY <1>1 DEF StoreInv, UpToDate
<1> QED BY <1>1, <1>2, <1>3, <1>4, OneWorkerMoves DEF StoreInv, StoreTypes, RequestsSeeTheSchema

\* it receives a request,
LEMMA ReceivesKeeps ==
    ASSUME StoreInv, NEW k \in Workers, Receives(k)
    PROVE  StoreInv'
<1> DEFINE w == [worker[k] EXCEPT !.inbox = Tail(@)]
           q == Head(worker[k].inbox)
<1>1. worker[k] \in WorkerRecord /\ Numbered(worker[k]) /\ Guarded(worker[k])
  BY DEF StoreInv, StoreTypes
<1>2. worker[k].inbox \in Seq(Request) /\ worker[k].inbox # <<>>
  BY <1>1 DEF Receives, WorkerRecord
<1>3. /\ q \in Request /\ q = worker[k].inbox[1] /\ 1 \in DOMAIN worker[k].inbox
      /\ Tail(worker[k].inbox) \in Seq(Request)
      /\ \A i \in DOMAIN Tail(worker[k].inbox) :
            i + 1 \in DOMAIN worker[k].inbox /\ i \in Nat /\ i + 1 # 1
            /\ Tail(worker[k].inbox)[i] = worker[k].inbox[i + 1]
  BY <1>2
<1>4. w \in WorkerRecord /\ w.inbox = Tail(worker[k].inbox) /\ w.waiters = worker[k].waiters
      /\ w.pending = worker[k].pending /\ w.usable = worker[k].usable /\ w.open = worker[k].open
      /\ w.guarded = worker[k].guarded /\ w.next = worker[k].next /\ w.attempt = worker[k].attempt
      /\ w.delay = worker[k].delay
  BY <1>1, <1>3 DEF WorkerRecord
<1>5. q.id \in w.pending \ w.waiters /\ q.id \in Nat
      /\ \A i \in DOMAIN w.inbox : w.inbox[i].id \in w.pending \ w.waiters /\ w.inbox[i].id # q.id
  BY <1>1, <1>3, <1>4 DEF Numbered, Request
<1>6. \A i, j \in DOMAIN w.inbox : w.inbox[i].id = w.inbox[j].id => i = j
  BY <1>1, <1>3, <1>4, SMTT(20) DEF Numbered
<1>7. ~w.usable => q.kind = "open" /\ \A i \in DOMAIN w.inbox : w.inbox[i].kind = "open"
  BY <1>1, <1>3, <1>4 DEF Guarded
<1>8. w.waiters \subseteq w.pending /\ \A n \in w.pending : n <= w.next
  BY <1>1, <1>4 DEF Numbered
<1>9. w.usable => w.guarded /\ w.open = "held" /\ disk = SchemaVersion
  BY <1>1, <1>4 DEF Guarded, StoreInv, UpToDate
<1> HIDE DEF q, w
<1>10. CASE q.kind = "open"
  <2> DEFINE r == [w EXCEPT !.waiters = @ \cup {q.id},
                            !.open = IF @ = "none" THEN "trying" ELSE @,
                            !.attempt = IF w.open = "none" THEN 1 ELSE @,
                            !.delay = IF w.open = "none" THEN InitialDelay ELSE @]
  <2>1. r \in WorkerRecord
    BY <1>4, <1>5, StoreBootAssumption, ZenonT(40) DEF WorkerRecord
  <2>2. r.waiters = w.waiters \cup {q.id} /\ r.open = (IF w.open = "none" THEN "trying" ELSE w.open)
        /\ r.pending = w.pending /\ r.inbox = w.inbox /\ r.next = w.next /\ r.usable = w.usable
        /\ r.guarded = w.guarded
    BY <1>4 DEF WorkerRecord
  <2>3. worker' = [worker EXCEPT ![k] = r] /\ UNCHANGED <<ranAt, memo, pool, disk>>
    BY <1>10 DEF Receives, q, w
  <2> HIDE DEF r
  <2>4. Numbered(r)
    BY <1>5, <1>6, <1>8, <2>2 DEF Numbered
  <2>5. Guarded(r)
    BY <1>7, <1>9, <2>2 DEF Guarded
  <2>6. r.usable => disk = SchemaVersion
    BY <1>9, <2>2
  <2> QED BY <2>1, <2>3, <2>4, <2>5, <2>6, OneWorkerMoves DEF StoreInv, StoreTypes, RequestsSeeTheSchema
<1>11. CASE q.kind # "open"
  <2> DEFINE r == [w EXCEPT !.pending = @ \ {q.id}]
  <2>1. r \in WorkerRecord
    BY <1>4 DEF WorkerRecord
  <2>2. r.waiters = w.waiters /\ r.open = w.open
        /\ r.pending = w.pending \ {q.id} /\ r.inbox = w.inbox /\ r.next = w.next /\ r.usable = w.usable
        /\ r.guarded = w.guarded
    BY <1>4 DEF WorkerRecord
  <2>3. worker' = [worker EXCEPT ![k] = r] /\ UNCHANGED <<memo, pool, disk>>
    BY <1>11 DEF Receives, q, w
  <2>4. ranAt' = ranAt
    <3>1. w.guarded /\ disk = SchemaVersion /\ ranAt = SchemaVersion
      BY <1>7, <1>9, <1>11 DEF StoreInv, RequestsSeeTheSchema
    <3> QED BY <1>11, <3>1, StoreBootAssumption DEF Receives, q, w
  <2> HIDE DEF r
  <2>5. Numbered(r)
    BY <1>5, <1>6, <1>8, <2>2 DEF Numbered
  <2>6. Guarded(r)
    BY <1>7, <1>9, <2>2 DEF Guarded
  <2>7. r.usable => disk = SchemaVersion
    BY <1>9, <2>2
  <2> QED BY <2>1, <2>3, <2>4, <2>5, <2>6, <2>7, OneWorkerMoves DEF StoreInv, StoreTypes, RequestsSeeTheSchema
<1> QED BY <1>10, <1>11

\* The invariant holds at first,
LEMMA StoreInvInit == ASSUME BootInit PROVE StoreInv
<1>1. StoreTypes
  BY UnbornTyped, StoreBootAssumption DEF BootInit, StoreTypes, Pools
<1>2. \A k \in Workers : worker[k] = Unborn
  BY DEF BootInit
<1>3. ~Unborn.usable
  BY DEF Unborn
<1> QED BY <1>1, <1>2, <1>3, UnbornTyped DEF BootInit, StoreInv, UpToDate, RequestsSeeTheSchema

\* a worker keeps it, whatever it does,
LEMMA WorkerStepKeeps ==
    ASSUME StoreInv, NEW k \in Workers, WorkerStep(k)
    PROVE  StoreInv'
<1>1. worker[k] \in WorkerRecord /\ Numbered(worker[k]) /\ Guarded(worker[k])
  BY DEF StoreInv, StoreTypes
<1>2. (worker[k].usable => disk = SchemaVersion) /\ disk \in 0..SchemaVersion
  BY DEF StoreInv, StoreTypes, UpToDate
<1>3. pool \in Pools
  BY DEF StoreInv, StoreTypes
<1>4. ASSUME NEW r \in WorkerRecord, worker' = [worker EXCEPT ![k] = r], Numbered(r), Guarded(r),
             r.usable = worker[k].usable, UNCHANGED <<memo, disk, ranAt>>,
             pool' \in Pools
      PROVE  StoreInv'
  BY <1>2, <1>4, OneWorkerMoves DEF StoreInv, StoreTypes, RequestsSeeTheSchema
<1>5. CASE Receives(k)
  BY <1>5, ReceivesKeeps
<1>6. CASE Acquires(k)
  <2> DEFINE r == [worker[k] EXCEPT !.open = "held", !.database = TRUE]
  <2>1. /\ r \in WorkerRecord /\ r.usable = worker[k].usable /\ r.open = "held"
        /\ r.pending = worker[k].pending /\ r.waiters = worker[k].waiters /\ r.next = worker[k].next
        /\ r.inbox = worker[k].inbox /\ r.guarded = worker[k].guarded
    BY <1>1 DEF WorkerRecord
  <2>2. worker' = [worker EXCEPT ![k] = r]
    BY <1>6 DEF Acquires, StoreInv, StoreTypes
  <2>3. Numbered(r) /\ Guarded(r)
    BY <1>1, <2>1 DEF Numbered, Guarded
  <2>4. pool' \in Pools /\ UNCHANGED <<memo, disk, ranAt>>
    BY <1>3, <1>6 DEF Acquires, Contended, Pools
  <2> HIDE DEF r
  <2> QED BY <1>4, <2>1, <2>2, <2>3, <2>4
<1>7. ~worker[k].usable \/ worker[k].open = "held"
  BY <1>1 DEF Guarded
<1>8. CASE FailsToOpen(k)
  <2> DEFINE w == [worker[k] EXCEPT !.open = "none"]
  <2>1. ~worker[k].usable
    BY <1>7, <1>8 DEF FailsToOpen, Trying
  <2>2. /\ w \in WorkerRecord /\ w.usable = worker[k].usable
        /\ w.pending = worker[k].pending /\ w.waiters = worker[k].waiters /\ w.next = worker[k].next
        /\ w.inbox = worker[k].inbox /\ w.tab = worker[k].tab
    BY <1>1 DEF WorkerRecord
  <2>3. Numbered(w) /\ Guarded(w)
    BY <1>1, <2>1, <2>2 DEF Numbered, Guarded
  <2>4. pool' \in Pools /\ UNCHANGED <<disk, ranAt>>
    BY <1>3, <1>8 DEF FailsToOpen, Contended, Pools
  <2>5. Settles(k, w, FALSE)
    BY <1>8 DEF FailsToOpen
  <2> HIDE DEF w
  <2> QED BY <2>2, <2>3, <2>4, <2>5, SettlesKeeps
<1>9. CASE BacksOff(k)
  <2> DEFINE r == [worker[k] EXCEPT !.attempt = @ + 1, !.wait = worker[k].delay, !.delay = NextDelay(@)]
  <2>1. worker[k].delay \in Nat /\ NextDelay(worker[k].delay) \in Nat /\ worker[k].attempt + 1 \in Nat
    <3>1. worker[k].delay \in Nat /\ worker[k].attempt \in Nat
      BY <1>1 DEF WorkerRecord
    <3> QED BY <3>1, StoreBootAssumption DEF NextDelay
  <2>2. /\ r \in WorkerRecord /\ r.usable = worker[k].usable /\ r.open = worker[k].open
        /\ r.pending = worker[k].pending /\ r.waiters = worker[k].waiters /\ r.next = worker[k].next
        /\ r.inbox = worker[k].inbox /\ r.guarded = worker[k].guarded
    BY <1>1, <2>1 DEF WorkerRecord
  <2>3. worker' = [worker EXCEPT ![k] = r]
    BY <1>9 DEF BacksOff, StoreInv, StoreTypes
  <2>4. Numbered(r) /\ Guarded(r)
    BY <1>1, <2>2 DEF Numbered, Guarded
  <2>5. pool' \in Pools /\ UNCHANGED <<memo, disk, ranAt>>
    BY <1>3, <1>9 DEF BacksOff
  <2> HIDE DEF r
  <2> QED BY <1>4, <2>2, <2>3, <2>4, <2>5
<1>10. CASE GivesUp(k)
  <2> DEFINE to == [tab |-> worker[pool.by].tab, releasing |-> pool.release # 0]
             w == [worker[k] EXCEPT !.open = "none", !.lostTo = to]
  <2>1. ~worker[k].usable
    BY <1>7, <1>10 DEF GivesUp, Trying
  <2>2. pool.by \in Workers
    BY <1>3, <1>10 DEF GivesUp, Contended, Pools
  <2>3. to \in [tab: Tab \cup {NoTab}, releasing: BOOLEAN]
    BY <2>2 DEF StoreInv, StoreTypes, WorkerRecord
  <2>4. Settles(k, w, FALSE)
    BY <1>10 DEF GivesUp
  <2> HIDE DEF to
  <2>5. /\ w \in WorkerRecord /\ w.usable = worker[k].usable
        /\ w.pending = worker[k].pending /\ w.waiters = worker[k].waiters /\ w.next = worker[k].next
        /\ w.inbox = worker[k].inbox /\ w.tab = worker[k].tab
    BY <1>1, <2>3 DEF WorkerRecord
  <2>6. Numbered(w) /\ Guarded(w)
    BY <1>1, <2>1, <2>5 DEF Numbered, Guarded
  <2>7. pool' \in Pools /\ UNCHANGED <<disk, ranAt>>
    BY <1>3, <1>10 DEF GivesUp
  <2> HIDE DEF w
  <2> QED BY <2>4, <2>5, <2>6, <2>7, SettlesKeeps
<1>11. CASE Guards(k)
  <2> DEFINE r == [worker[k] EXCEPT !.guarded = TRUE]
  <2>1. /\ r \in WorkerRecord /\ r.usable = worker[k].usable /\ r.open = worker[k].open
        /\ r.pending = worker[k].pending /\ r.waiters = worker[k].waiters /\ r.next = worker[k].next
        /\ r.inbox = worker[k].inbox /\ r.guarded = TRUE
    BY <1>1 DEF WorkerRecord
  <2>2. worker' = [worker EXCEPT ![k] = r]
    BY <1>11 DEF Guards, StoreInv, StoreTypes
  <2>3. Numbered(r) /\ Guarded(r)
    BY <1>1, <2>1 DEF Numbered, Guarded
  <2>4. pool' \in Pools /\ UNCHANGED <<memo, disk, ranAt>>
    BY <1>3, <1>11 DEF Guards
  <2> HIDE DEF r
  <2> QED BY <1>4, <2>1, <2>2, <2>3, <2>4
<1>12. CASE MigratesOne(k)
  <2>1. \A j \in Workers : ~worker[j].usable
    BY <1>2, <1>12, StoreBootAssumption DEF MigratesOne, StoreInv, UpToDate
  <2>2. disk' \in 0..SchemaVersion /\ UNCHANGED <<memo, worker, pool, ranAt>>
    BY <1>2, <1>12, StoreBootAssumption DEF MigratesOne
  <2> QED BY <2>1, <2>2 DEF StoreInv, StoreTypes, UpToDate, RequestsSeeTheSchema
<1>13. CASE Opens(k)
  <2>1. worker[k].guarded /\ worker[k].open = "held" /\ Settles(k, worker[k], TRUE)
    BY <1>13 DEF Opens, Migrating
  <2>3. disk = SchemaVersion
    <3>1. disk >= SchemaVersion
      BY <1>13 DEF Opens
    <3> QED BY <1>2, <3>1, StoreBootAssumption
  <2>2. UNCHANGED <<pool, disk, ranAt>>
    BY <1>13 DEF Opens
  <2> QED BY <1>1, <1>3, <2>1, <2>2, <2>3, SettlesKeeps
<1>14. CASE MigrationFails(k)
  <2>1. Settles(k, worker[k], FALSE) /\ UNCHANGED <<pool, disk, ranAt>>
    BY <1>14 DEF MigrationFails
  <2> QED BY <1>1, <1>3, <2>1, SettlesKeeps
<1> QED BY <1>5, <1>6, <1>8, <1>9, <1>10, <1>11, <1>12, <1>13, <1>14 DEF WorkerStep

\* the handles that a worker had are on their way,
LEMMA ReleasedTyped ==
    ASSUME StoreInv, NEW k \in Workers, Released(k)
    PROVE  pool' \in Pools
<1>1. k # 0
  BY StoreBootAssumption DEF Workers
<1>2. pool \in Pools
  BY DEF StoreInv, StoreTypes
<1> QED BY <1>1, <1>2, StoreBootAssumption DEF Released, Pools

\* and several workers go at once.
LEMMA ManyWorkersMove ==
    ASSUME StoreInv, NEW r, r \in [Workers -> WorkerRecord], worker' = r,
           \A k \in Workers : Numbered(r[k]) /\ Guarded(r[k]) /\ (r[k].usable => worker[k].usable),
           memo' \in [Tab -> {0} \cup Workers], pool' \in Pools, UNCHANGED <<disk, ranAt>>
    PROVE  StoreInv'
BY DEF StoreInv, StoreTypes, UpToDate, RequestsSeeTheSchema

\* Every step keeps it,
LEMMA StoreStep == ASSUME StoreInv, [BootNext]_bootVars PROVE StoreInv'
<1>0. \A k \in Workers : /\ worker[k] \in WorkerRecord /\ Numbered(worker[k]) /\ Guarded(worker[k])
                         /\ worker[k].usable => disk = SchemaVersion
  BY DEF StoreInv, StoreTypes, UpToDate
<1>1. memo \in [Tab -> {0} \cup Workers] /\ pool \in Pools
  BY DEF StoreInv, StoreTypes
<1>2. ASSUME NEW t \in Tab, NEW k \in Workers, Spawns(t, k) PROVE StoreInv'
  <2> DEFINE u == [Unborn EXCEPT !.tab = t, !.live = TRUE]
             r == Posted(u, "open")
  <2>1. u \in WorkerRecord /\ Numbered(u) /\ Guarded(u) /\ ~u.usable
    <3>1. [Unborn EXCEPT !.tab = t] \in WorkerRecord
      BY UnbornTyped DEF WorkerRecord
    <3>2. u \in WorkerRecord
      BY <3>1 DEF WorkerRecord
    <3>3. u.waiters = {} /\ u.pending = {} /\ u.inbox = <<>> /\ u.usable = FALSE
      BY DEF Unborn
    <3> HIDE DEF u
    <3> QED BY <3>2, <3>3 DEF Numbered, Guarded
  <2> HIDE DEF u
  <2>2. r \in WorkerRecord /\ Numbered(r) /\ Guarded(r) /\ ~r.usable
    BY <2>1, PostedTyped
  <2>3. worker' = [worker EXCEPT ![k] = r] /\ UNCHANGED <<pool, disk, ranAt>>
    BY <1>2 DEF Spawns, u
  <2>4. memo' \in [Tab -> {0} \cup Workers]
    BY <1>1, <1>2 DEF Spawns
  <2> HIDE DEF r
  <2> QED BY <2>2, <2>3, <2>4, OneWorkerMoves DEF StoreInv, StoreTypes, RequestsSeeTheSchema
<1>3. ASSUME NEW k \in Workers, NEW kind \in {"open", "request"}, Posts(k, kind) PROVE StoreInv'
  <2> DEFINE r == Posted(worker[k], kind)
  <2>1. worker[k].usable
    BY <1>3 DEF Posts
  <2>2. r \in WorkerRecord /\ Numbered(r) /\ Guarded(r)
    BY <1>0, <2>1, PostedTyped
  <2>3. worker' = [worker EXCEPT ![k] = r] /\ UNCHANGED <<memo, pool, disk, ranAt>>
    BY <1>3 DEF Posts
  <2> HIDE DEF r
  <2> QED BY <1>0, <2>1, <2>2, <2>3, OneWorkerMoves DEF StoreInv, StoreTypes, RequestsSeeTheSchema
<1>4. ASSUME NEW k \in Workers, Terminates(k) PROVE StoreInv'
  <2> DEFINE r == Stopped(worker[k])
  <2>1. r \in WorkerRecord /\ Numbered(r) /\ Guarded(r) /\ ~r.usable
    BY <1>0, StoppedTyped
  <2>2. worker' = [worker EXCEPT ![k] = r] /\ UNCHANGED <<disk, ranAt>>
    BY <1>4 DEF Terminates
  <2>3. memo' \in [Tab -> {0} \cup Workers] /\ pool' \in Pools
    BY <1>1, <1>4, ReleasedTyped DEF Terminates
  <2> HIDE DEF r
  <2> QED BY <2>1, <2>2, <2>3, OneWorkerMoves DEF StoreInv, StoreTypes, RequestsSeeTheSchema
<1>5. ASSUME NEW t \in Tab, Navigates(t) PROVE StoreInv'
  <2> DEFINE r == [k \in Workers |-> IF worker[k].tab = t THEN Stopped(worker[k]) ELSE worker[k]]
  <2>1. \A k \in Workers : r[k] = IF worker[k].tab = t THEN Stopped(worker[k]) ELSE worker[k]
    OBVIOUS
  <2>2. r \in [Workers -> WorkerRecord]
    BY <1>0, StoppedTyped
  <2>3. worker' = r /\ UNCHANGED <<disk, ranAt>>
    BY <1>5 DEF Navigates
  <2>4. memo' \in [Tab -> {0} \cup Workers]
    BY <1>1, <1>5 DEF Navigates
  <2>5. pool' \in Pools
    <3>1. pool.by \in {0} \cup Workers
      BY <1>1 DEF Pools
    <3>2. CASE UNCHANGED pool
      BY <1>1, <3>2
    <3>3. CASE pool.by \in Workers /\ Released(pool.by)
      BY <3>3, ReleasedTyped
    <3> QED BY <1>5, <3>1, <3>2, <3>3 DEF Navigates
  <2> HIDE DEF r
  <2>6. \A k \in Workers : Numbered(r[k]) /\ Guarded(r[k]) /\ (r[k].usable => worker[k].usable)
    BY <1>0, <2>1, StoppedTyped
  <2> QED BY <2>2, <2>3, <2>4, <2>5, <2>6, ManyWorkersMove
<1>6. CASE Tick
  <2> DEFINE r == [k \in Workers |-> [worker[k] EXCEPT !.wait = IF @ = 0 THEN 0 ELSE @ - 1]]
  <2>1. ASSUME NEW k \in Workers
        PROVE  r[k] \in WorkerRecord /\ Numbered(r[k]) /\ Guarded(r[k]) /\ r[k].usable = worker[k].usable
    <3>1. (IF worker[k].wait = 0 THEN 0 ELSE worker[k].wait - 1) \in Nat
      BY <1>0 DEF WorkerRecord
    <3>2. r[k] \in WorkerRecord
      BY <1>0, <3>1, ZenonT(40) DEF WorkerRecord
    <3>3. /\ r[k].usable = worker[k].usable /\ r[k].open = worker[k].open
          /\ r[k].pending = worker[k].pending /\ r[k].waiters = worker[k].waiters
          /\ r[k].next = worker[k].next /\ r[k].inbox = worker[k].inbox
          /\ r[k].guarded = worker[k].guarded
      BY <1>0 DEF WorkerRecord
    <3> HIDE DEF r
    <3> QED BY <1>0, <3>2, <3>3 DEF Numbered, Guarded
  <2>2. worker' = r /\ UNCHANGED <<memo, disk, ranAt>>
    BY <1>6 DEF Tick
  <2>3. r \in [Workers -> WorkerRecord]
    BY <2>1
  <2>4. pool' \in Pools
    <3>1. CASE pool' = pool
      BY <1>1, <3>1
    <3>2. CASE pool' = [by |-> 0, release |-> 0]
      BY <3>2 DEF Pools
    <3>3. CASE pool.release # 0 /\ pool' = [pool EXCEPT !.release = @ - 1]
      BY <1>1, <3>3 DEF Pools
    <3> QED BY <1>6, <3>1, <3>2, <3>3 DEF Tick
  <2> HIDE DEF r
  <2> QED BY <1>1, <2>1, <2>2, <2>3, <2>4, ManyWorkersMove
<1>7. CASE UNCHANGED bootVars
  BY <1>7 DEF bootVars, StoreInv, StoreTypes, UpToDate, RequestsSeeTheSchema
<1> QED BY <1>2, <1>3, <1>4, <1>5, <1>6, <1>7, WorkerStepKeeps DEF BootNext

\* so it always holds.
LEMMA StoreInvHolds == BootSpec => []StoreInv
<1>1. BootInit => StoreInv
  BY StoreInvInit
<1>2. StoreInv /\ [BootNext]_bootVars => StoreInv'
  BY StoreStep
<1> QED BY <1>1, <1>2, PTL DEF BootSpec

\* The types of the boot: the pool is somebody's, a worker counts as far as its attempts
\* go, and the requests it holds were posted.
THEOREM BootTypeCorrect == BootSpec => []BootTypeOK
<1>1. StoreInv => BootTypeOK
  BY DEF StoreInv, StoreTypes, Pools, BootTypeOK, Numbered
<1> QED BY <1>1, StoreInvHolds, PTL

\* worker.ts:63-68, schema.ts:163-200: no request runs before the triggers are on and the
\* schema is at its version, whoever dies or migrates in between.
THEOREM SchemaIsThere == BootSpec => []RequestsSeeTheSchema
BY StoreInvHolds, PTL DEF StoreInv

\* Nobody waits for anything at first.
LEMMA PastInit == ASSUME BootInit, NEW D, NEW S PROVE PastInv(D, S)
<1>1. \A k \in Workers : worker[k] = Unborn
  BY DEF BootInit
<1>2. /\ Unborn.usable = FALSE /\ Unborn.open = "none" /\ Unborn.inbox = <<>> /\ Unborn.live = FALSE
      /\ Unborn.lostTo.releasing = FALSE
  BY DEF Unborn, NotLost
<1>3. pool.release <= ReleaseTime
  BY StoreBootAssumption DEF BootInit
<1> QED BY <1>1, <1>2, <1>3 DEF PastInv, PastOf, FirstOpen, Opening

\* Whoever does not move is disturbed only by what happens to the memo of
\* its page and to the handles of its tab.
LEMMA OthersPast ==
    ASSUME NEW D, NEW S, NEW j \in Workers, PastOf(j, D, S), worker'[j] = worker[j],
           Opening(worker[j]) /\ worker[j].tab \in Tab /\ memo[worker[j].tab] = j =>
             /\ memo'[worker[j].tab] = j
             /\ pool'.release # 0 /\ worker'[pool'.by].tab = worker[j].tab =>
                  /\ pool'.release = pool.release
                  /\ worker[pool.by].tab = worker[j].tab
    PROVE  PastOf(j, D, S)'
BY DEF PastOf

\* One worker moves and keeps its tab, the handles stay where they are or
\* are nobody's being released, and no page but its own forgets its worker.
LEMMA OneWorkerPast ==
    ASSUME StoreInv, NEW D, NEW S, PastInv(D, S), NEW k \in Workers, NEW r \in WorkerRecord,
           worker' = [worker EXCEPT ![k] = r], r.tab = worker[k].tab,
           pool' = pool \/ (pool.release = 0 /\ pool'.release = 0),
           \A t \in Tab : memo[t] # k => memo'[t] = memo[t],
           PastOf(k, D, S)'
    PROVE  PastInv(D, S)'
<1>1. \A j \in Workers : worker'[j] = IF j = k THEN r ELSE worker[j]
  BY DEF StoreInv, StoreTypes
<1>2. pool.release # 0 => pool.by \in Workers
  BY DEF StoreInv, StoreTypes, Pools
<1>3. ASSUME NEW j \in Workers, j # k PROVE PastOf(j, D, S)'
  <2>1. worker'[j] = worker[j] /\ PastOf(j, D, S)
    BY <1>1, <1>3 DEF PastInv
  <2>2. pool.release # 0 => worker'[pool.by].tab = worker[pool.by].tab
    BY <1>1, <1>2
  <2> QED BY <1>3, <2>1, <2>2, OthersPast
<1>4. pool'.release <= ReleaseTime
  BY StoreBootAssumption DEF PastInv
<1> QED BY <1>3, <1>4 DEF PastInv

\* A worker that answers has no open left to answer.
LEMMA SettlesPast ==
    ASSUME StoreInv, NEW D, NEW S, PastInv(D, S), NEW k \in Workers, NEW w \in WorkerRecord,
           NEW ok \in BOOLEAN, Settles(k, w, ok), w.tab = worker[k].tab, w.tab \in Tab \cup {NoTab},
           w.open # "trying", w.inbox = <<>> \/ w.usable, w.live,
           ~(w.lostTo.releasing /\ w.lostTo.tab = w.tab),
           pool' = pool \/ (pool.release = 0 /\ pool'.release = 0)
    PROVE  PastInv(D, S)'
<1> DEFINE r == [w EXCEPT !.waiters = {}, !.usable = @ \/ ok, !.pending = @ \ w.waiters]
<1>1. r \in WorkerRecord
  BY DEF WorkerRecord
<1>2. /\ r.tab = w.tab /\ r.open = w.open /\ r.inbox = w.inbox /\ r.live = w.live /\ r.lostTo = w.lostTo
      /\ r.usable = (w.usable \/ ok)
  BY DEF WorkerRecord
<1>3. worker' = [worker EXCEPT ![k] = r]
  BY DEF Settles
<1> HIDE DEF r
<1>4. worker'[k] = r
  BY <1>3 DEF StoreInv, StoreTypes
<1>5. w.usable => r.usable
  BY <1>2
<1>6. PastOf(k, D, S)'
  <2>1. FirstOpen(r)
    BY <1>2, <1>5 DEF FirstOpen
  <2>2. ~Opening(r)
    BY <1>2, <1>5 DEF Opening
  <2>3. r.open # "trying" /\ ~(r.lostTo.releasing /\ r.lostTo.tab = r.tab)
    BY <1>2
  <2> QED BY <1>4, <2>1, <2>2, <2>3 DEF PastOf
<1>7. \A t \in Tab : memo[t] # k => memo'[t] = memo[t]
  BY DEF Settles, StoreInv, StoreTypes
<1> QED BY <1>1, <1>2, <1>3, <1>6, <1>7, OneWorkerPast

\* A worker keeps it: whoever backs off has waited longer when the next attempt comes,
\* and the last one comes after the handles are free.
LEMMA WorkerStepPast ==
    ASSUME StoreInv, NEW D, NEW S, Backoffs(D, S), ReleaseTime <= S[MaxAttempts],
           PastInv(D, S), NEW k \in Workers, WorkerStep(k)
    PROVE  PastInv(D, S)'
<1>1. worker[k] \in WorkerRecord /\ Guarded(worker[k]) /\ PastOf(k, D, S)
  BY DEF StoreInv, StoreTypes, PastInv
<1>2. FirstOpen(worker[k])
  BY <1>1 DEF PastOf
<1>3. ~(worker[k].lostTo.releasing /\ worker[k].lostTo.tab = worker[k].tab)
  BY <1>1 DEF PastOf
<1>4. worker[k].tab \in Tab \cup {NoTab}
  BY <1>1 DEF WorkerRecord
<1>5. worker[k].open = "trying" => ~worker[k].usable /\ worker[k].inbox = <<>>
  BY <1>1, <1>2 DEF Guarded, FirstOpen
<1>6. ~worker[k].usable /\ worker[k].open # "none" => worker[k].inbox = <<>>
  BY <1>2 DEF FirstOpen
<1>7. pool \in [by: {0} \cup Workers, release: Nat]
  BY DEF StoreInv, StoreTypes, Pools
<1>10. CASE Receives(k)
  <2> DEFINE w == [worker[k] EXCEPT !.inbox = Tail(@)]
             q == Head(worker[k].inbox)
  <2>1. worker[k].inbox \in Seq(Request) /\ worker[k].inbox # <<>> /\ worker[k].live
    BY <1>1, <1>10 DEF Receives, WorkerRecord
  <2>2. /\ q = worker[k].inbox[1] /\ 1 \in DOMAIN worker[k].inbox /\ q \in Request
        /\ Tail(worker[k].inbox) \in Seq(Request)
    BY <2>1
  <2>3. ~worker[k].usable => q.kind = "open"
    BY <1>1, <2>2 DEF Guarded
  <2>4. ~worker[k].usable => worker[k].open = "none" /\ Tail(worker[k].inbox) = <<>>
    <3>1. ~worker[k].usable => worker[k].open = "none" /\ Len(worker[k].inbox) = 1
      BY <1>2, <2>1 DEF FirstOpen
    <3>2. ASSUME Len(worker[k].inbox) = 1 PROVE Tail(worker[k].inbox) = <<>>
      <4>1. Len(Tail(worker[k].inbox)) = 0
        BY <2>1, <3>2
      <4> QED BY <2>2, <4>1, NothingIn
    <3> QED BY <3>1, <3>2
  <2>5. /\ w \in WorkerRecord /\ w.inbox = Tail(worker[k].inbox) /\ w.usable = worker[k].usable
        /\ w.open = worker[k].open /\ w.live = worker[k].live /\ w.tab = worker[k].tab
        /\ w.lostTo = worker[k].lostTo /\ w.waiters = worker[k].waiters /\ w.wait = worker[k].wait
        /\ w.pending = worker[k].pending
    BY <1>1, <2>2 DEF WorkerRecord
  <2>6. UNCHANGED <<memo, pool>>
    BY <1>10 DEF Receives
  <2> HIDE DEF w, q
  <2>7. ASSUME NEW r \in WorkerRecord, worker' = [worker EXCEPT ![k] = r],
               r.inbox = w.inbox, r.usable = w.usable, r.live = w.live, r.tab = w.tab,
               r.lostTo = w.lostTo, r.wait = w.wait,
               IF w.open = "none" /\ q.kind = "open"
               THEN r.open = "trying" /\ r.attempt = 1 /\ r.delay = InitialDelay
               ELSE r.open = w.open
        PROVE  PastInv(D, S)'
    <3>1. worker'[k] = r
      BY <2>7 DEF StoreInv, StoreTypes
    <3>2. FirstOpen(r)
      BY <2>1, <2>4, <2>5, <2>7 DEF FirstOpen
    <3>3. Opening(r) => Opening(worker[k])
      BY <2>1, <2>4, <2>5, <2>7 DEF Opening
    <3>4. r.open = "trying" => w.open = "none" /\ q.kind = "open"
      BY <1>5, <2>1, <2>5, <2>7
    <3>5. Opening(worker[k]) => worker[k].tab \in Tab /\ memo[worker[k].tab] = k
      BY <1>1 DEF PastOf
    <3>6. 1 \in 1..MaxAttempts /\ D[1] = InitialDelay /\ S[1] = 0
      BY StoreBootAssumption DEF Backoffs
    <3>7. r.open = "trying" => r.attempt \in 1..MaxAttempts /\ r.delay = D[r.attempt] /\ S[r.attempt] = 0
      BY <2>7, <3>4, <3>6
    <3>8. pool.release + 0 <= ReleaseTime + r.wait
      <4>1. r.wait \in Nat /\ pool.release \in Nat
        BY <1>7 DEF WorkerRecord
      <4> QED BY <4>1, StoreBootAssumption DEF PastInv
    <3>9. PastOf(k, D, S)'
      BY <1>3, <2>5, <2>6, <2>7, <3>1, <3>2, <3>3, <3>5, <3>7, <3>8 DEF PastOf
    <3> QED BY <2>5, <2>6, <2>7, <3>9, OneWorkerPast
  <2>8. CASE q.kind = "open"
    <3> DEFINE r == [w EXCEPT !.waiters = @ \cup {q.id},
                              !.open = IF @ = "none" THEN "trying" ELSE @,
                              !.attempt = IF w.open = "none" THEN 1 ELSE @,
                              !.delay = IF w.open = "none" THEN InitialDelay ELSE @]
    <3>1. r \in WorkerRecord
      BY <2>2, <2>5, StoreBootAssumption, ZenonT(40) DEF WorkerRecord, Request
    <3>2. /\ r.inbox = w.inbox /\ r.usable = w.usable /\ r.live = w.live /\ r.tab = w.tab
          /\ r.lostTo = w.lostTo /\ r.wait = w.wait
          /\ r.open = (IF w.open = "none" THEN "trying" ELSE w.open)
          /\ r.attempt = (IF w.open = "none" THEN 1 ELSE w.attempt)
          /\ r.delay = (IF w.open = "none" THEN InitialDelay ELSE w.delay)
      BY <2>5 DEF WorkerRecord
    <3>3. worker' = [worker EXCEPT ![k] = r]
      BY <1>10, <2>8 DEF Receives, q, w
    <3> HIDE DEF r
    <3> QED BY <2>7, <2>8, <3>1, <3>2, <3>3
  <2>9. CASE q.kind # "open"
    <3> DEFINE r == [w EXCEPT !.pending = @ \ {q.id}]
    <3>1. r \in WorkerRecord
      BY <2>5 DEF WorkerRecord
    <3>2. /\ r.inbox = w.inbox /\ r.usable = w.usable /\ r.live = w.live /\ r.tab = w.tab
          /\ r.lostTo = w.lostTo /\ r.wait = w.wait /\ r.open = w.open
      BY <2>5 DEF WorkerRecord
    <3>3. worker' = [worker EXCEPT ![k] = r]
      BY <1>10, <2>9 DEF Receives, q, w
    <3> HIDE DEF r
    <3> QED BY <2>7, <2>9, <3>1, <3>2, <3>3
  <2> QED BY <2>8, <2>9
<1>11. ASSUME NEW r \in WorkerRecord, worker' = [worker EXCEPT ![k] = r],
              r.usable = worker[k].usable, r.inbox = worker[k].inbox, r.live = worker[k].live,
              r.tab = worker[k].tab, r.lostTo = worker[k].lostTo, worker[k].live,
              r.open = "held", worker[k].open # "none", UNCHANGED memo,
              pool' = pool \/ (pool.release = 0 /\ pool'.release = 0)
       PROVE  PastInv(D, S)'
  <2>1. worker'[k] = r
    BY <1>11 DEF StoreInv, StoreTypes
  <2>2. FirstOpen(r) /\ ~Opening(r)
    BY <1>6, <1>11 DEF FirstOpen, Opening
  <2>3. PastOf(k, D, S)'
    BY <1>3, <1>11, <2>1, <2>2 DEF PastOf
  <2> QED BY <1>11, <2>3, OneWorkerPast
<1>12. CASE Acquires(k)
  <2> DEFINE r == [worker[k] EXCEPT !.open = "held", !.database = TRUE]
  <2>1. /\ r \in WorkerRecord /\ r.usable = worker[k].usable /\ r.open = "held"
        /\ r.inbox = worker[k].inbox /\ r.live = worker[k].live /\ r.tab = worker[k].tab
        /\ r.lostTo = worker[k].lostTo
    BY <1>1 DEF WorkerRecord
  <2>2. worker' = [worker EXCEPT ![k] = r]
    BY <1>12 DEF Acquires, StoreInv, StoreTypes
  <2>3. pool.release = 0 /\ pool'.release = 0 /\ UNCHANGED memo /\ worker[k].live /\ worker[k].open = "trying"
    BY <1>7, <1>12 DEF Acquires, Contended, Trying
  <2> HIDE DEF r
  <2> QED BY <1>11, <2>1, <2>2, <2>3
<1>13. CASE FailsToOpen(k)
  <2> DEFINE w == [worker[k] EXCEPT !.open = "none"]
  <2>1. worker[k].open = "trying" /\ worker[k].live /\ Settles(k, w, FALSE)
    BY <1>13 DEF FailsToOpen, Trying
  <2>2. /\ w \in WorkerRecord /\ w.usable = worker[k].usable /\ w.open = "none" /\ w.live = worker[k].live
        /\ w.lostTo = worker[k].lostTo /\ w.inbox = worker[k].inbox /\ w.tab = worker[k].tab
    BY <1>1 DEF WorkerRecord
  <2>3. pool.release = 0 /\ pool'.release = 0
    BY <1>7, <1>13 DEF FailsToOpen, Contended
  <2> HIDE DEF w
  <2> QED BY <1>3, <1>4, <1>5, <2>1, <2>2, <2>3, SettlesPast
<1>14. CASE BacksOff(k)
  <2> DEFINE a == worker[k].attempt
             r == [worker[k] EXCEPT !.attempt = @ + 1, !.wait = worker[k].delay, !.delay = NextDelay(@)]
  <2>1. worker[k].delay \in Nat /\ NextDelay(worker[k].delay) \in Nat /\ a \in Nat
    BY <1>1, StoreBootAssumption, SMTT(20) DEF WorkerRecord, NextDelay
  <2>2. /\ r \in WorkerRecord /\ r.usable = worker[k].usable /\ r.open = worker[k].open
        /\ r.inbox = worker[k].inbox /\ r.live = worker[k].live /\ r.tab = worker[k].tab
        /\ r.lostTo = worker[k].lostTo /\ r.attempt = a + 1 /\ r.wait = worker[k].delay
        /\ r.delay = NextDelay(worker[k].delay)
    <3>1. r \in WorkerRecord
      <4>1. a + 1 \in Nat
        BY <2>1
      <4> QED BY <1>1, <2>1, <4>1 DEF WorkerRecord
    <3>2. /\ r.attempt = a + 1 /\ r.wait = worker[k].delay /\ r.delay = NextDelay(worker[k].delay)
      BY <1>1 DEF WorkerRecord
    <3>3. /\ r.usable = worker[k].usable /\ r.open = worker[k].open
          /\ r.inbox = worker[k].inbox /\ r.live = worker[k].live /\ r.tab = worker[k].tab
          /\ r.lostTo = worker[k].lostTo
      BY <1>1 DEF WorkerRecord
    <3> QED BY <3>1, <3>2, <3>3
  <2>3. /\ worker' = [worker EXCEPT ![k] = r] /\ UNCHANGED <<memo, pool>>
        /\ worker[k].live /\ worker[k].open = "trying" /\ worker[k].wait = 0 /\ a < MaxAttempts
    BY <1>14 DEF BacksOff, Trying, StoreInv, StoreTypes
  <2> HIDE DEF r
  <2>4. worker'[k] = r
    BY <2>3 DEF StoreInv, StoreTypes
  <2>5. a \in 1..MaxAttempts /\ worker[k].delay = D[a] /\ a \in 1..(MaxAttempts - 1)
    BY <1>1, <2>1, <2>3, StoreBootAssumption DEF PastOf
  <2>6. /\ D[a + 1] = NextDelay(D[a]) /\ S[a + 1] = S[a] + D[a] /\ a + 1 \in 1..MaxAttempts
        /\ S[a] \in Nat /\ D[a] \in Nat
    <3>1. D[a + 1] = NextDelay(D[a]) /\ S[a + 1] = S[a] + D[a]
      BY <2>5 DEF Backoffs
    <3>2. a + 1 \in 1..MaxAttempts
      BY <2>5, StoreBootAssumption
    <3>3. S[a] \in Nat /\ D[a] \in Nat
      BY <2>5 DEF Backoffs
    <3> QED BY <3>1, <3>2, <3>3
  <2>7. FirstOpen(r) /\ (Opening(r) <=> Opening(worker[k]))
    BY <1>2, <2>2 DEF FirstOpen, Opening
  <2>8. Opening(worker[k])
    BY <1>5, <2>3 DEF Opening
  <2>9. worker[k].tab \in Tab /\ memo[worker[k].tab] = k
    BY <1>1, <2>8 DEF PastOf
  <2>10. pool.release # 0 => pool.by \in Workers
    BY DEF StoreInv, StoreTypes, Pools
  <2>11. pool.release # 0 => worker'[pool.by].tab = worker[pool.by].tab
    BY <2>2, <2>3, <2>10 DEF StoreInv, StoreTypes
  <2>12. pool.release # 0 /\ worker[pool.by].tab = worker[k].tab =>
           pool.release + S[a] <= ReleaseTime
    <3>1. pool.release # 0 /\ worker[pool.by].tab = worker[k].tab =>
             pool.release + S[a] <= ReleaseTime + 0
      BY <1>1, <2>3, <2>8 DEF PastOf
    <3> QED BY <3>1, StoreBootAssumption
  <2>13. pool.release # 0 /\ worker'[pool.by].tab = r.tab =>
           pool.release + S[r.attempt] <= ReleaseTime + r.wait
    BY <1>7, <2>2, <2>5, <2>6, <2>11, <2>12, StoreBootAssumption
  <2>14. r.attempt \in 1..MaxAttempts /\ r.delay = D[r.attempt]
    BY <2>2, <2>5, <2>6
  <2>15. PastOf(k, D, S)'
    BY <1>3, <2>2, <2>3, <2>4, <2>7, <2>9, <2>13, <2>14 DEF PastOf
  <2> QED BY <2>2, <2>3, <2>15, OneWorkerPast
<1>15. CASE GivesUp(k)
  <2> DEFINE to == [tab |-> worker[pool.by].tab, releasing |-> pool.release # 0]
             w == [worker[k] EXCEPT !.open = "none", !.lostTo = to]
             a == worker[k].attempt
  <2>1. worker[k].open = "trying" /\ worker[k].live /\ worker[k].wait = 0 /\ a >= MaxAttempts
        /\ Settles(k, w, FALSE) /\ UNCHANGED pool
    BY <1>15 DEF GivesUp, Trying
  <2>2. pool.by \in Workers
    BY <1>7, <1>15 DEF GivesUp, Contended, StoreInv, StoreTypes, Pools
  <2>3. to \in [tab: Tab \cup {NoTab}, releasing: BOOLEAN]
    BY <2>2 DEF StoreInv, StoreTypes, WorkerRecord
  <2>4. to.releasing => pool.release # 0 /\ to.tab = worker[pool.by].tab
    OBVIOUS
  <2> HIDE DEF to
  <2>5. /\ w \in WorkerRecord /\ w.usable = worker[k].usable /\ w.open = "none" /\ w.live = worker[k].live
        /\ w.lostTo = to /\ w.inbox = worker[k].inbox /\ w.tab = worker[k].tab
    BY <1>1, <2>3 DEF WorkerRecord
  <2>6. a = MaxAttempts
    <3>1. a \in 1..MaxAttempts
      BY <1>1, <2>1 DEF PastOf
    <3> QED BY <2>1, <3>1, StoreBootAssumption
  <2>7. Opening(worker[k])
    BY <1>5, <2>1 DEF Opening
  <2>8. pool.release # 0 => worker[pool.by].tab # worker[k].tab
    <3>1. pool.release # 0 /\ worker[pool.by].tab = worker[k].tab =>
            pool.release + S[MaxAttempts] <= ReleaseTime + 0
      BY <1>1, <2>1, <2>6, <2>7 DEF PastOf
    <3>2. S[MaxAttempts] \in Nat /\ pool.release \in Nat
      BY <1>7, StoreBootAssumption DEF Backoffs
    <3> QED BY <3>1, <3>2, StoreBootAssumption
  <2>9. ~(w.lostTo.releasing /\ w.lostTo.tab = w.tab)
    BY <2>4, <2>5, <2>8
  <2> HIDE DEF w
  <2> QED BY <1>4, <1>5, <2>1, <2>5, <2>9, SettlesPast
<1>16. CASE Guards(k)
  <2> DEFINE r == [worker[k] EXCEPT !.guarded = TRUE]
  <2>1. /\ r \in WorkerRecord /\ r.usable = worker[k].usable /\ r.open = worker[k].open
        /\ r.inbox = worker[k].inbox /\ r.live = worker[k].live /\ r.tab = worker[k].tab
        /\ r.lostTo = worker[k].lostTo
    BY <1>1 DEF WorkerRecord
  <2>2. worker' = [worker EXCEPT ![k] = r]
    BY <1>16 DEF Guards, StoreInv, StoreTypes
  <2>3. pool' = pool /\ UNCHANGED memo /\ worker[k].live /\ worker[k].open = "held"
    BY <1>16 DEF Guards, Migrating
  <2> HIDE DEF r
  <2> QED BY <1>11, <2>1, <2>2, <2>3
<1>17. CASE MigratesOne(k)
  BY <1>17 DEF MigratesOne, PastInv, PastOf
<1>18. ASSUME NEW ok \in BOOLEAN, Settles(k, worker[k], ok), Migrating(k), UNCHANGED pool
       PROVE  PastInv(D, S)'
  <2>1. worker[k].open = "held" /\ worker[k].live
    BY <1>18 DEF Migrating
  <2> QED BY <1>1, <1>3, <1>4, <1>6, <1>18, <2>1, SettlesPast
<1>19. CASE Opens(k) \/ MigrationFails(k)
  BY <1>18, <1>19 DEF Opens, MigrationFails
<1> QED BY <1>10, <1>12, <1>13, <1>14, <1>15, <1>16, <1>17, <1>19 DEF WorkerStep

\* Every step keeps it, the pages' own among them.
LEMMA PastStep ==
    ASSUME StoreInv, StoreInv', NEW D, NEW S, Backoffs(D, S), ReleaseTime <= S[MaxAttempts],
           PastInv(D, S), [BootNext]_bootVars
    PROVE  PastInv(D, S)'
<1>0. \A k \in Workers : /\ worker[k] \in WorkerRecord /\ Guarded(worker[k]) /\ PastOf(k, D, S)
                         /\ FirstOpen(worker[k])
                         /\ ~(worker[k].lostTo.releasing /\ worker[k].lostTo.tab = worker[k].tab)
  BY DEF StoreInv, StoreTypes, PastInv, PastOf
<1>1. /\ memo \in [Tab -> {0} \cup Workers] /\ pool \in [by: {0} \cup Workers, release: Nat]
      /\ pool.release # 0 => pool.by \in Workers
      /\ pool.release <= ReleaseTime /\ ReleaseTime \in Nat
  BY StoreBootAssumption DEF StoreInv, StoreTypes, Pools, PastInv
<1>20. 0 \notin Workers
  BY StoreBootAssumption DEF Workers
<1>2. ASSUME NEW t \in Tab, NEW k \in Workers, Spawns(t, k) PROVE PastInv(D, S)'
  <2> DEFINE u == [Unborn EXCEPT !.tab = t, !.live = TRUE]
             r == Posted(u, "open")
  <2>1. worker' = [worker EXCEPT ![k] = r] /\ UNCHANGED pool /\ memo[t] = 0 /\ memo' = [memo EXCEPT ![t] = k]
    BY <1>2 DEF Spawns
  <2>2. /\ u.usable = FALSE /\ u.inbox = <<>> /\ u.live = TRUE /\ u.tab = t /\ u.open = "none"
        /\ u.lostTo = NotLost
    BY DEF Unborn
  <2>3. /\ r.usable = FALSE /\ Len(r.inbox) = 1 /\ r.live = TRUE /\ r.tab = t /\ r.open = "none"
        /\ r.lostTo = NotLost
    <3>1. [Unborn EXCEPT !.tab = t] \in WorkerRecord
      BY UnbornTyped DEF WorkerRecord
    <3>2. u \in WorkerRecord
      BY <3>1 DEF WorkerRecord
    <3> HIDE DEF u
    <3>3. u.next + 1 \in Nat /\ u.pending \cup {u.next + 1} \in SUBSET Nat
      BY <3>2 DEF WorkerRecord
    <3>4. r.inbox = Append(u.inbox, [id |-> u.next + 1, kind |-> "open"])
      BY <3>2 DEF Posted, WorkerRecord
    <3>5. Len(r.inbox) = 1
      BY <2>2, <3>4, OneIn
    <3> QED BY <2>2, <3>2, <3>5 DEF Posted, WorkerRecord
  <2> HIDE DEF u, r
  <2>4. worker'[k] = r /\ \A j \in Workers : j # k => worker'[j] = worker[j]
    BY <2>1 DEF StoreInv, StoreTypes
  <2>5. ~NotLost.releasing
    BY DEF NotLost
  <2>6. memo'[t] = k /\ \A t2 \in Tab : t2 # t => memo'[t2] = memo[t2]
    BY <1>1, <2>1
  <2>7. FirstOpen(r)
    BY <2>3 DEF FirstOpen
  <2>8. PastOf(k, D, S)'
    BY <2>3, <2>4, <2>5, <2>6, <2>7 DEF PastOf
  <2>9. ASSUME NEW j \in Workers, j # k PROVE PastOf(j, D, S)'
    <3>1. worker'[j] = worker[j]
      BY <2>4, <2>9
    <3>2. CASE Opening(worker[j]) /\ worker[j].tab \in Tab /\ memo[worker[j].tab] = j
      <4>1. worker[j].tab # t
        BY <1>20, <2>1, <2>9, <3>2
      <4>2. memo'[worker[j].tab] = j
        BY <2>6, <3>2, <4>1
      <4>3. pool.release # 0 /\ worker'[pool.by].tab = worker[j].tab => worker[pool.by].tab = worker[j].tab
        BY <1>1, <2>3, <2>4, <4>1
      <4> QED BY <1>0, <2>1, <3>1, <4>2, <4>3, OthersPast
    <3> QED BY <1>0, <3>1, <3>2, OthersPast
  <2> QED BY <1>1, <2>1, <2>8, <2>9 DEF PastInv
<1>3. ASSUME NEW k \in Workers, NEW kind \in {"open", "request"}, Posts(k, kind) PROVE PastInv(D, S)'
  <2> DEFINE r == Posted(worker[k], kind)
  <2>1. worker[k].usable /\ worker' = [worker EXCEPT ![k] = r] /\ UNCHANGED <<memo, pool>> /\ worker[k].live
    BY <1>3 DEF Posts
  <2>2. r \in WorkerRecord
    BY <1>0, <2>1, PostedTyped DEF StoreInv
  <2>3. /\ r.usable = worker[k].usable /\ r.tab = worker[k].tab /\ r.live = worker[k].live
        /\ r.open = worker[k].open /\ r.lostTo = worker[k].lostTo
    BY <1>0 DEF Posted, WorkerRecord
  <2> HIDE DEF r
  <2>4. worker'[k] = r
    BY <2>1 DEF StoreInv, StoreTypes
  <2>5. FirstOpen(r) /\ ~Opening(r)
    BY <2>1, <2>3 DEF FirstOpen, Opening
  <2>6. r.open = "held"
    BY <1>0, <2>1, <2>3 DEF Guarded
  <2>7. PastOf(k, D, S)'
    BY <1>0, <2>3, <2>4, <2>5, <2>6 DEF PastOf
  <2> QED BY <2>1, <2>2, <2>3, <2>7, OneWorkerPast
<1>4. ASSUME NEW k \in Workers
      PROVE  /\ Stopped(worker[k]) \in WorkerRecord
             /\ FirstOpen(Stopped(worker[k])) /\ ~Opening(Stopped(worker[k]))
             /\ Stopped(worker[k]).open = "none" /\ Stopped(worker[k]).tab = worker[k].tab
             /\ Stopped(worker[k]).lostTo = worker[k].lostTo
  <2> DEFINE r == Stopped(worker[k])
  <2>1. r \in WorkerRecord
    BY <1>0, StoppedTyped
  <2>2. /\ r.open = "none" /\ r.tab = worker[k].tab /\ r.lostTo = worker[k].lostTo
        /\ r.inbox = <<>> /\ r.usable = FALSE /\ r.live = FALSE
    BY DEF Stopped, Unborn
  <2> HIDE DEF r
  <2>3. FirstOpen(r) /\ ~Opening(r)
    BY <2>2 DEF FirstOpen, Opening
  <2> QED BY <2>1, <2>2, <2>3 DEF r
<1>5. ASSUME NEW k \in Workers, Released(k)
      PROVE  \/ UNCHANGED pool
             \/ pool'.by = k /\ pool'.release = ReleaseTime
  BY <1>1, <1>5 DEF Released
<1>6. ASSUME NEW k \in Workers, Terminates(k) PROVE PastInv(D, S)'
  <2> DEFINE r == Stopped(worker[k])
  <2>1. /\ worker' = [worker EXCEPT ![k] = r] /\ memo' = [memo EXCEPT ![worker[k].tab] = 0]
        /\ worker[k].live /\ memo[worker[k].tab] = k /\ Released(k)
    BY <1>6 DEF Terminates
  <2>2. worker'[k] = r /\ \A j \in Workers : j # k => worker'[j] = worker[j]
    BY <2>1 DEF StoreInv, StoreTypes
  <2>3. \A j \in Workers : worker'[j].tab = worker[j].tab
    BY <1>4, <2>2
  <2>4. PastOf(k, D, S)'
    BY <1>0, <1>4, <2>2 DEF PastOf
  <2>5. ASSUME NEW j \in Workers, j # k PROVE PastOf(j, D, S)'
    <3>1. worker'[j] = worker[j]
      BY <2>2, <2>5
    <3>2. CASE Opening(worker[j]) /\ worker[j].tab \in Tab /\ memo[worker[j].tab] = j
      <4>1. worker[j].tab # worker[k].tab
        BY <2>1, <2>5, <3>2
      <4>2. memo'[worker[j].tab] = j
        BY <1>1, <2>1, <3>2, <4>1
      <4>3. pool'.release # 0 /\ worker'[pool'.by].tab = worker[j].tab =>
               pool'.release = pool.release /\ worker[pool.by].tab = worker[j].tab
        BY <1>1, <1>5, <2>1, <2>3, <4>1
      <4> QED BY <1>0, <3>1, <4>2, <4>3, OthersPast
    <3> QED BY <1>0, <3>1, <3>2, OthersPast
  <2>6. pool'.release <= ReleaseTime
    BY <1>1, <1>5, <2>1
  <2> QED BY <2>4, <2>5, <2>6 DEF PastInv
<1>7. ASSUME NEW t \in Tab, Navigates(t) PROVE PastInv(D, S)'
  <2>1. \A k \in Workers : worker'[k] = IF worker[k].tab = t THEN Stopped(worker[k]) ELSE worker[k]
    BY <1>7 DEF Navigates
  <2>2. \A k \in Workers : worker'[k].tab = worker[k].tab
    BY <1>4, <2>1
  <2>3. \/ UNCHANGED pool
        \/ pool'.release = ReleaseTime /\ pool'.by \in Workers /\ worker[pool'.by].tab = t
    <3>1. CASE UNCHANGED pool
      BY <3>1
    <3>2. CASE pool.by # 0 /\ worker[pool.by].tab = t /\ Released(pool.by)
      <4>1. pool.by \in Workers
        BY <1>1, <3>2
      <4> QED BY <1>5, <3>2, <4>1
    <3> QED BY <1>7, <3>1, <3>2 DEF Navigates
  <2>4. memo' = [memo EXCEPT ![t] = 0]
    BY <1>7 DEF Navigates
  <2>5. ASSUME NEW j \in Workers, worker[j].tab = t PROVE PastOf(j, D, S)'
    BY <1>0, <1>4, <2>1, <2>5 DEF PastOf
  <2>6. ASSUME NEW j \in Workers, worker[j].tab # t PROVE PastOf(j, D, S)'
    <3>1. worker'[j] = worker[j]
      BY <2>1, <2>6
    <3>2. CASE Opening(worker[j]) /\ worker[j].tab \in Tab /\ memo[worker[j].tab] = j
      <4>1. memo'[worker[j].tab] = j
        BY <1>1, <2>4, <2>6, <3>2
      <4>2. pool'.release # 0 /\ worker'[pool'.by].tab = worker[j].tab =>
               pool'.release = pool.release /\ worker[pool.by].tab = worker[j].tab
        BY <1>1, <2>2, <2>3, <2>6
      <4> QED BY <1>0, <3>1, <4>1, <4>2, OthersPast
    <3> QED BY <1>0, <3>1, <3>2, OthersPast
  <2>7. pool'.release <= ReleaseTime
    BY <1>1, <2>3
  <2> QED BY <2>5, <2>6, <2>7 DEF PastInv
<1>8. CASE Tick
  <2> DEFINE r == [k \in Workers |-> [worker[k] EXCEPT !.wait = IF @ = 0 THEN 0 ELSE @ - 1]]
  <2>1. ASSUME NEW k \in Workers
        PROVE  /\ r[k].usable = worker[k].usable /\ r[k].open = worker[k].open
               /\ r[k].inbox = worker[k].inbox /\ r[k].live = worker[k].live
               /\ r[k].tab = worker[k].tab /\ r[k].lostTo = worker[k].lostTo
               /\ r[k].attempt = worker[k].attempt /\ r[k].delay = worker[k].delay
               /\ r[k].wait = IF worker[k].wait = 0 THEN 0 ELSE worker[k].wait - 1
    BY <1>0 DEF WorkerRecord
  <2>2. worker' = r /\ UNCHANGED memo
    BY <1>8 DEF Tick
  <2> HIDE DEF r
  <2>3. \/ pool.release = 0 /\ pool' = pool
        \/ pool'.release = 0
        \/ pool.release # 0 /\ pool'.release = pool.release - 1 /\ pool'.by = pool.by
    <3>1. CASE pool.release = 0 /\ pool' = pool
      BY <3>1
    <3>2. CASE pool' = [by |-> 0, release |-> 0]
      BY <3>2
    <3>3. CASE pool.release # 0 /\ pool' = [pool EXCEPT !.release = @ - 1]
      BY <1>1, <3>3
    <3> QED BY <1>8, <3>1, <3>2, <3>3 DEF Tick
  <2>4. ASSUME NEW k \in Workers PROVE PastOf(k, D, S)'
    <3>1. FirstOpen(r[k]) /\ (Opening(r[k]) <=> Opening(worker[k]))
      BY <1>0, <2>1 DEF FirstOpen, Opening
    <3>2. Opening(worker[k]) => worker[k].tab \in Tab /\ memo[worker[k].tab] = k
      BY <1>0 DEF PastOf
    <3>3. worker[k].open = "trying" =>
            worker[k].attempt \in 1..MaxAttempts /\ worker[k].delay = D[worker[k].attempt]
      BY <1>0 DEF PastOf
    <3>4. ASSUME Opening(worker[k]), worker[k].open = "trying", pool'.release # 0,
                 worker'[pool'.by].tab = worker'[k].tab
          PROVE  pool'.release + S[worker[k].attempt] <= ReleaseTime + worker'[k].wait
      <4>1. pool.release # 0 /\ pool'.release = pool.release - 1 /\ pool'.by = pool.by
        BY <2>3, <3>4
      <4>2. worker[pool.by].tab = worker[k].tab
        BY <1>1, <2>1, <2>2, <3>4, <4>1
      <4>3. pool.release + S[worker[k].attempt] <= ReleaseTime + worker[k].wait
        BY <1>0, <3>4, <4>1, <4>2 DEF PastOf
      <4>4. worker[k].wait # 0
        <5>1. worker[k].live
          BY <3>4 DEF Opening
        <5>2. ~Trying(k)
          BY <1>8, <5>1 DEF Tick
        <5> QED BY <3>4, <5>1, <5>2 DEF Trying
      <4>5. worker[k].wait \in Nat /\ S[worker[k].attempt] \in Nat /\ pool.release \in Nat
        BY <1>0, <1>1, <3>3, <3>4 DEF WorkerRecord, Backoffs
      <4>6. worker'[k].wait = worker[k].wait - 1
        BY <2>1, <2>2, <4>4
      <4> QED BY <1>1, <4>1, <4>3, <4>5, <4>6
    <3> QED BY <1>0, <2>1, <2>2, <3>1, <3>2, <3>3, <3>4 DEF PastOf
  <2>5. pool'.release <= ReleaseTime
    BY <1>1, <2>3
  <2> QED BY <2>4, <2>5 DEF PastInv
<1>9. CASE UNCHANGED bootVars
  BY <1>9 DEF bootVars, PastInv, PastOf
<1> QED BY <1>2, <1>3, <1>6, <1>7, <1>8, <1>9, WorkerStepPast DEF BootNext

\* acquire.ts:1-31: the attempts, together, last longer than a release. The delays of the
\* code are 50 ms, doubled up to 800 ms, over eight attempts: 3150 ms.
Outwaits ==
  \E D, S \in [1..MaxAttempts -> Nat] : Backoffs(D, S) /\ ReleaseTime <= S[MaxAttempts]

\* acquire.ts:45-76: a worker that reports the store busy was not kept out by the handles
\* of its own tab's former worker, if the attempts last longer than a release.
THEOREM OwnPastIsOutwaited == Outwaits => (BootSpec => []BusyIsNotOurPast)
<1> SUFFICES ASSUME NEW D, NEW S, Backoffs(D, S), ReleaseTime <= S[MaxAttempts]
             PROVE  BootSpec => []BusyIsNotOurPast
  BY DEF Outwaits
<1>1. BootInit => PastInv(D, S)
  BY PastInit
<1>2. StoreInv /\ StoreInv' /\ PastInv(D, S) /\ [BootNext]_bootVars => PastInv(D, S)'
  BY PastStep
<1>3. PastInv(D, S) => BusyIsNotOurPast
  BY DEF PastInv, PastOf, BusyIsNotOurPast
<1> QED BY <1>1, <1>2, <1>3, StoreInvHolds, PTL DEF BootSpec

-----------------------------------------------------------------------------
(* The settings page.                                                        *)

\* The records of the page, whole: thresholds, a form, what the store has, what the
\* engine serves, the page, and a persist.
Levels == [Catalog -> Threshold \cup {None}]
Forms == [sens: Threshold, over: Levels, name: Name \cup {Blank}, enabled: SUBSET Catalog]
Rows == [sens: Threshold, over: Levels, name: Name \cup {Blank},
         enabled: (SUBSET Catalog) \cup {{Unset}}]
Engines == [on: BOOLEAN, lists: SUBSET Catalog, perList: Levels]
Pages == [mount: Nat, edits: Nat, load: {"config", "rest", "none"}, config: Forms,
          loaded: BOOLEAN, failed: BOOLEAN, form: Forms, baseline: Forms, applying: BOOLEAN,
          error: BOOLEAN, banner: {"none", "rescanned", "applied", "unchanged"},
          cleared: BOOLEAN]
Steps == {"idle", "name", "lists", "reload", "rescan lists", "config", "overrides",
          "rescan config", "ends", "done"}
Persists == [at: Steps, mount: Nat, draft: Forms, changed: BOOLEAN, scanned: Nat]

\* Their types.
SettingsTypes ==
  /\ stored \in Rows /\ loaded \in Engines /\ book \in Levels
  /\ serial \in 0..MaxApplies /\ mounted \in Pages
  /\ applies \in [1..MaxApplies -> Persists]

\* Whoever reloads or re-screens over other lists has the queue, and nobody
\* else has it.
QueueIsHeld ==
  \A i \in 1..MaxApplies : applies[i].at \in {"reload", "rescan lists"} <=> serial = i

\* A set of lists that lacks no default list but one whose box was unticked.
Asked(lists) == DefaultLists \ lists \subseteq unticked
OffInv ==
  /\ Asked(Effective(stored))
  /\ mounted.loaded => Asked(mounted.form.enabled)
  /\ \A i \in 1..MaxApplies : applies[i].at # "idle" => Asked(applies[i].draft.enabled)

\* The inductive invariant.
SettingsInv == SettingsTypes /\ QueueIsHeld /\ OffInv

\* Nobody who has the queue is one of the persists.
LEMMA NobodyIsNobody == /\ None \in 0..MaxApplies
                        /\ \A j \in 1..MaxApplies : j # None
BY SettingsAssumption DEF None

\* An edit of a form is a form.
LEMMA EditedTyped == ASSUME NEW form \in Forms, NEW draft \in Edited(form) PROVE draft \in Forms
<1>1. CASE \E v \in Threshold : draft = [form EXCEPT !.sens = v]
  BY <1>1 DEF Forms
<1>2. CASE \E l \in Overridable \cap form.enabled, v \in Threshold \cup {None} :
             draft = [form EXCEPT !.over[l] = v]
  BY <1>2 DEF Forms, Levels
<1>3. CASE \E n \in Name \cup {Blank} : draft = [form EXCEPT !.name = n]
  BY <1>3 DEF Forms
<1>4. CASE \E s \in {form.enabled \cup {l} : l \in Catalog} \cup {form.enabled \ {l} : l \in Catalog} :
             draft = [form EXCEPT !.enabled = s]
  <2>1. PICK s \in {form.enabled \cup {l} : l \in Catalog} \cup {form.enabled \ {l} : l \in Catalog} :
             draft = [form EXCEPT !.enabled = s]
    BY <1>4
  <2>2. form.enabled \in SUBSET Catalog
    BY DEF Forms
  <2>3. s \in SUBSET Catalog
    BY <2>1, <2>2
  <2> QED BY <2>1, <2>3 DEF Forms
<1> DEFINE A == {[form EXCEPT !.sens = v] : v \in Threshold}
           B == {[form EXCEPT !.over[l] = v] :
                   l \in Overridable \cap form.enabled, v \in Threshold \cup {None}}
           C == {[form EXCEPT !.name = n] : n \in Name \cup {Blank}}
           D == {[form EXCEPT !.enabled = s] :
                   s \in {form.enabled \cup {l} : l \in Catalog} \cup {form.enabled \ {l} : l \in Catalog}}
<1>5. draft \in A => draft \in Forms
  BY <1>1
<1>6. draft \in B => draft \in Forms
  BY <1>2
<1>7. draft \in C => draft \in Forms
  BY <1>3
<1>8. draft \in D => draft \in Forms
  BY <1>4
<1>9. Edited(form) = A \cup B \cup C \cup D
  BY DEF Edited
<1> HIDE DEF A, B, C, D
<1> QED BY <1>5, <1>6, <1>7, <1>8, <1>9

\* What a page, an engine and a persist begin with.
LEMMA FreshTyped ==
    /\ Fresh \in Forms /\ Off \in Engines /\ Idle \in Persists
    /\ \A n \in Nat : Mounted(n) \in Pages
<1>1. [l \in Catalog |-> None] \in Levels
  BY DEF Levels
<1>2. Fresh \in Forms
  BY <1>1, SettingsAssumption DEF Fresh, Forms
<1>3. Off \in Engines
  BY <1>1 DEF Off, Engines
<1>4. Idle \in Persists
  BY <1>2 DEF Idle, Persists, Steps
<1>5. \A n \in Nat : Mounted(n) \in Pages
  BY <1>2 DEF Mounted, Pages
<1> QED BY <1>2, <1>3, <1>4, <1>5

\* workstation.ts:296-329: what the store's lists come to, and the form that shows them.
LEMMA EffectiveTyped ==
    ASSUME NEW st \in Rows
    PROVE  /\ Effective(st) \in SUBSET Catalog /\ Shown(st) \in Forms /\ Loaded(st) \in Engines
<1>1. Effective(st) \in SUBSET Catalog
  <2>1. st.enabled \in SUBSET Catalog \/ st.enabled = {Unset}
    BY DEF Rows
  <2> QED BY <2>1, SettingsAssumption DEF Effective
<1>2. /\ st.sens \in Threshold /\ st.over \in Levels /\ st.name \in Name \cup {Blank}
  BY DEF Rows
<1> QED BY <1>1, <1>2 DEF Shown, Loaded, Forms, Engines

\* The invariant holds at first.
LEMMA SettingsInit0 == ASSUME SettingsInit PROVE SettingsInv
<1>1. stored \in Rows
  <2>1. stored = [Fresh EXCEPT !.enabled = {Unset}] /\ Fresh \in Forms
    BY FreshTyped DEF SettingsInit
  <2>2. {Unset} \in (SUBSET Catalog) \cup {{Unset}}
    OBVIOUS
  <2> QED BY <2>1, <2>2 DEF Forms, Rows
<1>2. Effective(stored) = DefaultLists
  BY FreshTyped DEF SettingsInit, Effective, Forms
<1>3. loaded \in Engines
  <2>1. DefaultLists \in SUBSET Catalog
    BY SettingsAssumption
  <2>2. [Off EXCEPT !.on = TRUE] \in Engines
    BY FreshTyped DEF Engines
  <2>3. [Off EXCEPT !.on = TRUE, !.lists = DefaultLists] \in Engines
    BY <2>1, <2>2 DEF Engines
  <2> QED BY <2>3, FreshTyped DEF SettingsInit
<1>4. book \in Levels
  BY SettingsAssumption DEF SettingsInit, Levels
<1>5. serial \in 0..MaxApplies /\ mounted \in Pages /\ applies \in [1..MaxApplies -> Persists]
  BY FreshTyped, SettingsAssumption DEF SettingsInit, None
<1>6. QueueIsHeld
  <2>1. \A i \in 1..MaxApplies : applies[i].at = "idle" /\ serial # i
    BY SettingsAssumption DEF SettingsInit, Idle, None
  <2> QED BY <2>1 DEF QueueIsHeld
<1>7. OffInv
  BY <1>2, SettingsAssumption DEF SettingsInit, OffInv, Asked, Mounted, Idle
<1> QED BY <1>1, <1>3, <1>4, <1>5, <1>6, <1>7 DEF SettingsInv, SettingsTypes

\* A step that changes one persist at most.
LEMMA PersistMoves ==
    ASSUME SettingsInv, NEW i \in 1..MaxApplies, NEW p \in Persists,
           applies' = [applies EXCEPT ![i] = p],
           p.draft = applies[i].draft, applies[i].at # "idle",
           p.at \in {"reload", "rescan lists"} <=> serial' = i,
           \A j \in 1..MaxApplies : j # i => (serial' = j <=> serial = j),
           UNCHANGED unticked
    PROVE  /\ applies' \in [1..MaxApplies -> Persists] /\ QueueIsHeld'
           /\ \A j \in 1..MaxApplies : applies'[j].at # "idle" => Asked(applies[j].draft.enabled)
                                       /\ applies'[j].draft = applies[j].draft
<1>1. \A j \in 1..MaxApplies : applies'[j] = IF j = i THEN p ELSE applies[j]
  BY DEF SettingsInv, SettingsTypes
<1> QED BY <1>1 DEF SettingsInv, SettingsTypes, QueueIsHeld, OffInv

\* A step of a persist that shows the page no other form.
LEMMA PersistStep ==
    ASSUME SettingsInv, NEW i \in 1..MaxApplies, NEW p \in Persists,
           applies' = [applies EXCEPT ![i] = p],
           p.draft = applies[i].draft, applies[i].at # "idle",
           p.at \in {"reload", "rescan lists"} <=> serial' = i,
           \A j \in 1..MaxApplies : j # i => (serial' = j <=> serial = j),
           serial' \in 0..MaxApplies,
           UNCHANGED unticked, stored' \in Rows, loaded' \in Engines, book' \in Levels,
           stored'.enabled \in {stored.enabled, applies[i].draft.enabled},
           mounted' \in Pages, mounted'.loaded = mounted.loaded, mounted'.form = mounted.form
    PROVE  SettingsInv'
<1>1. /\ applies' \in [1..MaxApplies -> Persists] /\ QueueIsHeld'
      /\ \A j \in 1..MaxApplies : applies'[j].at # "idle" => Asked(applies[j].draft.enabled)
                                  /\ applies'[j].draft = applies[j].draft
  BY PersistMoves
<1>2. Asked(applies[i].draft.enabled) /\ Asked(Effective(stored)) /\ Asked(DefaultLists)
  BY DEF SettingsInv, OffInv, Asked
<1>3. Asked(Effective(stored'))
  BY <1>2 DEF Effective
<1>4. OffInv'
  BY <1>1, <1>3 DEF OffInv, Asked, SettingsInv, Effective
<1> QED BY <1>1, <1>4 DEF SettingsInv, SettingsTypes

\* A persist keeps it, step by step: it saves what was asked, reloads and re-screens
\* while it has the queue, and may fail anywhere.
LEMMA ApplyStepKeeps ==
    ASSUME SettingsInv, NEW i \in 1..MaxApplies, ApplyStep(i) PROVE SettingsInv'
<1>1. /\ stored \in Rows /\ loaded \in Engines /\ book \in Levels /\ serial \in 0..MaxApplies
      /\ mounted \in Pages /\ applies[i] \in Persists
  BY DEF SettingsInv, SettingsTypes
<1>2. i # 0 /\ i \in Nat /\ MaxApplies \in Nat
  BY SettingsAssumption
<1>3. At(i, "reload") \/ At(i, "rescan lists") <=> serial = i
  BY DEF SettingsInv, QueueIsHeld, At
<1>4. applies[i].draft \in Forms
  BY <1>1 DEF Persists
<1>5. ASSUME NEW to \in Steps \ {"reload", "rescan lists"}, Goes(i, to), applies[i].at # "idle",
             UNCHANGED unticked, serial' = serial \/ Freed(i), serial # i \/ Freed(i), 
             stored' \in Rows, loaded' \in Engines, book' \in Levels,
             stored'.enabled \in {stored.enabled, applies[i].draft.enabled},
             mounted' \in Pages, mounted'.loaded = mounted.loaded, mounted'.form = mounted.form
      PROVE  SettingsInv'
  <2> DEFINE p == [applies[i] EXCEPT !.at = to]
  <2>1. p \in Persists /\ p.draft = applies[i].draft /\ p.at = to
    BY <1>1 DEF Persists
  <2>2. applies' = [applies EXCEPT ![i] = p]
    BY <1>5 DEF Goes, SettingsInv, SettingsTypes
  <2> HIDE DEF p
  <2>3. serial' # i /\ serial' \in 0..MaxApplies
        /\ \A j \in 1..MaxApplies : j # i => (serial' = j <=> serial = j)
    <3>1. serial' \in {serial, None} /\ serial' # i /\ (serial # i => serial' = serial)
      BY <1>1, <1>2, <1>5 DEF Freed, None
    <3> QED BY <1>1, <3>1, NobodyIsNobody
  <2>4. p.at \in {"reload", "rescan lists"} <=> serial' = i
    BY <1>5, <2>1, <2>3
  <2> QED BY <1>5, <2>1, <2>2, <2>3, <2>4, PersistStep
<1>6. CASE SavesName(i)
  <2>1. stored' \in Rows /\ stored'.enabled = stored.enabled
    <3>1. (IF applies[i].draft.name # Blank THEN applies[i].draft.name ELSE stored.name) \in Name \cup {Blank}
      BY <1>1, <1>4 DEF Rows, Forms
    <3> QED BY <1>1, <1>6, <3>1 DEF SavesName, Rows
  <2>2. Goes(i, "lists") /\ applies[i].at = "name" /\ UNCHANGED <<loaded, book, serial, mounted, unticked>>
    BY <1>6 DEF SavesName, At
  <2>3. "lists" \in Steps \ {"reload", "rescan lists"}
    BY DEF Steps
  <2>4. serial # i
    BY <1>3, <2>2 DEF At
  <2> QED BY <1>1, <1>5, <2>1, <2>2, <2>3, <2>4
<1>7. CASE SameLists(i)
  <2>1. Goes(i, "config") /\ applies[i].at = "lists" /\ UNCHANGED <<stored, loaded, book, serial, mounted, unticked>>
    BY <1>7 DEF SameLists, At
  <2>2. "config" \in Steps \ {"reload", "rescan lists"}
    BY DEF Steps
  <2>3. serial # i
    BY <1>3, <2>1 DEF At
  <2> QED BY <1>1, <1>5, <2>1, <2>2, <2>3
<1>8. CASE SavesLists(i)
  <2> DEFINE p == [applies[i] EXCEPT !.at = "reload"]
  <2>1. p \in Persists /\ p.draft = applies[i].draft /\ p.at = "reload"
    BY <1>1 DEF Persists, Steps
  <2>2. applies' = [applies EXCEPT ![i] = p] /\ serial = None /\ serial' = i /\ applies[i].at = "lists"
        /\ UNCHANGED <<loaded, book, mounted, unticked>>
    BY <1>8 DEF SavesLists, Goes, At, SettingsInv, SettingsTypes
  <2>3. stored' \in Rows /\ stored'.enabled = applies[i].draft.enabled
    <3>1. applies[i].draft.enabled \in (SUBSET Catalog) \cup {{Unset}}
      BY <1>4 DEF Forms
    <3> QED BY <1>1, <1>8, <3>1 DEF SavesLists, Rows
  <2> HIDE DEF p
  <2>4. \A j \in 1..MaxApplies : j # i => (serial' = j <=> serial = j)
    BY <1>2, <2>2 DEF None
  <2>5. serial' \in 0..MaxApplies
    BY <1>2, <2>2
  <2> QED BY <1>1, <2>1, <2>2, <2>3, <2>4, <2>5, PersistStep
<1>9. CASE Reloads(i)
  <2> DEFINE p == [applies[i] EXCEPT !.at = "rescan lists"]
  <2>1. p \in Persists /\ p.draft = applies[i].draft /\ p.at = "rescan lists"
    BY <1>1 DEF Persists, Steps
  <2>2. applies' = [applies EXCEPT ![i] = p] /\ serial' = serial /\ applies[i].at = "reload"
        /\ UNCHANGED <<stored, book, mounted, unticked>>
    BY <1>9 DEF Reloads, Goes, At, SettingsInv, SettingsTypes
  <2>3. serial = i
    BY <1>3, <2>2 DEF At
  <2>4. loaded' \in Engines
    <3>1. Loaded(stored) \in Engines /\ applies[i].draft.enabled \in SUBSET Catalog
      BY <1>1, <1>4, EffectiveTyped DEF Forms
    <3> QED BY <1>9, <3>1 DEF Reloads, Engines
  <2> HIDE DEF p
  <2> QED BY <1>1, <2>1, <2>2, <2>3, <2>4, PersistStep
<1>10. CASE Rescans(i)
  <2> DEFINE e == IF loaded.on THEN loaded ELSE Loaded(stored)
             p == [applies[i] EXCEPT !.scanned = BookSize,
                     !.at = IF At(i, "rescan lists") THEN "config" ELSE "ends"]
  <2>1. p \in Persists /\ p.draft = applies[i].draft /\ p.at \in {"config", "ends"}
    BY <1>1, SettingsAssumption DEF Persists, Steps
  <2>2. applies' = [applies EXCEPT ![i] = p] /\ applies[i].at \in {"rescan lists", "rescan config"}
        /\ Freed(i) /\ UNCHANGED <<stored, mounted, unticked>>
    BY <1>10 DEF Rescans, At
  <2>3. e \in Engines
    BY <1>1, EffectiveTyped
  <2>4. loaded' \in Engines /\ book' \in Levels
    <3>1. \A l \in Catalog : Floor(e, stored.sens, l) \in Threshold \cup {None}
      BY <1>1, <2>3 DEF Floor, Engines, Levels, Rows
    <3>2. Rescanned(e) \in Levels
      BY <3>1 DEF Rescanned, Levels
    <3> QED BY <1>1, <1>10, <2>3, <3>2 DEF Rescans
  <2> HIDE DEF p
  <2>5. serial' # i /\ serial' \in 0..MaxApplies
        /\ \A j \in 1..MaxApplies : j # i => (serial' = j <=> serial = j)
    <3>1. serial' \in {serial, None} /\ serial' # i /\ (serial # i => serial' = serial)
      BY <1>1, <1>2, <2>2 DEF Freed, None
    <3> QED BY <1>1, <3>1, NobodyIsNobody
  <2>6. p.at \in {"reload", "rescan lists"} <=> serial' = i
    BY <2>1, <2>5
  <2> QED BY <1>1, <2>1, <2>2, <2>4, <2>5, <2>6, PersistStep
<1>11. CASE SameConfig(i)
  <2>1. Goes(i, "ends") /\ applies[i].at = "config" /\ UNCHANGED <<stored, loaded, book, serial, mounted, unticked>>
    BY <1>11 DEF SameConfig, At
  <2>2. "ends" \in Steps \ {"reload", "rescan lists"}
    BY DEF Steps
  <2>3. serial # i
    BY <1>3, <2>1 DEF At
  <2> QED BY <1>1, <1>5, <2>1, <2>2, <2>3
<1>12. CASE SavesSensitivity(i)
  <2>1. Goes(i, "overrides") /\ applies[i].at = "config" /\ UNCHANGED <<loaded, book, serial, mounted, unticked>>
    BY <1>12 DEF SavesSensitivity, At
  <2>2. "overrides" \in Steps \ {"reload", "rescan lists"}
    BY DEF Steps
  <2>3. serial # i
    BY <1>3, <2>1 DEF At
  <2>4. stored' \in Rows /\ stored'.enabled = stored.enabled
    BY <1>1, <1>4, <1>12 DEF SavesSensitivity, Rows, Forms
  <2> QED BY <1>1, <1>5, <2>1, <2>2, <2>3, <2>4
<1>13. CASE SavesOverrides(i)
  <2>1. Goes(i, "rescan config") /\ applies[i].at = "overrides" /\ UNCHANGED <<loaded, book, serial, mounted, unticked>>
    BY <1>13 DEF SavesOverrides, At
  <2>2. "rescan config" \in Steps \ {"reload", "rescan lists"}
    BY DEF Steps
  <2>3. serial # i
    BY <1>3, <2>1 DEF At
  <2>4. stored' \in Rows /\ stored'.enabled = stored.enabled
    BY <1>1, <1>4, <1>13 DEF SavesOverrides, Rows, Forms
  <2> QED BY <1>1, <1>5, <2>1, <2>2, <2>3, <2>4
<1>14. "done" \in Steps \ {"reload", "rescan lists"}
  BY DEF Steps
<1>15. CASE Ends(i)
  <2>1. Goes(i, "done") /\ applies[i].at = "ends" /\ UNCHANGED <<stored, loaded, book, serial, unticked>>
    BY <1>15 DEF Ends, At
  <2>2. serial # i
    BY <1>3, <2>1 DEF At
  <2>3. mounted' \in Pages /\ mounted'.loaded = mounted.loaded /\ mounted'.form = mounted.form
    <3> DEFINE base == [applies[i].draft EXCEPT !.name = IF @ = Blank THEN mounted.baseline.name ELSE @]
               said == CASE applies[i].scanned # 0 -> "rescanned"
                         [] applies[i].changed     -> "applied"
                         [] OTHER                  -> "unchanged"
               p1 == [mounted EXCEPT !.applying = FALSE]
               p2 == [p1 EXCEPT !.baseline = base]
               p3 == [p2 EXCEPT !.banner = said]
    <3>1. mounted.baseline \in Forms
      BY <1>1 DEF Pages
    <3>2. base \in Forms
      BY <1>4, <3>1 DEF Forms
    <3>3. said \in {"none", "rescanned", "applied", "unchanged"}
      OBVIOUS
    <3> HIDE DEF base, said
    <3>4. p1 \in Pages /\ p1.loaded = mounted.loaded /\ p1.form = mounted.form
      BY <1>1 DEF Pages
    <3>5. p2 \in Pages /\ p2.loaded = mounted.loaded /\ p2.form = mounted.form
      BY <3>2, <3>4 DEF Pages
    <3>6. p3 \in Pages /\ p3.loaded = mounted.loaded /\ p3.form = mounted.form
      BY <3>3, <3>5 DEF Pages
    <3>7. mounted' = mounted \/ mounted' = p3
      BY <1>15 DEF Ends, Tells, base, said
    <3> QED BY <1>1, <3>6, <3>7
  <2> QED BY <1>1, <1>5, <1>14, <2>1, <2>2, <2>3
<1>16. CASE Fails(i)
  <2>1. Goes(i, "done") /\ applies[i].at # "idle" /\ Freed(i) /\ UNCHANGED <<stored, book, unticked>>
    BY <1>16 DEF Fails, At
  <2>2. loaded' \in Engines
    BY <1>1, <1>16, FreshTyped DEF Fails
  <2>3. mounted' \in Pages /\ mounted'.loaded = mounted.loaded /\ mounted'.form = mounted.form
    <3> DEFINE p1 == [mounted EXCEPT !.applying = FALSE]
               p2 == [p1 EXCEPT !.error = TRUE]
    <3>1. p1 \in Pages /\ p1.loaded = mounted.loaded /\ p1.form = mounted.form
      BY <1>1 DEF Pages
    <3>2. p2 \in Pages /\ p2.loaded = mounted.loaded /\ p2.form = mounted.form
      BY <3>1 DEF Pages
    <3>3. mounted' = mounted \/ mounted' = p2
      BY <1>16 DEF Fails, Tells
    <3> QED BY <1>1, <3>2, <3>3
  <2> QED BY <1>1, <1>5, <1>14, <2>1, <2>2, <2>3
<1> QED BY <1>6, <1>7, <1>8, <1>9, <1>10, <1>11, <1>12, <1>13, <1>15, <1>16 DEF ApplyStep

\* Every step keeps it,
LEMMA SettingsStep == ASSUME SettingsInv, [SettingsNext]_settingsVars PROVE SettingsInv'
<1>1. /\ stored \in Rows /\ loaded \in Engines /\ book \in Levels /\ serial \in 0..MaxApplies
      /\ mounted \in Pages /\ applies \in [1..MaxApplies -> Persists]
  BY DEF SettingsInv, SettingsTypes
<1>2. mounted.form \in Forms /\ mounted.config \in Forms /\ mounted.mount \in Nat
      /\ Asked(Effective(stored)) /\ (mounted.loaded => Asked(mounted.form.enabled))
  BY <1>1 DEF Pages, SettingsInv, OffInv
<1>3. ASSUME UNCHANGED <<stored, serial, applies, unticked>>, book' = book, loaded' \in Engines,
             mounted' \in Pages, mounted'.loaded => Asked(mounted'.form.enabled)
      PROVE  SettingsInv'
  BY <1>1, <1>3 DEF SettingsInv, SettingsTypes, QueueIsHeld, OffInv, Asked, Effective
<1>4. CASE ReadsConfig
  <2> DEFINE p1 == [mounted EXCEPT !.load = "rest"]
             p2 == [p1 EXCEPT !.config = Shown(stored)]
  <2>1. p1 \in Pages /\ p1.form = mounted.form /\ p1.loaded = mounted.loaded
    BY <1>1 DEF Pages
  <2>2. p2 \in Pages /\ p2.form = mounted.form /\ p2.loaded = mounted.loaded
    BY <1>1, <2>1, EffectiveTyped DEF Pages
  <2>3. mounted' = p2
    BY <1>4 DEF ReadsConfig
  <2> HIDE DEF p2
  <2> QED BY <1>1, <1>2, <1>3, <1>4, <2>2, <2>3 DEF ReadsConfig
<1>5. CASE LoadFills
  <2> DEFINE f == [mounted.config EXCEPT !.name = stored.name, !.enabled = Effective(stored)]
             p1 == [mounted EXCEPT !.load = "none"]
             p2 == [p1 EXCEPT !.loaded = TRUE]
             p3 == [p2 EXCEPT !.form = f]
             p4 == [p3 EXCEPT !.baseline = f]
  <2>1. f \in Forms /\ f.enabled = Effective(stored)
    <3>1. stored.name \in Name \cup {Blank} /\ Effective(stored) \in SUBSET Catalog
      BY <1>1, EffectiveTyped DEF Rows
    <3> QED BY <1>2, <3>1 DEF Forms
  <2>2. mounted' = p4
    BY <1>5 DEF LoadFills, Filled
  <2> HIDE DEF f
  <2>3. p1 \in Pages
    BY <1>1 DEF Pages
  <2>4. p2 \in Pages
    BY <2>3 DEF Pages
  <2>5. p3 \in Pages /\ p3.form = f
    BY <2>1, <2>4 DEF Pages
  <2>6. p4 \in Pages /\ p4.form = f
    BY <2>1, <2>5 DEF Pages
  <2> HIDE DEF p4
  <2>7. mounted' \in Pages /\ Asked(mounted'.form.enabled)
    BY <1>2, <2>1, <2>2, <2>6
  <2> QED BY <1>1, <1>3, <1>5, <2>7 DEF LoadFills
<1>6. CASE LoadFails
  <2> DEFINE p1 == [mounted EXCEPT !.load = "none"]
             p2 == [p1 EXCEPT !.failed = TRUE]
             p3 == [p2 EXCEPT !.error = TRUE]
  <2>1. p1 \in Pages /\ p1.form = mounted.form /\ p1.loaded = mounted.loaded
    BY <1>1 DEF Pages
  <2>2. p2 \in Pages /\ p2.form = mounted.form /\ p2.loaded = mounted.loaded
    BY <2>1 DEF Pages
  <2>3. p3 \in Pages /\ p3.form = mounted.form /\ p3.loaded = mounted.loaded
    BY <2>2 DEF Pages
  <2>4. mounted' = p3
    BY <1>6 DEF LoadFails
  <2> HIDE DEF p3
  <2> QED BY <1>1, <1>2, <1>3, <1>6, <2>3, <2>4 DEF LoadFails
<1>7. CASE RetriesLoad
  <2> DEFINE p1 == [mounted EXCEPT !.load = "config"]
             p2 == [p1 EXCEPT !.failed = FALSE]
             p3 == [p2 EXCEPT !.error = FALSE]
             p4 == [p3 EXCEPT !.loaded = FALSE]
  <2>1. p1 \in Pages
    BY <1>1 DEF Pages
  <2>2. p2 \in Pages
    BY <2>1 DEF Pages
  <2>3. p3 \in Pages
    BY <2>2 DEF Pages
  <2>4. p4 \in Pages /\ p4.loaded = FALSE
    BY <2>3 DEF Pages
  <2>5. mounted' = p4
    BY <1>7 DEF RetriesLoad
  <2> HIDE DEF p4
  <2> QED BY <1>1, <1>3, <1>7, <2>4, <2>5 DEF RetriesLoad
<1>8. CASE Edits
  <2>1. PICK form \in Edited(mounted.form) :
          /\ form # mounted.form
          /\ mounted' = [mounted EXCEPT !.form = form, !.edits = @ + 1]
          /\ unticked' = unticked \cup (mounted.form.enabled \ form.enabled)
    BY <1>8 DEF Edits
  <2>2. form \in Forms
    BY <1>2, <2>1, EditedTyped
  <2> DEFINE p1 == [mounted EXCEPT !.form = form]
             p2 == [p1 EXCEPT !.edits = mounted.edits + 1]
  <2>3. p1 \in Pages /\ p1.form = form /\ p1.loaded = mounted.loaded
    BY <1>1, <2>2 DEF Pages
  <2>4. p2 \in Pages /\ p2.form = form /\ p2.loaded = mounted.loaded
    <3>1. mounted.edits + 1 \in Nat
      BY <1>1 DEF Pages
    <3> QED BY <2>3, <3>1 DEF Pages
  <2>5. mounted' = p2
    BY <2>1
  <2>6. UNCHANGED <<stored, loaded, book, serial, applies>> /\ mounted.loaded
    BY <1>8 DEF Edits
  <2> HIDE DEF p2
  <2>7. OffInv'
    BY <1>2, <2>1, <2>4, <2>5, <2>6 DEF SettingsInv, OffInv, Asked, Effective
  <2> QED BY <1>1, <2>4, <2>5, <2>6, <2>7 DEF SettingsInv, SettingsTypes, QueueIsHeld
<1>9. CASE Remounts
  <2>1. Mounted(mounted.mount + 1) \in Pages /\ Mounted(mounted.mount + 1).loaded = FALSE
    BY <1>2, FreshTyped DEF Mounted
  <2> QED BY <1>1, <1>3, <1>9, <2>1 DEF Remounts
<1>10. CASE ClearsCache
  <2> DEFINE p1 == [mounted EXCEPT !.cleared = TRUE]
             p2 == [p1 EXCEPT !.error = FALSE]
  <2>1. p1 \in Pages /\ p1.form = mounted.form /\ p1.loaded = mounted.loaded
    BY <1>1 DEF Pages
  <2>2. p2 \in Pages /\ p2.form = mounted.form /\ p2.loaded = mounted.loaded
    BY <2>1 DEF Pages
  <2>3. mounted' = p2
    BY <1>10 DEF ClearsCache
  <2> HIDE DEF p2
  <2> QED BY <1>1, <1>2, <1>3, <1>10, <2>2, <2>3, FreshTyped DEF ClearsCache
<1>11. ASSUME NEW i \in 1..MaxApplies, Applies(i) PROVE SettingsInv'
  <2> DEFINE p == [at |-> "name", mount |-> mounted.mount, draft |-> mounted.form,
                   changed |-> Differs(mounted.form, mounted.baseline), scanned |-> 0]
             p1 == [mounted EXCEPT !.applying = TRUE]
             p2 == [p1 EXCEPT !.error = FALSE]
             p3 == [p2 EXCEPT !.banner = "none"]
  <2>1. p1 \in Pages /\ p1.form = mounted.form /\ p1.loaded = mounted.loaded
    BY <1>1 DEF Pages
  <2>2. p2 \in Pages /\ p2.form = mounted.form /\ p2.loaded = mounted.loaded
    BY <2>1 DEF Pages
  <2>3. p3 \in Pages /\ p3.form = mounted.form /\ p3.loaded = mounted.loaded
    BY <2>2 DEF Pages
  <2>4. mounted' = p3 /\ applies' = [applies EXCEPT ![i] = p] /\ mounted.loaded
        /\ applies[i].at = "idle" /\ UNCHANGED <<stored, loaded, book, serial, unticked>>
    BY <1>11 DEF Applies, CanApply, Idle
  <2>5. p \in Persists
    <3>1. Differs(mounted.form, mounted.baseline) \in BOOLEAN
      BY DEF Differs
    <3> HIDE DEF Differs
    <3> QED BY <1>2, <3>1 DEF Persists, Steps
  <2>6. p.at = "name" /\ p.draft = mounted.form
    OBVIOUS
  <2> HIDE DEF p, p3
  <2>7. \A j \in 1..MaxApplies : applies'[j] = IF j = i THEN p ELSE applies[j]
    BY <1>1, <2>4
  <2>8. applies' \in [1..MaxApplies -> Persists]
    BY <1>1, <2>4, <2>5
  <2>9. QueueIsHeld'
    <3>1. serial # i
      BY <2>4 DEF SettingsInv, QueueIsHeld
    <3> QED BY <2>4, <2>6, <2>7, <3>1 DEF SettingsInv, QueueIsHeld
  <2>10. OffInv'
    <3>1. Asked(Effective(stored))'
      BY <1>2, <2>4 DEF Asked, Effective
    <3>2. mounted'.loaded => (Asked(mounted.form.enabled))'
      BY <1>2, <2>3, <2>4 DEF Asked
    <3>3. \A j \in 1..MaxApplies : (applies[j].at # "idle" => Asked(applies[j].draft.enabled))'
      BY <1>2, <2>4, <2>6, <2>7 DEF Asked, SettingsInv, OffInv
    <3> QED BY <3>1, <3>2, <3>3 DEF OffInv, Asked
  <2> QED BY <1>1, <2>3, <2>4, <2>8, <2>9, <2>10 DEF SettingsInv, SettingsTypes
<1>12. CASE UNCHANGED settingsVars
  BY <1>12 DEF settingsVars, SettingsInv, SettingsTypes, QueueIsHeld, OffInv, Asked, Effective
<1> QED BY <1>4, <1>5, <1>6, <1>7, <1>8, <1>9, <1>10, <1>11, <1>12, ApplyStepKeeps DEF SettingsNext

\* so it always holds.
LEMMA SettingsInvHolds == SettingsSpec => []SettingsInv
<1>1. SettingsInit => SettingsInv
  BY SettingsInit0
<1>2. SettingsInv /\ [SettingsNext]_settingsVars => SettingsInv'
  BY SettingsStep
<1> QED BY <1>1, <1>2, PTL DEF SettingsSpec

\* The types of the settings page.
THEOREM SettingsTypeCorrect == SettingsSpec => []SettingsTypeOK
<1>1. SettingsInv => SettingsTypeOK
  <2> SUFFICES ASSUME SettingsInv PROVE SettingsTypeOK
    OBVIOUS
  <2>1. stored.enabled \subseteq Catalog \/ stored.enabled = {Unset}
    BY DEF SettingsInv, SettingsTypes, Rows
  <2>2. serial # None => serial \in 1..MaxApplies
    BY SettingsAssumption DEF SettingsInv, SettingsTypes, None
  <2>3. serial # None => applies[serial].at \in {"reload", "rescan lists"}
    BY <2>2 DEF SettingsInv, QueueIsHeld
  <2>4. loaded.lists \subseteq Catalog /\ book \in [Catalog -> Threshold \cup {None}]
    BY DEF SettingsInv, SettingsTypes, Engines, Levels
  <2>5. stored.sens \in Threshold /\ stored.over \in [Catalog -> Threshold \cup {None}]
    BY DEF SettingsInv, SettingsTypes, Rows, Levels
  <2> QED BY <2>1, <2>3, <2>4, <2>5 DEF SettingsInv, SettingsTypes, SettingsTypeOK
<1> QED BY <1>1, SettingsInvHolds, PTL

\* SettingsPage.tsx:377-398, 580-589: a list that is screened by default is off only
\* because its box was unticked, whatever was shown, saved or failed in between: a form
\* that was never filled is never saved.
THEOREM NoListGoesUnasked == SettingsSpec => []OffWasAsked
<1>1. SettingsInv => OffWasAsked
  BY DEF SettingsInv, OffInv, Asked, OffWasAsked
<1> QED BY <1>1, SettingsInvHolds, PTL

-----------------------------------------------------------------------------
(* The page that screens.                                                    *)

CallKinds == {"boot", "reload", "catalog", "clear", "dispose"}
CallRecord == [kind: CallKinds, scope: Scope, live: BOOLEAN, current: BOOLEAN]
PageRecord ==
  [phase: {"booting", "ready", "error", "unsupported"}, scope: Scope,
   catalog: {"unread", "read", "null"}, card: {"idle", "offered", "confirming", "clearing"},
   alive: BOOLEAN, booted: BOOLEAN, disposal: {"none", "deferred", "done"}]
EngineRecord ==
  [lists: SUBSET CatalogList, ready: BOOLEAN, warm: BOOLEAN, config: BOOLEAN,
   promise: {"none", "pending", "kept", "rejected"}]
SearchRecord ==
  [n: Nat \ {0}, query: Query, level: Level, lists: SUBSET CatalogList, on: BOOLEAN]
ScreenTypes ==
  /\ page \in PageRecord /\ box \in [query: Query \cup {Empty}, level: Level]
  /\ timer \in BOOLEAN /\ (timer => box.query # Empty)
  /\ chain \in Seq(SearchRecord) /\ \A k \in DOMAIN chain : chain[k].n <= seq
  /\ shown = NoAnswer \/ shown \in Outcome
  /\ seq \in Nat /\ engine \in EngineRecord /\ calls \in Seq(CallRecord)

\* A call of the page is a call of the queue, current when it is a boot.
LEMMA CallTyped ==
    ASSUME NEW kind \in CallKinds, NEW scope \in Scope, NEW live \in BOOLEAN
    PROVE  /\ Call(kind, scope, live) \in CallRecord /\ Call(kind, scope, live).kind = kind
           /\ Call(kind, scope, live).scope = scope /\ Call(kind, scope, live).live = live
           /\ (Call(kind, scope, live).current <=> kind = "boot")
BY DEF Call, CallRecord

\* Calls that are no longer current keep all the rest.
LEMMA PassedTyped ==
    ASSUME NEW q \in Seq(CallRecord)
    PROVE  /\ Passed(q) \in Seq(CallRecord) /\ Len(Passed(q)) = Len(q)
           /\ \A k \in 1..Len(q) :
                /\ Passed(q)[k].kind = q[k].kind /\ Passed(q)[k].scope = q[k].scope
                /\ (Passed(q)[k].live <=> q[k].live) /\ ~Passed(q)[k].current
<1>1. ASSUME NEW c \in CallRecord, NEW r, r = [c EXCEPT !.current = FALSE]
      PROVE  /\ r \in CallRecord /\ r.kind = c.kind /\ r.scope = c.scope
             /\ (r.live <=> c.live) /\ ~r.current
  <2>1. r \in CallRecord
    BY <1>1 DEF CallRecord
  <2>2. r.kind = c.kind /\ r.scope = c.scope
    BY <1>1 DEF CallRecord
  <2>3. (r.live <=> c.live) /\ ~r.current
    BY <1>1 DEF CallRecord
  <2> QED BY <2>1, <2>2, <2>3
<1>2. DOMAIN q = 1..Len(q) /\ Len(q) \in Nat
  OBVIOUS
<1>3. \A k \in 1..Len(q) : Passed(q)[k] = [q[k] EXCEPT !.current = FALSE]
  BY <1>2 DEF Passed
<1>4. Passed(q) \in [1..Len(q) -> CallRecord]
  <2>1. \A k \in 1..Len(q) : q[k] \in CallRecord
    BY <1>2
  <2>2. \A k \in 1..Len(q) : Passed(q)[k] \in CallRecord
    BY <1>1, <1>3, <2>1
  <2> QED BY <1>2, <2>2 DEF Passed
<1>5. Passed(q) \in Seq(CallRecord) /\ Len(Passed(q)) = Len(q)
  BY <1>2, <1>4
<1>6. \A k \in 1..Len(q) : q[k] \in CallRecord
  BY <1>2
<1> QED BY <1>1, <1>3, <1>5, <1>6

\* Superseded calls keep their sort and scope only.
LEMMA SupersededTyped ==
    ASSUME NEW q \in Seq(CallRecord)
    PROVE  /\ Superseded(q) \in Seq(CallRecord) /\ Len(Superseded(q)) = Len(q)
           /\ \A k \in 1..Len(q) :
                /\ Superseded(q)[k].kind = q[k].kind /\ Superseded(q)[k].scope = q[k].scope
                /\ ~Superseded(q)[k].live /\ ~Superseded(q)[k].current
<1>1. ASSUME NEW c \in CallRecord, NEW r, r = [c EXCEPT !.live = FALSE, !.current = FALSE]
      PROVE  /\ r \in CallRecord /\ r.kind = c.kind /\ r.scope = c.scope
             /\ ~r.live /\ ~r.current
  <2>1. r \in CallRecord
    BY <1>1 DEF CallRecord
  <2>2. r.kind = c.kind /\ r.scope = c.scope
    BY <1>1 DEF CallRecord
  <2>3. ~r.live /\ ~r.current
    BY <1>1 DEF CallRecord
  <2> QED BY <2>1, <2>2, <2>3
<1>2. DOMAIN q = 1..Len(q) /\ Len(q) \in Nat
  OBVIOUS
<1>3. \A k \in 1..Len(q) : Superseded(q)[k] = [q[k] EXCEPT !.live = FALSE, !.current = FALSE]
  BY <1>2 DEF Superseded
<1>4. Superseded(q) \in [1..Len(q) -> CallRecord]
  <2>1. \A k \in 1..Len(q) : q[k] \in CallRecord
    BY <1>2
  <2>2. \A k \in 1..Len(q) : Superseded(q)[k] \in CallRecord
    BY <1>1, <1>3, <2>1
  <2> QED BY <1>2, <2>2 DEF Superseded
<1>5. Superseded(q) \in Seq(CallRecord) /\ Len(Superseded(q)) = Len(q)
  BY <1>2, <1>4
<1>6. \A k \in 1..Len(q) : q[k] \in CallRecord
  BY <1>2
<1> QED BY <1>1, <1>3, <1>5, <1>6

\* A boot that is asked for leaves an engine and a queue of calls.
LEMMA BootsTyped ==
    ASSUME NEW e \in EngineRecord, NEW q \in Seq(CallRecord), page \in PageRecord, Boots(e, q)
    PROVE  engine' \in EngineRecord /\ calls' \in Seq(CallRecord)
<1> DEFINE live == ~Torn(q)
<1>1. live \in BOOLEAN
  OBVIOUS
<1>2. page.scope \in Scope
  BY DEF PageRecord
<1> HIDE DEF live
<1>3. Call("boot", page.scope, live) \in CallRecord
  BY <1>1, <1>2, CallTyped DEF CallKinds
<1>4. [e EXCEPT !.promise = "pending"] \in EngineRecord
  BY DEF EngineRecord
<1>5. CASE e.promise # "none" \/ Reloading(q)
  BY <1>5 DEF Boots
<1>6. CASE ~(e.promise # "none" \/ Reloading(q))
  <2>1. engine' = [e EXCEPT !.promise = "pending"] /\ calls' = Append(Passed(q), Call("boot", page.scope, live))
    BY <1>6 DEF Boots, live
  <2> QED BY <2>1, <1>3, <1>4, PassedTyped
<1> QED BY <1>5, <1>6

\* A reload that is asked for.
LEMMA ReloadsTyped ==
    ASSUME NEW q \in Seq(CallRecord), ReloadsLists(q)
    PROVE  calls' \in Seq(CallRecord)
<1> DEFINE c == Call("reload", "all-lists-streaming", TRUE)
<1>1. c \in CallRecord
  BY CallTyped DEF CallKinds, Scope
<1>2. calls' = q \/ calls' = Append(q, c)
  BY DEF ReloadsLists
<1> HIDE DEF c
<1> QED BY <1>1, <1>2

\* A teardown that is asked for.
LEMMA TearsDownTyped ==
    ASSUME ScreenTypes, NEW kind \in {"clear", "dispose"}, TearsDown(kind)
    PROVE  engine' \in EngineRecord /\ calls' \in Seq(CallRecord)
<1>1. Call(kind, page.scope, TRUE) \in CallRecord
  BY CallTyped DEF CallKinds, ScreenTypes, PageRecord
<1>2. [engine EXCEPT !.warm = FALSE] \in EngineRecord
  BY DEF EngineRecord, ScreenTypes
<1>3. calls \in Seq(CallRecord) /\ engine \in EngineRecord
  BY DEF ScreenTypes
<1> DEFINE c == Call(kind, page.scope, TRUE)
<1>4. engine' = [engine EXCEPT !.warm = FALSE] \/ engine' = engine
  BY DEF TearsDown
<1>5. calls' = Append(Superseded(calls), c) \/ calls' = Append(calls, c)
  BY DEF TearsDown
<1>6. c \in CallRecord
  BY <1>1
<1> HIDE DEF c
<1>7. calls' \in Seq(CallRecord)
  <2>1. Superseded(calls) \in Seq(CallRecord)
    BY <1>3, SupersededTyped
  <2>2. Append(Superseded(calls), c) \in Seq(CallRecord) /\ Append(calls, c) \in Seq(CallRecord)
    BY <1>3, <1>6, <2>1
  <2> QED BY <1>5, <2>2
<1> QED BY <1>2, <1>3, <1>4, <1>7


\* A change of phase leaves a page, and a timer that is set for a query only.
LEMMA PhaseTyped ==
    ASSUME ScreenTypes, NEW phase \in {"booting", "ready", "error"}, NEW p \in PageRecord,
           PhaseIs(phase, p)
    PROVE  /\ page' \in PageRecord /\ timer' \in BOOLEAN
           /\ timer' => box.query # Empty
           /\ page' = [p EXCEPT !.phase = phase]
<1>1. page' \in PageRecord /\ page' = [p EXCEPT !.phase = phase]
  BY DEF PhaseIs, PageRecord
<1>2. CASE phase # page.phase
  <2> DEFINE b == phase = "ready" /\ box.query # Empty
  <2>1. timer' = b
    BY <1>2 DEF PhaseIs
  <2>2. b \in BOOLEAN /\ (b => box.query # Empty)
    OBVIOUS
  <2> HIDE DEF b
  <2> QED BY <1>1, <2>1, <2>2
<1>3. CASE phase = page.phase
  BY <1>1, <1>3 DEF PhaseIs, ScreenTypes
<1> QED BY <1>2, <1>3

\* The page as it is mounted.
LEMMA ScreenTypesInit == ASSUME ScreenInit PROVE ScreenTypes
<1>1. page \in PageRecord
  BY DEF ScreenInit, PageRecord, Scope
<1>2. box \in [query: Query \cup {Empty}, level: Level]
  BY ScreenAssumption DEF ScreenInit
<1>3. engine \in EngineRecord
  BY DEF ScreenInit, EngineRecord
<1>4. chain = <<>> /\ calls = <<>> /\ timer = FALSE /\ shown = NoAnswer /\ seq = 0
  BY DEF ScreenInit
<1>5. chain \in Seq(SearchRecord) /\ calls \in Seq(CallRecord) /\ DOMAIN chain = {}
  BY <1>4
<1> QED BY <1>1, <1>2, <1>3, <1>4, <1>5 DEF ScreenTypes

\* the runtime's answers
LEMMA AnswersTyped ==
    ASSUME ScreenTypes, RuntimeAnswers
    PROVE  ScreenTypes'
<1> DEFINE t == Tail(calls)
           h == Head(calls)
<1>1. calls \in Seq(CallRecord) /\ calls # <<>> /\ page \in PageRecord /\ engine \in EngineRecord
  BY DEF ScreenTypes, RuntimeAnswers
<1>2. h \in CallRecord /\ t \in Seq(CallRecord)
  BY <1>1
<1>3. UNCHANGED <<box, chain, shown, seq>>
  BY DEF RuntimeAnswers
<1>4. ASSUME engine' \in EngineRecord, calls' \in Seq(CallRecord), page' \in PageRecord,
             timer' \in BOOLEAN, timer' => box.query # Empty
      PROVE  ScreenTypes'
  BY <1>3, <1>4 DEF ScreenTypes
<1>5. timer \in BOOLEAN /\ (timer => box.query # Empty)
  BY DEF ScreenTypes
<1>6. ASSUME NEW phase \in {"booting", "ready", "error"}, NEW p \in PageRecord, PhaseIs(phase, p),
             engine' \in EngineRecord, calls' \in Seq(CallRecord)
      PROVE  ScreenTypes'
  BY <1>4, <1>6, PhaseTyped
<1>7. ASSUME NEW b \in BOOLEAN, PageFails(b), engine' \in EngineRecord, calls' \in Seq(CallRecord)
      PROVE  ScreenTypes'
  <2>1. CASE page.alive
    <3>1. PICK card \in {"offered", "idle"} : PhaseIs("error", [page EXCEPT !.card = card])
      BY <1>7, <2>1 DEF PageFails
    <3>2. [page EXCEPT !.card = card] \in PageRecord
      BY <1>1 DEF PageRecord
    <3> QED BY <1>6, <1>7, <3>1, <3>2
  <2>2. CASE ~page.alive
    BY <1>1, <1>4, <1>5, <1>7, <2>2 DEF PageFails
  <2> QED BY <2>1, <2>2
<1>8. Gone \in EngineRecord
  BY DEF Gone, EngineRecord
<1>9. ASSUME NEW scope \in Scope, NEW promise \in {"none", "pending", "kept", "rejected"}
      PROVE  Serves(scope, promise) \in EngineRecord
  BY DEF Serves, ListsOf, EngineRecord
<1>10. h.scope \in Scope /\ page.scope \in Scope /\ h.live \in BOOLEAN /\ h.current \in BOOLEAN
  BY <1>1, <1>2 DEF CallRecord, PageRecord
<1>11. [page EXCEPT !.card = "idle"] \in PageRecord
  BY <1>1 DEF PageRecord
<1>12. [page EXCEPT !.card = "idle", !.catalog = "unread"] \in PageRecord
  BY <1>1 DEF PageRecord
<1>13. CASE BootResolves
  <2> DEFINE promise == IF h.current /\ engine.promise = "pending" THEN "kept" ELSE engine.promise
             c == Call("catalog", page.scope, TRUE)
  <2>1. engine' = Serves(h.scope, promise)
    BY <1>13 DEF BootResolves
  <2>2. promise \in {"none", "pending", "kept", "rejected"}
    BY <1>1 DEF EngineRecord
  <2>3. c \in CallRecord
    BY <1>10, CallTyped DEF CallKinds
  <2>4. calls' = Append(t, c) \/ calls' = t
    BY <1>13 DEF BootResolves
  <2> HIDE DEF promise, c
  <2>5. engine' \in EngineRecord
    BY <2>1, <2>2, <1>9, <1>10
  <2>6. calls' \in Seq(CallRecord)
    <3>1. Append(t, c) \in Seq(CallRecord)
      BY <1>2, <2>3
    <3> QED BY <1>2, <2>4, <3>1
  <2>7. CASE page.alive
    <3>1. PhaseIs("ready", [page EXCEPT !.card = "idle"])
      BY <1>13, <2>7 DEF BootResolves
    <3> QED BY <3>1, <2>5, <2>6, <1>6, <1>11
  <2>8. CASE ~page.alive
    BY <1>13, <2>8, <2>5, <2>6, <1>1, <1>4, <1>5 DEF BootResolves
  <2> QED BY <2>7, <2>8
<1>14. CASE ReloadResolves
  <2>1. engine' \in EngineRecord /\ calls' \in Seq(CallRecord)
    BY <1>2, <1>9, <1>10, <1>14 DEF ReloadResolves
  <2>2. CASE page.alive
    <3>1. PhaseIs("ready", [page EXCEPT !.card = "idle"])
      BY <1>14, <2>2 DEF ReloadResolves
    <3> QED BY <3>1, <2>1, <1>6, <1>11
  <2>3. CASE ~page.alive
    BY <1>14, <2>3, <2>1, <1>1, <1>4, <1>5 DEF ReloadResolves
  <2> QED BY <2>2, <2>3
<1>15. CASE BootRejects
  <2>1. PageFails(h.live) /\ calls' = t
    BY <1>15 DEF BootRejects
  <2>2. engine' \in EngineRecord
    <3>1. CASE h.current
      <4>1. engine' = [engine EXCEPT !.warm = FALSE, !.config = FALSE, !.promise = "none"]
        BY <1>15, <3>1 DEF BootRejects
      <4> QED BY <1>1, <4>1 DEF EngineRecord
    <3>2. CASE ~h.current
      <4>1. PICK w \in {engine.warm, TRUE} : engine' = [engine EXCEPT
              !.warm = w, !.config = TRUE,
              !.promise = IF @ = "pending" /\ \A k \in 2..Len(calls) : calls[k].kind # "boot"
                          THEN "rejected" ELSE @]
        BY <1>15, <3>2 DEF BootRejects
      <4>2. w \in BOOLEAN
        BY <1>1 DEF EngineRecord
      <4> QED BY <1>1, <4>1, <4>2 DEF EngineRecord
    <3> QED BY <3>1, <3>2
  <2> HIDE DEF t, h
  <2> QED BY <2>1, <2>2, <1>2, <1>7, <1>10
<1>16. CASE ReloadRejects
  <2> DEFINE b == engine.warm /\ engine.config
  <2>1. PageFails(b) /\ calls' = t /\ b \in BOOLEAN
    BY <1>16 DEF ReloadRejects
  <2>2. [Gone EXCEPT !.warm = TRUE, !.config = TRUE] \in EngineRecord
    BY <1>8 DEF EngineRecord
  <2>3. engine' \in EngineRecord
    BY <1>1, <1>16, <2>2 DEF ReloadRejects
  <2> HIDE DEF b, t, h
  <2> QED BY <2>1, <2>3, <1>2, <1>7
<1>17. CASE CatalogReads
  <2>1. PICK answer \in {"read", "null"} :
          page' = IF page.alive THEN [page EXCEPT !.catalog = answer] ELSE page
    BY <1>17 DEF CatalogReads
  <2>2. page' \in PageRecord
    BY <1>1, <2>1 DEF PageRecord
  <2>3. calls' = t /\ UNCHANGED <<timer, engine>>
    BY <1>17 DEF CatalogReads
  <2> HIDE DEF t
  <2> QED BY <2>2, <2>3, <1>1, <1>2, <1>4, <1>5
<1>18. CASE ClearResolves
  <2>1. CASE h.scope = "all-lists-streaming"
    <3>1. PhaseIs("booting", [page EXCEPT !.card = "idle"]) /\ engine' = Gone /\ ReloadsLists(t)
      BY <1>18, <2>1 DEF ClearResolves
    <3> QED BY <3>1, <1>2, <1>6, <1>8, <1>11, ReloadsTyped
  <2>2. CASE h.scope # "all-lists-streaming" /\ page.alive
    <3>1. PhaseIs("booting", [page EXCEPT !.card = "idle", !.catalog = "unread"]) /\ Boots(Gone, t)
      BY <1>18, <2>2 DEF ClearResolves
    <3>2. engine' \in EngineRecord /\ calls' \in Seq(CallRecord)
      BY <3>1, <1>1, <1>2, <1>8, BootsTyped
    <3> QED BY <3>1, <3>2, <1>6, <1>12
  <2>3. CASE h.scope # "all-lists-streaming" /\ ~page.alive
    BY <1>1, <1>2, <1>4, <1>5, <1>8, <1>18, <2>3 DEF ClearResolves
  <2> QED BY <2>1, <2>2, <2>3
<1>19. CASE ClearRejects
  <2>1. page' \in PageRecord
    BY <1>1, <1>19 DEF ClearRejects, PageRecord
  <2> QED BY <1>19, <2>1, <1>2, <1>4, <1>5, <1>8 DEF ClearRejects
<1>20. CASE Disposes
  BY <1>1, <1>2, <1>4, <1>5, <1>8, <1>20 DEF Disposes
<1> QED BY <1>13, <1>14, <1>15, <1>16, <1>17, <1>18, <1>19, <1>20 DEF RuntimeAnswers

\* the buttons, mounting and leaving
LEMMA ButtonsTyped ==
    ASSUME ScreenTypes,
           BootEffect \/ Unmount \/ DisposalFires \/ OptIn \/ Retry \/ AskToClear \/ ConfirmClear
    PROVE  ScreenTypes'
<1>1. calls \in Seq(CallRecord) /\ page \in PageRecord /\ engine \in EngineRecord
      /\ timer \in BOOLEAN /\ (timer => box.query # Empty)
  BY DEF ScreenTypes
<1>2. UNCHANGED <<box, chain, shown, seq>>
  BY DEF BootEffect, Unmount, DisposalFires, OptIn, Retry, AskToClear, ConfirmClear
<1>3. ASSUME engine' \in EngineRecord, calls' \in Seq(CallRecord), page' \in PageRecord,
             timer' \in BOOLEAN, timer' => box.query # Empty
      PROVE  ScreenTypes'
  BY <1>2, <1>3 DEF ScreenTypes
<1>4. ASSUME IncludeAllLists PROVE ScreenTypes'
  <2>1. [page EXCEPT !.scope = "all-lists-streaming"] \in PageRecord
    BY <1>1 DEF PageRecord, Scope
  <2>2. calls' \in Seq(CallRecord) /\ engine' = engine
    BY <1>1, <1>4, ReloadsTyped DEF IncludeAllLists
  <2> QED BY <1>1, <1>3, <1>4, <2>1, <2>2, PhaseTyped DEF IncludeAllLists
<1>5. ASSUME RetryBoot PROVE ScreenTypes'
  <2>1. [page EXCEPT !.catalog = "unread", !.booted = TRUE, !.card = "idle"] \in PageRecord
    BY <1>1 DEF PageRecord
  <2>2. engine' \in EngineRecord /\ calls' \in Seq(CallRecord)
    BY <1>1, <1>5, BootsTyped DEF RetryBoot
  <2> QED BY <1>3, <1>5, <2>1, <2>2, PhaseTyped DEF RetryBoot
<1>6. CASE BootEffect
  <2>1. engine' \in EngineRecord /\ calls' \in Seq(CallRecord)
    BY <1>1, <1>6, BootsTyped DEF BootEffect
  <2>2. page' \in PageRecord /\ timer' = timer
    BY <1>1, <1>6 DEF BootEffect, PageRecord
  <2> QED BY <1>1, <1>3, <2>1, <2>2
<1>7. CASE Unmount
  <2>1. page' \in PageRecord
    BY <1>1, <1>7 DEF Unmount, PageRecord
  <2> QED BY <1>1, <1>3, <1>7, <2>1 DEF Unmount
<1>8. CASE DisposalFires
  <2>1. engine' \in EngineRecord /\ calls' \in Seq(CallRecord)
    BY <1>8, TearsDownTyped DEF DisposalFires
  <2>2. page' \in PageRecord /\ timer' = timer
    BY <1>1, <1>8 DEF DisposalFires, PageRecord
  <2> QED BY <1>1, <1>3, <2>1, <2>2
<1>9. CASE OptIn
  BY <1>4, <1>9 DEF OptIn
<1>10. CASE Retry
  BY <1>4, <1>5, <1>10 DEF Retry, OnRetry
<1>11. CASE AskToClear
  <2>1. page' \in PageRecord
    BY <1>1, <1>11 DEF AskToClear, PageRecord
  <2> QED BY <1>1, <1>3, <1>11, <2>1 DEF AskToClear
<1>12. CASE ConfirmClear
  <2>1. engine' \in EngineRecord /\ calls' \in Seq(CallRecord)
    BY <1>12, TearsDownTyped DEF ConfirmClear
  <2>2. page' \in PageRecord /\ timer' = timer
    BY <1>1, <1>12 DEF ConfirmClear, PageRecord
  <2> QED BY <1>1, <1>3, <2>1, <2>2
<1> QED BY <1>6, <1>7, <1>8, <1>9, <1>10, <1>11, <1>12

\* what a search shows
LEMMA ShowsTyped ==
    ASSUME ScreenTypes, NEW o \in Outcome, Shows(o)
    PROVE  shown' = NoAnswer \/ shown' \in Outcome
BY DEF Shows, ScreenTypes

\* the searches
LEMMA SearchesTyped ==
    ASSUME ScreenTypes,
           \/ \E q \in Query \cup {Empty} : Type(q)
           \/ \E l \in Level : Choose(l)
           \/ DebounceFires \/ SearchStarts \/ SearchAnswers \/ SearchRejects
    PROVE  ScreenTypes'
<1>1. /\ chain \in Seq(SearchRecord) /\ \A k \in DOMAIN chain : chain[k].n <= seq
      /\ box \in [query: Query \cup {Empty}, level: Level] /\ seq \in Nat
      /\ timer \in BOOLEAN /\ (timer => box.query # Empty)
      /\ page \in PageRecord /\ engine \in EngineRecord /\ calls \in Seq(CallRecord)
      /\ (shown = NoAnswer \/ shown \in Outcome)
  BY DEF ScreenTypes
<1>2. UNCHANGED <<page, engine, calls>>
  BY DEF Type, Choose, DebounceFires, SearchStarts, SearchAnswers, SearchRejects
<1>0. \A k \in DOMAIN chain : chain[k] \in SearchRecord /\ chain[k].n \in Nat
  <2>1. \A k \in DOMAIN chain : chain[k] \in SearchRecord
    BY <1>1
  <2> QED BY <2>1 DEF SearchRecord
<1>3. ASSUME NEW q \in Query \cup {Empty}, Type(q) PROVE ScreenTypes'
  <2>1. box' \in [query: Query \cup {Empty}, level: Level] /\ box'.query = q /\ chain' = chain
    BY <1>1, <1>3 DEF Type
  <2>2. timer' \in BOOLEAN /\ (timer' => q # Empty) /\ seq' \in Nat /\ seq <= seq'
        /\ (shown' = NoAnswer \/ shown' \in Outcome)
    <3>1. CASE q = Empty
      <4>1. seq' = seq + 1 /\ shown' = NoAnswer /\ timer' = FALSE
        BY <1>3, <3>1 DEF Type
      <4>2. timer' \in BOOLEAN /\ ~timer'
        BY <4>1
      <4>3. seq' \in Nat /\ seq <= seq'
        BY <1>1, <4>1
      <4> QED BY <4>1, <4>2, <4>3
    <3>2. CASE q # Empty
      BY <1>1, <1>3, <3>2 DEF Type
    <3> QED BY <3>1, <3>2
  <2>3. \A k \in DOMAIN chain : chain[k].n <= seq'
    BY <1>0, <1>1, <2>2
  <2> QED BY <1>1, <1>2, <2>1, <2>2, <2>3 DEF ScreenTypes
<1>4. ASSUME NEW l \in Level, Choose(l) PROVE ScreenTypes'
  <2>1. box' \in [query: Query \cup {Empty}, level: Level] /\ box'.query = box.query
    BY <1>1, <1>4 DEF Choose
  <2>2. timer' \in BOOLEAN /\ (timer' => box.query # Empty) /\ UNCHANGED <<chain, shown, seq>>
    BY <1>4 DEF Choose
  <2> QED BY <1>1, <1>2, <2>1, <2>2 DEF ScreenTypes
<1>5. CASE DebounceFires
  <2> DEFINE s == [n |-> seq + 1, query |-> box.query, level |-> box.level,
                   lists |-> engine.lists, on |-> FALSE]
  <2>1. s \in SearchRecord /\ s.n = seq + 1
    BY <1>1, <1>5 DEF DebounceFires, SearchRecord, EngineRecord
  <2>2. \/ seq' = seq + 1 /\ chain' = Append(chain, s)
        \/ UNCHANGED <<seq, chain>>
    BY <1>5 DEF DebounceFires
  <2>3. timer' = FALSE /\ UNCHANGED <<box, shown>>
    BY <1>5 DEF DebounceFires
  <2> HIDE DEF s
  <2>4. seq' \in Nat /\ chain' \in Seq(SearchRecord) /\ \A k \in DOMAIN chain' : chain'[k].n <= seq'
    <3>1. CASE seq' = seq + 1 /\ chain' = Append(chain, s)
      <4>1. chain' \in Seq(SearchRecord) /\ Len(chain') = Len(chain) + 1
            /\ chain'[Len(chain) + 1] = s /\ \A k \in 1..Len(chain) : chain'[k] = chain[k]
        BY <1>1, <2>1, <3>1
      <4>2. \A k \in DOMAIN chain : chain[k].n <= seq'
        BY <1>0, <1>1, <3>1
      <4>3. \A k \in DOMAIN chain' : k \in DOMAIN chain \/ k = Len(chain) + 1
        BY <1>1, <4>1
      <4> QED BY <1>1, <2>1, <3>1, <4>1, <4>2, <4>3
    <3>2. CASE UNCHANGED <<seq, chain>>
      BY <1>1, <3>2
    <3> QED BY <2>2, <3>1, <3>2
  <2> QED BY <1>1, <1>2, <2>3, <2>4 DEF ScreenTypes
<1>6. ASSUME chain # <<>>
      PROVE  /\ Tail(chain) \in Seq(SearchRecord) /\ Head(chain) \in SearchRecord
             /\ \A k \in DOMAIN Tail(chain) : Tail(chain)[k].n <= seq
  BY <1>1, <1>6
<1>7. CASE SearchStarts
  <2>1. chain # <<>> /\ UNCHANGED <<box, timer, shown, seq>>
    BY <1>7 DEF SearchStarts
  <2>2. CASE chain' = Tail(chain)
    BY <1>1, <1>2, <1>6, <2>1, <2>2 DEF ScreenTypes
  <2>3. CASE chain' = [chain EXCEPT ![1].on = TRUE]
    <3>1. 1 \in DOMAIN chain /\ chain[1] \in SearchRecord
      BY <1>1, <2>1
    <3> DEFINE s == [chain[1] EXCEPT !.on = TRUE]
    <3>2. s \in SearchRecord /\ s.n = chain[1].n
      BY <3>1 DEF SearchRecord
    <3>3. chain' = [chain EXCEPT ![1] = s]
      BY <2>3
    <3> HIDE DEF s
    <3>4. chain' \in Seq(SearchRecord) /\ \A k \in DOMAIN chain' : chain'[k].n <= seq
      BY <1>1, <3>1, <3>2, <3>3
    <3> QED BY <1>1, <1>2, <2>1, <3>4 DEF ScreenTypes
  <2> QED BY <1>7, <2>2, <2>3 DEF SearchStarts
<1>8. CASE SearchAnswers
  <2> DEFINE s == Head(chain)
             none == Found(s.query, s.level) \cap s.lists = {}
             o == [kind |-> "matches", query |-> s.query, level |-> s.level, lists |-> s.lists,
                   none |-> none]
  <2>1. chain # <<>> /\ chain' = Tail(chain) /\ UNCHANGED <<box, timer, seq>> /\ Shows(o)
    BY <1>8 DEF SearchAnswers
  <2>2. none \in BOOLEAN /\ s \in SearchRecord
    BY <1>6, <2>1
  <2> HIDE DEF none, s
  <2>3. o \in Outcome
    BY <2>2 DEF Outcome, SearchRecord
  <2> HIDE DEF o
  <2> QED BY <1>1, <1>2, <1>6, <2>1, <2>3, ShowsTyped DEF ScreenTypes
<1>9. CASE SearchRejects
  <2> DEFINE o == [kind |-> "error", query |-> Head(chain).query]
  <2>1. chain # <<>> /\ chain' = Tail(chain) /\ UNCHANGED <<box, timer, seq>> /\ Shows(o)
    BY <1>9 DEF SearchRejects
  <2>2. o \in Outcome
    BY <1>6, <2>1 DEF Outcome, SearchRecord
  <2> HIDE DEF o
  <2> QED BY <1>1, <1>2, <1>6, <2>1, <2>2, ShowsTyped DEF ScreenTypes
<1> QED BY <1>3, <1>4, <1>5, <1>7, <1>8, <1>9

\* Every step keeps the types.
LEMMA ScreenTypesStep == ASSUME ScreenTypes, [ScreenNext]_screenVars PROVE ScreenTypes'
<1>1. CASE UNCHANGED screenVars
  BY <1>1 DEF screenVars, ScreenTypes
<1>2. CASE ScreenNext
  BY <1>2, AnswersTyped, ButtonsTyped, SearchesTyped DEF ScreenNext
<1> QED BY <1>1, <1>2

\* They hold all along.
LEMMA ScreenTypesHold == ScreenSpec => []ScreenTypes
BY ScreenTypesInit, ScreenTypesStep, PTL DEF ScreenSpec

\* And they say more than ScreenTypeOK.
LEMMA ScreenTypesImply == ASSUME ScreenTypes PROVE ScreenTypeOK
<1>1. page.phase \in {"booting", "ready", "error", "unsupported"} /\ page.scope \in Scope
  BY DEF ScreenTypes, PageRecord
<1>2. \A k \in DOMAIN chain : chain[k].n \in 1..seq
  <2>1. \A k \in DOMAIN chain : chain[k] \in SearchRecord /\ chain[k].n <= seq
    BY DEF ScreenTypes
  <2>2. seq \in Nat
    BY DEF ScreenTypes
  <2> QED BY <2>1, <2>2 DEF SearchRecord
<1> QED BY <1>1, <1>2 DEF ScreenTypes, ScreenTypeOK

\* ScreenPage.tsx: the phase, the scope, what is shown and the searches under way stay of
\* their kind, however often the page boots, reloads, clears and is typed into.
THEOREM ScreenTypeCorrect == ScreenSpec => []ScreenTypeOK
BY ScreenTypesHold, ScreenTypesImply, PTL

-----------------------------------------------------------------------------
\* A boot that may still resolve: what is behind it.
LiveBoots(q, p) ==
  \A k \in DOMAIN q : q[k].kind = "boot" /\ q[k].live =>
    /\ \E j \in DOMAIN q : q[j].current
    /\ \A j \in DOMAIN q : q[j].kind = "clear" => j = 1
    /\ \A j \in DOMAIN q : q[j].kind = "boot" /\ j > k =>
         p.catalog = "unread" /\ \A i \in DOMAIN q : q[i].kind = "catalog" => i > j
BootsInv(q, p, e) ==
  \A k \in DOMAIN q :
    /\ q[k].kind = "boot" =>
         /\ q[k].scope = p.scope /\ p.scope # "all-lists-streaming"
         /\ p.phase = "error" => e.promise # "none"
         /\ \A j \in DOMAIN q : q[j].kind = "boot" /\ j # k => e.promise # "none"
    /\ q[k].current => q[k].kind = "boot" /\ \A j \in DOMAIN q : q[j].kind = "boot" => j <= k
ReloadsInv(q, p) ==
  \A k \in DOMAIN q : q[k].kind = "reload" =>
    /\ p.phase = "booting" /\ p.scope = "all-lists-streaming"
    /\ q[k].scope = p.scope
    /\ \A j \in DOMAIN q : (q[j].kind = "clear" => j < k) /\ (q[j].kind = "reload" => j = k)
ClearsInv(q, p, e) ==
  \A k \in DOMAIN q : q[k].kind = "clear" =>
    /\ q[k].scope = p.scope /\ p.phase # "ready"
    /\ p.phase = "error" => p.card \in {"idle", "clearing"}
    /\ \A j \in DOMAIN q : (q[j].kind = "catalog" => j < k) /\ (q[j].kind = "clear" => j = k)
    /\ \A j \in DOMAIN q : q[j].kind = "boot" =>
         /\ e.promise # "none" /\ (j < k => ~q[j].current)
         /\ j > k => p.phase # "error" /\ \A i \in DOMAIN q : q[i].kind = "boot" => i = j
ReadyInv(q, p, e) ==
  p.phase = "ready" =>
    /\ e.ready /\ e.lists = ListsOf(p.scope)
    /\ \A k \in DOMAIN q : q[k].kind = "boot" =>
         p.catalog = "unread" /\ \A j \in DOMAIN q : q[j].kind = "catalog" => j > k
MountInv(q, p) ==
  /\ p.disposal = "none" /\ \A k \in DOMAIN q : q[k].kind # "dispose"
  /\ ~p.booted => q = <<>> /\ p.scope # "all-lists-streaming"
                     /\ p.phase \in {"booting", "unsupported"}
QueueOfPage(q, p, e) ==
  /\ MountInv(q, p) /\ LiveBoots(q, p) /\ BootsInv(q, p, e)
  /\ ReloadsInv(q, p) /\ ClearsInv(q, p, e) /\ ReadyInv(q, p, e)

OfTheBox(s) == s.query = box.query /\ s.level = box.level /\ s.lists = ListsOf(page.scope)
AnswersTheBox ==
  shown # NoAnswer =>
    shown.query = box.query /\ (shown.kind = "matches" => OfTheBox(shown))
Searched ==
  page.phase = "ready" /\ box.query # Empty /\ ~timer =>
     /\ \A k \in DOMAIN chain : chain[k].n = seq => OfTheBox(chain[k])
     /\ (\E k \in DOMAIN chain : chain[k].n = seq) \/ AnswersTheBox
ScreenInv == ScreenTypes /\ (page.alive => QueueOfPage(calls, page, engine) /\ Searched)

-----------------------------------------------------------------------------
\* The numbers of a queue, the call at its head and those behind it.
LEMMA QueueNumbers ==
    ASSUME NEW q \in Seq(CallRecord)
    PROVE  /\ Len(q) \in Nat /\ DOMAIN q = 1..Len(q)
           /\ \A k \in DOMAIN q : q[k] \in CallRecord
           /\ q # <<>> =>
                /\ Len(q) > 0 /\ 1 \in DOMAIN q /\ Head(q) = q[1]
                /\ Tail(q) \in Seq(CallRecord) /\ DOMAIN Tail(q) = 1..(Len(q) - 1)
                /\ Len(Tail(q)) = Len(q) - 1
                /\ \A k \in 1..(Len(q) - 1) : Tail(q)[k] = q[k + 1]
OBVIOUS

\* A call at the end of a queue.
LEMMA CallAppended ==
    ASSUME NEW q \in Seq(CallRecord), NEW c \in CallRecord
    PROVE  /\ Append(q, c) \in Seq(CallRecord) /\ DOMAIN Append(q, c) = 1..(Len(q) + 1)
           /\ \A k \in 1..Len(q) : Append(q, c)[k] = q[k]
           /\ Append(q, c)[Len(q) + 1] = c
OBVIOUS

\* Arithmetic of the positions in a queue.
LEMMA Positions ==
    ASSUME NEW n \in Nat
    PROVE  /\ \A k \in Nat : k > 0 /\ k < n => k \in 1..(n - 1) /\ k + 1 \in 1..n
           /\ \A k \in 1..n : k \in Nat /\ k > 0
           /\ \A k \in 1..n : k > 1 => k - 1 \in 1..(n - 1) /\ k - 1 \in 1..n /\ (k - 1) + 1 = k
           /\ \A k \in Nat : k + 1 \in 1..n => k < n
           /\ \A c \in 1..n : \A k \in Nat : k + 1 > 1 /\ k + 1 <= c => c > 1
OBVIOUS

\* The head is answered, and a read of the catalog may go to the end.
LEMMA PopKeeps ==
    ASSUME NEW q \in Seq(CallRecord), NEW p, NEW e, QueueOfPage(q, p, e), q # <<>>, NEW t, NEW p2, NEW e2,
           NEW n \in Nat, DOMAIN t = 1..n, n \in {Len(q) - 1, Len(q)},
           \A k \in 1..(Len(q) - 1) : t[k] = q[k + 1],
           n = Len(q) =>
             /\ t[n].kind = "catalog" /\ ~t[n].current
             /\ \A k \in DOMAIN q : k > 1 => ~q[k].kind = "clear",
           p2.scope = p.scope, p2.disposal = p.disposal, p2.booted = p.booted,
           \A k \in DOMAIN q : k > 1 /\ q[k].kind = "boot" =>
             (p2.phase = "error" => e2.promise # "none"),
           \A k, j \in DOMAIN q : k > 1 /\ j > 1 /\ j # k /\ q[k].kind = "boot" /\ q[j].kind = "boot" =>
             e2.promise # "none",
           \A k, j \in DOMAIN q : k > 1 /\ j > k /\ q[k].kind = "boot" /\ q[k].live /\ q[j].kind = "boot" =>
             p2.catalog = "unread",
           p2.phase = "ready" =>
             /\ e2.ready /\ e2.lists = ListsOf(p.scope)
             /\ \A k \in DOMAIN q : k > 1 =>
                  ~q[k].kind = "clear" /\ (q[k].kind = "boot" => p2.catalog = "unread"
                       /\ \A j \in DOMAIN q : j > 1 /\ q[j].kind = "catalog" => j > k),
           \A k \in DOMAIN q : k > 1 /\ q[k].kind = "reload" => p2.phase = "booting",
           \A k \in DOMAIN q : k > 1 /\ q[k].kind = "clear" =>
             /\ p2.phase = "error" => p2.card \in {"idle", "clearing"}
             /\ \A j \in DOMAIN q : j > 1 /\ q[j].kind = "boot" =>
                  e2.promise # "none" /\ (j > k => p2.phase # "error")
    PROVE  QueueOfPage(t, p2, e2)
<1>1. q \in Seq(CallRecord)
  OBVIOUS
<1>2. Len(q) \in Nat /\ Len(q) > 0 /\ DOMAIN q = 1..Len(q) /\ 1 \in DOMAIN q
  BY <1>1, QueueNumbers
<1>3. \A k \in DOMAIN t :
        /\ k \in Nat /\ k > 0
        /\ \/ k + 1 \in DOMAIN q /\ k < Len(q) /\ t[k] = q[k + 1]
           \/ /\ n = Len(q) /\ k = n /\ t[k].kind = "catalog" /\ ~t[k].current
              /\ \A j \in DOMAIN q : j > 1 => ~q[j].kind = "clear"
  <2> TAKE k \in DOMAIN t
  <2>1. k \in 1..n /\ k \in Nat /\ k > 0
    OBVIOUS
  <2>2. CASE k < Len(q)
    <3>1. k \in 1..(Len(q) - 1) /\ k + 1 \in DOMAIN q
      BY <1>2, <2>1, <2>2, Positions
    <3> QED BY <2>1, <2>2, <3>1
  <2>3. CASE ~(k < Len(q))
    <3>1. n = Len(q) /\ k = n
      BY <1>2, <2>1, <2>3
    <3> QED BY <2>1, <3>1
  <2> QED BY <2>2, <2>3
<1>4. \A k \in DOMAIN q : k > 1 =>
        k - 1 \in DOMAIN t /\ t[k - 1] = q[k]
  <2> TAKE k \in DOMAIN q
  <2> HAVE k > 1
  <2>1. k - 1 \in 1..(Len(q) - 1) /\ k - 1 \in 1..n /\ (k - 1) + 1 = k
    BY <1>2, Positions
  <2>2. t[k - 1] = q[(k - 1) + 1]
    BY <2>1
  <2> QED BY <2>1, <2>2
<1>5. ASSUME NEW k \in DOMAIN t, t[k].kind # "catalog" \/ t[k].current
      PROVE  k + 1 \in DOMAIN q /\ k + 1 > 1 /\ k \in Nat /\ t[k] = q[k + 1]
  BY <1>3, <1>5
<1>6. MountInv(t, p2)
  <2>1. \A k \in DOMAIN t : t[k].kind # "dispose"
    BY <1>5 DEF QueueOfPage, MountInv
  <2>2. p.booted
    BY DEF QueueOfPage, MountInv
  <2> QED BY <2>1, <2>2 DEF QueueOfPage, MountInv
<1>7. LiveBoots(t, p2)
  <2> SUFFICES ASSUME NEW k \in DOMAIN t, t[k].kind = "boot", t[k].live
               PROVE  /\ \E j \in DOMAIN t : t[j].current
                      /\ \A j \in DOMAIN t : t[j].kind = "clear" => j = 1
                      /\ \A j \in DOMAIN t : t[j].kind = "boot" /\ j > k =>
                           /\ p2.catalog = "unread"
                           /\ \A i \in DOMAIN t : t[i].kind = "catalog" => i > j
    BY DEF LiveBoots
  <2>1. k + 1 \in DOMAIN q /\ k + 1 > 1 /\ k \in Nat /\ t[k] = q[k + 1]
        /\ q[k + 1].kind = "boot" /\ q[k + 1].live
    BY <1>5
  <2>2. PICK c \in DOMAIN q : q[c].current
    BY <2>1 DEF QueueOfPage, LiveBoots
  <2>3. c > 1
    <3>1. k + 1 <= c
      BY <2>1, <2>2 DEF QueueOfPage, BootsInv
    <3> QED BY <1>2, <2>1, <2>2, <3>1, Positions
  <2>4. \E j \in DOMAIN t : t[j].current
    BY <1>4, <2>2, <2>3
  <2>5. \A j \in DOMAIN t : t[j].kind # "clear"
    BY <1>5, <2>1 DEF QueueOfPage, LiveBoots
  <2>6. ASSUME NEW j \in DOMAIN t, t[j].kind = "boot", j > k
        PROVE  /\ p2.catalog = "unread"
               /\ \A i \in DOMAIN t : t[i].kind = "catalog" => i > j
    <3>1. j + 1 \in DOMAIN q /\ j + 1 > k + 1 /\ q[j + 1].kind = "boot" /\ j \in Nat
      BY <1>5, <2>1, <2>6
    <3>2. p2.catalog = "unread"
      BY <2>1, <3>1
    <3>3. \A i \in DOMAIN q : q[i].kind = "catalog" => i > j + 1
      BY <2>1, <3>1 DEF QueueOfPage, LiveBoots
    <3>4. j < Len(q) /\ Len(q) \in Nat
      BY <1>2, <3>1, Positions
    <3>5. ASSUME NEW i \in DOMAIN t, t[i].kind = "catalog" PROVE i > j
      <4>1. CASE i + 1 \in DOMAIN q /\ t[i] = q[i + 1]
        <5>1. i + 1 > j + 1 /\ i \in Nat
          BY <1>3, <3>3, <3>5, <4>1
        <5> QED BY <3>1, <5>1
      <4>2. CASE i = Len(q)
        BY <3>4, <4>2
      <4> QED BY <1>3, <4>1, <4>2
    <3> QED BY <3>2, <3>5
  <2> QED BY <2>4, <2>5, <2>6
<1>8. BootsInv(t, p2, e2)
  <2>1. ASSUME NEW k \in DOMAIN t, t[k].kind = "boot"
        PROVE  /\ t[k].scope = p2.scope /\ p2.scope # "all-lists-streaming"
               /\ p2.phase = "error" => e2.promise # "none"
               /\ \A j \in DOMAIN t : t[j].kind = "boot" /\ j # k => e2.promise # "none"
    <3>1. k + 1 \in DOMAIN q /\ k + 1 > 1 /\ k \in Nat /\ t[k] = q[k + 1] /\ q[k + 1].kind = "boot"
      BY <1>5, <2>1
    <3>2. ASSUME NEW j \in DOMAIN t, t[j].kind = "boot", j # k
          PROVE  e2.promise # "none"
      <4>1. j + 1 \in DOMAIN q /\ j + 1 > 1 /\ j \in Nat /\ q[j + 1].kind = "boot"
        BY <1>5, <3>2
      <4> QED BY <3>1, <3>2, <4>1
    <3> QED BY <3>1, <3>2 DEF QueueOfPage, BootsInv
  <2>2. ASSUME NEW k \in DOMAIN t, t[k].current
        PROVE  t[k].kind = "boot" /\ \A j \in DOMAIN t : t[j].kind = "boot" => j <= k
    <3>1. k + 1 \in DOMAIN q /\ k \in Nat /\ t[k] = q[k + 1] /\ q[k + 1].current
      BY <1>5, <2>2
    <3>2. \A j \in DOMAIN t : t[j].kind = "boot" => j + 1 <= k + 1 /\ j \in Nat
      BY <1>5, <3>1 DEF QueueOfPage, BootsInv
    <3> QED BY <3>1, <3>2 DEF QueueOfPage, BootsInv
  <2> QED BY <2>1, <2>2 DEF BootsInv
<1>9. ReloadsInv(t, p2)
  <2> SUFFICES ASSUME NEW k \in DOMAIN t, t[k].kind = "reload"
               PROVE  /\ p2.phase = "booting" /\ p2.scope = "all-lists-streaming"
                      /\ t[k].scope = p2.scope
                      /\ \A j \in DOMAIN t : (t[j].kind = "clear" => j < k)
                                                 /\ (t[j].kind = "reload" => j = k)
    BY DEF ReloadsInv
  <2>1. k + 1 \in DOMAIN q /\ k + 1 > 1 /\ k \in Nat /\ t[k] = q[k + 1] /\ q[k + 1].kind = "reload"
    BY <1>5
  <2>2. \A j \in DOMAIN t : (t[j].kind = "clear" => j + 1 < k + 1 /\ j \in Nat)
                              /\ (t[j].kind = "reload" => j + 1 = k + 1 /\ j \in Nat)
    BY <1>5, <2>1 DEF QueueOfPage, ReloadsInv
  <2> QED BY <2>1, <2>2 DEF QueueOfPage, ReloadsInv
<1>10. ClearsInv(t, p2, e2)
  <2> SUFFICES ASSUME NEW k \in DOMAIN t, t[k].kind = "clear"
               PROVE  /\ t[k].scope = p2.scope /\ p2.phase # "ready"
                      /\ p2.phase = "error" => p2.card \in {"idle", "clearing"}
                      /\ \A j \in DOMAIN t : (t[j].kind = "catalog" => j < k)
                                                 /\ (t[j].kind = "clear" => j = k)
                      /\ \A j \in DOMAIN t : t[j].kind = "boot" =>
                           /\ e2.promise # "none" /\ (j < k => ~t[j].current)
                           /\ j > k => p2.phase # "error" /\ \A i \in DOMAIN t : t[i].kind = "boot" => i = j
    BY DEF ClearsInv
  <2>1. k + 1 \in DOMAIN q /\ k + 1 > 1 /\ k \in Nat /\ t[k] = q[k + 1] /\ q[k + 1].kind = "clear"
    BY <1>5
  <2>2. n # Len(q)
    BY <2>1
  <2>3. \A j \in DOMAIN t : j + 1 \in DOMAIN q /\ j + 1 > 1 /\ j \in Nat /\ t[j] = q[j + 1]
    BY <1>3, <2>2
  <2>4. \A j \in DOMAIN t : (t[j].kind = "catalog" => j + 1 < k + 1)
                              /\ (t[j].kind = "clear" => j + 1 = k + 1)
    BY <2>1, <2>3 DEF QueueOfPage, ClearsInv
  <2>5. ASSUME NEW j \in DOMAIN t, t[j].kind = "boot"
        PROVE  /\ e2.promise # "none" /\ (j < k => ~t[j].current)
               /\ j > k => p2.phase # "error" /\ \A i \in DOMAIN t : t[i].kind = "boot" => i = j
    <3>1. q[j + 1].kind = "boot" /\ j + 1 \in DOMAIN q /\ j + 1 > 1 /\ j \in Nat /\ t[j] = q[j + 1]
      BY <2>3, <2>5
    <3>2. e2.promise # "none" /\ (j + 1 > k + 1 => p2.phase # "error")
      BY <2>1, <3>1
    <3>5. j > k => p2.phase # "error"
      BY <2>1, <3>1, <3>2
    <3>3. j < k => ~t[j].current
      BY <2>1, <3>1 DEF QueueOfPage, ClearsInv
    <3>4. ASSUME j > k, NEW i \in DOMAIN t, t[i].kind = "boot" PROVE i = j
      <4>1. i + 1 \in DOMAIN q /\ q[i + 1].kind = "boot" /\ i \in Nat
        BY <2>3, <3>4
      <4>2. j + 1 > k + 1
        BY <2>1, <3>1, <3>4
      <4>3. \A a \in DOMAIN q : q[a].kind = "boot" => a = j + 1
        BY <2>1, <3>1, <4>2 DEF QueueOfPage, ClearsInv
      <4>4. i + 1 = j + 1
        BY <4>1, <4>3
      <4> QED BY <3>1, <4>1, <4>4
    <3> QED BY <3>2, <3>3, <3>4, <3>5
  <2>6. t[k].scope = p2.scope /\ p2.phase # "ready"
        /\ (p2.phase = "error" => p2.card \in {"idle", "clearing"})
    BY <2>1 DEF QueueOfPage, ClearsInv
  <2>7. \A j \in DOMAIN t : (t[j].kind = "catalog" => j < k)
                              /\ (t[j].kind = "clear" => j = k)
    BY <2>1, <2>3, <2>4
  <2> QED BY <2>5, <2>6, <2>7
<1>11. ReadyInv(t, p2, e2)
  <2> SUFFICES ASSUME p2.phase = "ready"
               PROVE  /\ e2.ready /\ e2.lists = ListsOf(p2.scope)
                      /\ \A k \in DOMAIN t : t[k].kind = "boot" =>
                           /\ p2.catalog = "unread"
                           /\ \A j \in DOMAIN t : t[j].kind = "catalog" => j > k
    BY DEF ReadyInv
  <2>1. e2.ready /\ e2.lists = ListsOf(p2.scope)
    OBVIOUS
  <2>2. ASSUME NEW k \in DOMAIN t, t[k].kind = "boot"
        PROVE  /\ p2.catalog = "unread"
               /\ \A j \in DOMAIN t : t[j].kind = "catalog" => j > k
    <3>1. k + 1 \in DOMAIN q /\ k + 1 > 1 /\ k \in Nat /\ t[k] = q[k + 1] /\ q[k + 1].kind = "boot"
      BY <1>5, <2>2
    <3>2. p2.catalog = "unread" /\ \A j \in DOMAIN q : j > 1 /\ q[j].kind = "catalog" => j > k + 1
      BY <3>1
    <3>3. k < Len(q) /\ Len(q) \in Nat
      BY <1>2, <3>1, Positions
    <3>4. ASSUME NEW j \in DOMAIN t, t[j].kind = "catalog" PROVE j > k
      <4>1. CASE j + 1 \in DOMAIN q /\ t[j] = q[j + 1]
        <5>1. j + 1 > k + 1 /\ j \in Nat
          BY <1>3, <3>2, <3>4, <4>1
        <5> QED BY <3>1, <5>1
      <4>2. CASE j = Len(q)
        BY <3>3, <4>2
      <4> QED BY <1>3, <4>1, <4>2
    <3> QED BY <3>2, <3>4
  <2> QED BY <2>1, <2>2
<1> QED BY <1>6, <1>7, <1>8, <1>9, <1>10, <1>11 DEF QueueOfPage

\* A reload that is appended runs alone: no boot is left by then.
LEMMA PushesReload ==
    ASSUME NEW q \in Seq(CallRecord), NEW p, NEW e, NEW c \in CallRecord, QueueOfPage(q, p, e),
           c.kind = "reload", c.scope = p.scope, ~c.current,
           p.phase = "booting", p.scope = "all-lists-streaming", p.booted,
           \A k \in DOMAIN q : q[k].kind # "reload"
    PROVE  QueueOfPage(Append(q, c), p, e)
<1> DEFINE t == Append(q, c)
           n == Len(q) + 1
<1>1. Len(q) \in Nat /\ DOMAIN q = 1..Len(q) /\ n \in Nat
  BY QueueNumbers
<1>2. DOMAIN t = 1..n /\ t[n] = c /\ \A k \in 1..Len(q) : t[k] = q[k]
  BY CallAppended
<1>3. \A k \in DOMAIN t : k = n \/ (k \in DOMAIN q /\ k < n)
  BY <1>1, <1>2
<1>4. \A k \in DOMAIN q : k \in DOMAIN t /\ t[k] = q[k]
  BY <1>1, <1>2
<1>5. \A k \in DOMAIN q : q[k].kind # "boot" /\ ~q[k].current
  BY DEF QueueOfPage, BootsInv
<1> HIDE DEF t, n
<1>6. \A k \in DOMAIN t :
        \/ k = n /\ t[k].kind = "reload" /\ ~t[k].current /\ t[k].scope = p.scope
        \/ /\ k \in DOMAIN q /\ k < n /\ t[k] = q[k]
           /\ t[k].kind # "boot" /\ t[k].kind # "reload" /\ ~t[k].current
  BY <1>2, <1>3, <1>4, <1>5
<1>7. MountInv(t, p)
  BY <1>6 DEF QueueOfPage, MountInv
<1>8. LiveBoots(t, p) /\ BootsInv(t, p, e) /\ ReadyInv(t, p, e)
  BY <1>6 DEF LiveBoots, BootsInv, ReadyInv
<1>9. ReloadsInv(t, p)
  <2> SUFFICES ASSUME NEW k \in DOMAIN t, t[k].kind = "reload", NEW j \in DOMAIN t
               PROVE  (t[j].kind = "clear" => j < k) /\ (t[j].kind = "reload" => j = k)
                      /\ t[k].scope = p.scope
    BY DEF ReloadsInv
  <2> QED BY <1>6
<1>10. ClearsInv(t, p, e)
  <2> SUFFICES ASSUME NEW k \in DOMAIN t, t[k].kind = "clear"
               PROVE  /\ t[k].scope = p.scope
                      /\ \A j \in DOMAIN t : (t[j].kind = "catalog" => j < k)
                                                 /\ (t[j].kind = "clear" => j = k)
    BY <1>6 DEF ClearsInv
  <2>1. k \in DOMAIN q /\ q[k].kind = "clear" /\ t[k] = q[k]
    BY <1>6
  <2>2. q[k].scope = p.scope /\ \A j \in DOMAIN q : (q[j].kind = "catalog" => j < k)
                                                 /\ (q[j].kind = "clear" => j = k)
    BY <2>1 DEF QueueOfPage, ClearsInv
  <2> QED BY <1>6, <2>1, <2>2
<1> QED BY <1>7, <1>8, <1>9, <1>10 DEF QueueOfPage, t

\* A boot that is appended is the current one.
LEMMA PushesBoot ==
    ASSUME NEW q \in Seq(CallRecord), NEW p, NEW e, NEW e2, NEW r \in Seq(CallRecord),
           NEW c \in CallRecord, QueueOfPage(q, p, e),
           Len(r) = Len(q),
           \A k \in 1..Len(q) : /\ r[k].kind = q[k].kind /\ r[k].scope = q[k].scope
                                /\ (r[k].live <=> q[k].live) /\ ~r[k].current,
           c.kind = "boot", c.scope = p.scope, c.current, c.live <=> ~Torn(q),
           p.phase \notin {"ready", "error"}, p.scope # "all-lists-streaming", p.booted,
           e2.promise = "pending",
           \A k \in DOMAIN q : q[k].kind = "boot" =>
              p.catalog = "unread" /\ \A j \in DOMAIN q : q[j].kind \notin {"catalog", "clear"}
    PROVE  QueueOfPage(Append(r, c), p, e2)
<1> DEFINE t == Append(r, c)
           n == Len(q) + 1
<1>1. Len(q) \in Nat /\ DOMAIN q = 1..Len(q) /\ n \in Nat
  BY QueueNumbers
<1>2. DOMAIN t = 1..n /\ t[n] = c /\ \A k \in 1..Len(q) : t[k] = r[k]
  BY CallAppended
<1>3. \A k \in DOMAIN t : k = n \/ (k \in DOMAIN q /\ k < n)
  BY <1>1, <1>2
<1>4. n \in DOMAIN t /\ \A k \in DOMAIN q : k \in DOMAIN t /\ k \in 1..Len(q) /\ k < n
  BY <1>1, <1>2
<1>5. \A k \in DOMAIN q : q[k].kind # "reload"
  BY DEF QueueOfPage, ReloadsInv
<1>6. c.live => \A k \in DOMAIN q : q[k].kind = "clear" => k = 1
  <2> SUFFICES ASSUME c.live, NEW k \in DOMAIN q, q[k].kind = "clear", k # 1 PROVE FALSE
    OBVIOUS
  <2>1. k \in 2..Len(q)
    BY <1>1
  <2> QED BY <2>1 DEF Torn
<1> HIDE DEF t, n
<1>7. \A k \in DOMAIN t :
        \/ /\ k = n /\ t[k].kind = "boot" /\ t[k].current /\ t[k].scope = p.scope
           /\ (t[k].live <=> c.live)
        \/ /\ k \in DOMAIN q /\ k < n /\ ~t[k].current /\ t[k].kind = q[k].kind
           /\ t[k].scope = q[k].scope /\ (t[k].live <=> q[k].live)
  <2> TAKE k \in DOMAIN t
  <2>1. CASE k = n
    BY <1>2, <2>1
  <2>2. CASE k \in DOMAIN q /\ k < n
    BY <1>2, <1>4, <2>2
  <2> QED BY <1>3, <2>1, <2>2
<1>8. MountInv(t, p)
  BY <1>7 DEF QueueOfPage, MountInv
<1>9. LiveBoots(t, p)
  <2> SUFFICES ASSUME NEW k \in DOMAIN t, t[k].kind = "boot", t[k].live
               PROVE  /\ \E j \in DOMAIN t : t[j].current
                      /\ \A j \in DOMAIN t : t[j].kind = "clear" => j = 1
                      /\ \A j \in DOMAIN t : t[j].kind = "boot" /\ j > k =>
                           /\ p.catalog = "unread"
                           /\ \A i \in DOMAIN t : t[i].kind = "catalog" => i > j
    BY DEF LiveBoots
  <2>1. \E j \in DOMAIN t : t[j].current
    BY <1>2, <1>4
  <2>2. CASE k = n
    <3>1. c.live
      BY <1>2, <2>2
    <3>2. \A j \in DOMAIN t : t[j].kind = "clear" => j = 1
      BY <1>6, <1>7, <3>1
    <3>3. \A j \in DOMAIN t : ~(j > k)
      BY <1>1, <1>2, <2>2
    <3> QED BY <2>1, <3>2, <3>3
  <2>3. CASE k # n
    <3>1. k \in DOMAIN q /\ q[k].kind = "boot"
      BY <1>7, <2>3
    <3>2. p.catalog = "unread" /\ \A j \in DOMAIN t : t[j].kind \notin {"catalog", "clear"}
      BY <1>7, <3>1
    <3> QED BY <2>1, <3>2
  <2> QED BY <2>2, <2>3
<1>10. BootsInv(t, p, e2)
  <2>1. ASSUME NEW k \in DOMAIN t, t[k].kind = "boot" PROVE t[k].scope = p.scope
    BY <1>7, <2>1 DEF QueueOfPage, BootsInv
  <2>2. ASSUME NEW k \in DOMAIN t, t[k].current
        PROVE  t[k].kind = "boot" /\ \A j \in DOMAIN t : j <= k
    BY <1>1, <1>2, <1>7, <2>2
  <2> QED BY <2>1, <2>2 DEF BootsInv
<1>11. ReloadsInv(t, p) /\ ReadyInv(t, p, e2)
  BY <1>5, <1>7 DEF ReloadsInv, ReadyInv
<1>12. ClearsInv(t, p, e2)
  <2> SUFFICES ASSUME NEW k \in DOMAIN t, t[k].kind = "clear"
               PROVE  /\ t[k].scope = p.scope
                      /\ \A j \in DOMAIN t : (t[j].kind = "catalog" => j < k)
                                                 /\ (t[j].kind = "clear" => j = k)
                      /\ \A j \in DOMAIN t : t[j].kind = "boot" =>
                           /\ j < k => ~t[j].current
                           /\ j > k => \A i \in DOMAIN t : t[i].kind = "boot" => i = j
    BY DEF ClearsInv
  <2>1. k \in DOMAIN q /\ k < n /\ q[k].kind = "clear" /\ t[k].scope = q[k].scope
    BY <1>7
  <2>2. q[k].scope = p.scope /\ \A j \in DOMAIN q : (q[j].kind = "catalog" => j < k)
                                                 /\ (q[j].kind = "clear" => j = k)
    BY <2>1 DEF QueueOfPage, ClearsInv
  <2>3. \A j \in DOMAIN q : q[j].kind # "boot"
    BY <2>1
  <2>4. \A j \in DOMAIN t : t[j].kind = "boot" => j = n
    BY <1>7, <2>3
  <2>5. \A j \in DOMAIN t : (t[j].kind = "catalog" => j < k) /\ (t[j].kind = "clear" => j = k)
    BY <1>7, <2>2
  <2>6. ~(n < k)
    BY <1>1, <2>1
  <2> QED BY <2>1, <2>2, <2>4, <2>5, <2>6
<1> QED BY <1>8, <1>9, <1>10, <1>11, <1>12 DEF QueueOfPage, t

\* A clear that is appended has superseded every boot before it.
LEMMA PushesClear ==
    ASSUME NEW q \in Seq(CallRecord), NEW p, NEW e, NEW p2, NEW e2, NEW r \in Seq(CallRecord),
           NEW c \in CallRecord, QueueOfPage(q, p, e),
           Len(r) = Len(q),
           \A k \in 1..Len(q) : /\ r[k].kind = q[k].kind /\ r[k].scope = q[k].scope
                                /\ (q[k].kind = "boot" => ~r[k].live) /\ ~r[k].current,
           c.kind = "clear", c.scope = p.scope, ~c.current,
           p.phase = "error", p.card = "confirming", p2.card = "clearing", p2.phase = p.phase,
           p2.scope = p.scope, p2.catalog = p.catalog, p2.booted = p.booted,
           p2.disposal = p.disposal, e2.promise = e.promise
    PROVE  QueueOfPage(Append(r, c), p2, e2)
<1> DEFINE t == Append(r, c)
           n == Len(q) + 1
<1>1. Len(q) \in Nat /\ DOMAIN q = 1..Len(q) /\ n \in Nat
  BY QueueNumbers
<1>2. DOMAIN t = 1..n /\ t[n] = c /\ \A k \in 1..Len(q) : t[k] = r[k]
  BY CallAppended
<1>3. \A k \in DOMAIN t : k = n \/ (k \in DOMAIN q /\ k < n)
  BY <1>1, <1>2
<1>4. \A k \in DOMAIN q : k \in DOMAIN t /\ k \in 1..Len(q) /\ k < n
  BY <1>1, <1>2
<1>5. \A k \in DOMAIN q : q[k].kind # "reload" /\ q[k].kind # "clear"
  BY DEF QueueOfPage, ReloadsInv, ClearsInv
<1>6. \A k \in DOMAIN q : q[k].kind = "boot" => ~r[k].live
  BY <1>1
<1> HIDE DEF t, n
<1>7. \A k \in DOMAIN t :
        \/ k = n /\ t[k].kind = "clear" /\ ~t[k].current /\ t[k].scope = p.scope
        \/ /\ k \in DOMAIN q /\ k < n /\ ~t[k].current /\ t[k].kind = q[k].kind
           /\ t[k].kind \notin {"reload", "clear"}
           /\ t[k].scope = q[k].scope /\ (t[k].kind = "boot" => ~t[k].live)
  <2> TAKE k \in DOMAIN t
  <2>1. CASE k = n
    BY <1>2, <2>1
  <2>2. CASE k \in DOMAIN q /\ k < n
    <3>1. t[k] = r[k] /\ k \in 1..Len(q)
      BY <1>2, <1>4, <2>2
    <3> QED BY <1>5, <1>6, <2>2, <3>1
  <2> QED BY <1>3, <2>1, <2>2
<1>8. MountInv(t, p2)
  BY <1>7 DEF QueueOfPage, MountInv
<1>9. LiveBoots(t, p2) /\ ReloadsInv(t, p2) /\ ReadyInv(t, p2, e2)
  BY <1>7 DEF LiveBoots, ReloadsInv, ReadyInv
<1>10. \A k \in DOMAIN q : q[k].kind = "boot" => e2.promise # "none"
  BY DEF QueueOfPage, BootsInv
<1>11. BootsInv(t, p2, e2)
  <2>1. ASSUME NEW k \in DOMAIN t, t[k].kind = "boot"
        PROVE  t[k].scope = p2.scope /\ p2.scope # "all-lists-streaming" /\ e2.promise # "none"
    BY <1>7, <1>10, <2>1 DEF QueueOfPage, BootsInv
  <2>2. \A k \in DOMAIN t : ~t[k].current
    BY <1>7
  <2> QED BY <2>1, <2>2 DEF BootsInv
<1>12. ClearsInv(t, p2, e2)
  <2> SUFFICES ASSUME NEW k \in DOMAIN t, t[k].kind = "clear"
               PROVE  /\ t[k].scope = p2.scope
                      /\ \A j \in DOMAIN t : (t[j].kind = "catalog" => j < k)
                                                 /\ (t[j].kind = "clear" => j = k)
                      /\ \A j \in DOMAIN t : t[j].kind = "boot" =>
                           e2.promise # "none" /\ ~t[j].current /\ ~(j > k)
    BY DEF ClearsInv
  <2>1. k = n /\ t[k].scope = p.scope
    BY <1>7
  <2>2. \A j \in DOMAIN t : (t[j].kind = "catalog" => j < k) /\ (t[j].kind = "clear" => j = k)
    BY <1>7, <2>1
  <2>3. \A j \in DOMAIN t : ~(j > k)
    BY <1>1, <1>2, <2>1
  <2>4. \A j \in DOMAIN t : t[j].kind = "boot" => e2.promise # "none" /\ ~t[j].current
    BY <1>7, <1>10
  <2> QED BY <2>1, <2>2, <2>3, <2>4
<1> QED BY <1>8, <1>9, <1>11, <1>12 DEF QueueOfPage, t

\* A boot that the page asks for.
LEMMA BootsKeeps ==
    ASSUME NEW q \in Seq(CallRecord), NEW p, NEW e \in EngineRecord, QueueOfPage(q, p, e),
           Boots(e, q), page.scope \in Scope, p.scope = page.scope,
           e.promise = "none" =>
             /\ p.phase \notin {"ready", "error"} /\ p.scope # "all-lists-streaming" /\ p.booted
             /\ \A k \in DOMAIN q : q[k].kind = "boot" =>
                  p.catalog = "unread" /\ \A j \in DOMAIN q : q[j].kind \notin {"catalog", "clear"}
    PROVE  QueueOfPage(calls', p, engine')
<1>1. CASE e.promise # "none" \/ Reloading(q)
  BY <1>1 DEF Boots
<1>2. CASE ~(e.promise # "none" \/ Reloading(q))
  <2> DEFINE live == ~Torn(q)
             c == Call("boot", page.scope, live)
  <2>1. live \in BOOLEAN
    OBVIOUS
  <2>2. engine' = [e EXCEPT !.promise = "pending"] /\ calls' = Append(Passed(q), c)
    BY <1>2 DEF Boots
  <2>3. engine'.promise = "pending"
    BY <2>2 DEF EngineRecord
  <2>4. c.live <=> ~Torn(q)
    BY DEF Call
  <2> HIDE DEF live
  <2>5. c \in CallRecord /\ c.kind = "boot" /\ c.scope = p.scope /\ c.current
    BY <2>1, CallTyped DEF CallKinds
  <2> HIDE DEF c
  <2>6. Passed(q) \in Seq(CallRecord)
    BY PassedTyped
  <2>7. QueueOfPage(Append(Passed(q), c), p, engine')
    BY <1>2, <2>3, <2>4, <2>5, <2>6, PassedTyped, PushesBoot
  <2> QED BY <2>2, <2>7
<1> QED BY <1>1, <1>2

\* A reload that the page asks for.
LEMMA ReloadsKeeps ==
    ASSUME NEW q \in Seq(CallRecord), NEW p, NEW e, QueueOfPage(q, p, e), ReloadsLists(q),
           p.phase = "booting", p.scope = "all-lists-streaming", p.booted
    PROVE  QueueOfPage(calls', p, e)
<1> DEFINE c == Call("reload", "all-lists-streaming", TRUE)
<1>1. c \in CallRecord /\ c.kind = "reload" /\ c.scope = p.scope /\ ~c.current
  BY CallTyped, ZenonT(40) DEF CallKinds, Scope
<1>2. CASE Reloading(q)
  BY <1>2 DEF ReloadsLists
<1>3. CASE ~Reloading(q)
  <2>1. calls' = Append(q, c) /\ \A k \in DOMAIN q : q[k].kind # "reload"
    BY <1>3 DEF ReloadsLists, Reloading
  <2> HIDE DEF c
  <2> QED BY <1>1, <2>1, PushesReload
<1> QED BY <1>2, <1>3

\* What a change of phase leaves of the page.
LEMMA PhaseFields ==
    ASSUME ScreenTypes, NEW phase \in {"booting", "ready", "error"}, NEW p \in PageRecord,
           PhaseIs(phase, p)
    PROVE  /\ page'.phase = phase /\ page'.scope = p.scope /\ page'.catalog = p.catalog
           /\ page'.card = p.card /\ page'.alive = p.alive /\ page'.booted = p.booted
           /\ page'.disposal = p.disposal
<1>1. page' = [p EXCEPT !.phase = phase]
  BY DEF PhaseIs
<1> QED BY <1>1 DEF PageRecord

\* The mount and the buttons keep the queue what it is.
LEMMA ButtonsKeepQueue ==
    ASSUME ScreenTypes, page.alive, QueueOfPage(calls, page, engine),
           BootEffect \/ OptIn \/ Retry \/ AskToClear \/ ConfirmClear
    PROVE  QueueOfPage(calls', page', engine')
<1>1. calls \in Seq(CallRecord) /\ page \in PageRecord /\ engine \in EngineRecord
  BY DEF ScreenTypes
<1>2. page.scope \in Scope
  BY <1>1 DEF PageRecord
<1>3. ~page.booted => calls = <<>> /\ page.scope # "all-lists-streaming"
                      /\ page.phase \in {"booting", "unsupported"}
  BY DEF QueueOfPage, MountInv
<1>4. ASSUME IncludeAllLists, page.booted,
             \A k \in DOMAIN calls : calls[k].kind \notin {"boot", "reload"},
             \A k \in DOMAIN calls : calls[k].kind = "clear" => page.scope = "all-lists-streaming"
      PROVE  QueueOfPage(calls', page', engine')
  <2> DEFINE p == [page EXCEPT !.scope = "all-lists-streaming"]
  <2>1. PhaseIs("booting", p) /\ ReloadsLists(calls) /\ engine' = engine
    BY <1>4 DEF IncludeAllLists
  <2>2. /\ p \in PageRecord /\ p.scope = "all-lists-streaming" /\ p.catalog = page.catalog
        /\ p.card = page.card /\ p.booted = page.booted /\ p.disposal = page.disposal
    BY <1>1 DEF PageRecord, Scope
  <2> HIDE DEF p
  <2>3. /\ page'.phase = "booting" /\ page'.scope = "all-lists-streaming"
        /\ page'.catalog = page.catalog /\ page'.booted = page.booted
        /\ page'.disposal = page.disposal
    BY <2>1, <2>2, PhaseFields
  <2>4. ClearsInv(calls, page', engine)
    BY <1>4, <2>3 DEF QueueOfPage, ClearsInv
  <2>5. QueueOfPage(calls, page', engine)
    BY <1>4, <2>3, <2>4 DEF QueueOfPage, MountInv, LiveBoots, BootsInv, ReloadsInv, ReadyInv
  <2> QED BY <1>1, <1>4, <2>1, <2>3, <2>5, ReloadsKeeps
<1>5. CASE BootEffect
  <2>1. ~page.booted /\ Boots(engine, calls) /\ page' = [page EXCEPT !.booted = TRUE]
    BY <1>5 DEF BootEffect
  <2>2. /\ page'.phase = page.phase /\ page'.scope = page.scope /\ page'.booted
        /\ page'.disposal = page.disposal
    BY <1>1, <2>1 DEF PageRecord
  <2>3. calls = <<>> /\ DOMAIN calls = {}
    BY <1>3, <2>1
  <2>4. page.disposal = "none"
    BY DEF QueueOfPage, MountInv
  <2>5. QueueOfPage(calls, page', engine)
    BY <1>3, <2>1, <2>2, <2>3, <2>4
      DEF QueueOfPage, MountInv, LiveBoots, BootsInv, ReloadsInv, ClearsInv, ReadyInv
  <2> QED BY <1>1, <1>2, <1>3, <2>1, <2>2, <2>3, <2>5, BootsKeeps
<1>6. CASE OptIn
  <2>1. page.phase = "ready" /\ page.catalog # "unread" /\ IncludeAllLists
    BY <1>6 DEF OptIn
  <2>2. \A k \in DOMAIN calls : calls[k].kind \notin {"boot", "reload", "clear"}
    BY <2>1 DEF QueueOfPage, ReadyInv, ReloadsInv, ClearsInv
  <2> QED BY <1>3, <1>4, <2>1, <2>2
<1>7. CASE Retry
  <2>1. page.phase = "error" /\ page.booted /\ OnRetry
    BY <1>3, <1>7 DEF Retry
  <2>2. \A k \in DOMAIN calls : calls[k].kind # "reload"
    BY <2>1 DEF QueueOfPage, ReloadsInv
  <2>3. CASE page.scope = "all-lists-streaming"
    <3>1. \A k \in DOMAIN calls : calls[k].kind # "boot"
      BY <2>3 DEF QueueOfPage, BootsInv
    <3> QED BY <1>4, <2>1, <2>2, <2>3, <3>1 DEF OnRetry
  <2>4. CASE page.scope # "all-lists-streaming"
    <3> DEFINE p == [page EXCEPT !.catalog = "unread", !.booted = TRUE, !.card = "idle"]
               phase == IF engine.promise = "rejected" THEN "error" ELSE "booting"
    <3>1. PhaseIs(phase, p) /\ Boots(engine, calls)
      BY <2>1, <2>4 DEF OnRetry, RetryBoot
    <3>2. /\ p \in PageRecord /\ p.scope = page.scope /\ p.catalog = "unread"
          /\ p.card = "idle" /\ p.booted /\ p.disposal = page.disposal
      BY <1>1 DEF PageRecord
    <3>3. phase \in {"booting", "ready", "error"} /\ phase # "ready"
          /\ (phase = "error" => engine.promise # "none")
      OBVIOUS
    <3> HIDE DEF p, phase
    <3>4. /\ page'.phase = phase /\ page'.scope = page.scope
          /\ page'.catalog = "unread" /\ page'.card = "idle" /\ page'.booted
          /\ page'.disposal = page.disposal
      BY <3>1, <3>2, <3>3, PhaseFields
    <3>5. MountInv(calls, page') /\ LiveBoots(calls, page') /\ ReadyInv(calls, page', engine)
          /\ ReloadsInv(calls, page')
      BY <2>1, <2>2, <3>3, <3>4 DEF QueueOfPage, MountInv, LiveBoots, ReadyInv, ReloadsInv
    <3>6. BootsInv(calls, page', engine)
      BY <2>1, <3>3, <3>4 DEF QueueOfPage, BootsInv
    <3>7. ClearsInv(calls, page', engine)
      BY <2>1, <3>3, <3>4 DEF QueueOfPage, ClearsInv
    <3>8. QueueOfPage(calls, page', engine)
      BY <3>5, <3>6, <3>7 DEF QueueOfPage
    <3>9. engine.promise = "none" => \A k \in DOMAIN calls : calls[k].kind # "boot"
      BY <2>1 DEF QueueOfPage, BootsInv
    <3> QED BY <1>1, <1>2, <2>4, <3>1, <3>3, <3>4, <3>8, <3>9, BootsKeeps
  <2> QED BY <2>3, <2>4
<1>8. CASE AskToClear
  <2>1. /\ page.phase = "error" /\ page.card \in {"offered", "confirming"}
        /\ page' = [page EXCEPT !.card = IF @ = "offered" THEN "confirming" ELSE "offered"]
        /\ calls' = calls /\ engine' = engine
    BY <1>8 DEF AskToClear
  <2>2. /\ page'.phase = page.phase /\ page'.scope = page.scope /\ page'.catalog = page.catalog
        /\ page'.booted = page.booted /\ page'.disposal = page.disposal
    BY <1>1, <2>1 DEF PageRecord
  <2>3. \A k \in DOMAIN calls : calls[k].kind # "clear"
    BY <2>1 DEF QueueOfPage, ClearsInv
  <2>4. QueueOfPage(calls, page', engine)
    BY <2>2, <2>3 DEF QueueOfPage, MountInv, LiveBoots, BootsInv, ReloadsInv, ClearsInv, ReadyInv
  <2> QED BY <2>1, <2>4
<1>9. CASE ConfirmClear
  <2>1. /\ page.phase = "error" /\ page.card = "confirming"
        /\ page' = [page EXCEPT !.card = "clearing"] /\ TearsDown("clear")
    BY <1>9 DEF ConfirmClear
  <2>2. /\ page'.phase = page.phase /\ page'.scope = page.scope /\ page'.catalog = page.catalog
        /\ page'.booted = page.booted /\ page'.disposal = page.disposal /\ page'.card = "clearing"
    BY <1>1, <2>1 DEF PageRecord
  <2> DEFINE c == Call("clear", page.scope, TRUE)
  <2>3. c \in CallRecord /\ c.kind = "clear" /\ c.scope = page.scope /\ ~c.current
    BY <1>2, CallTyped, ZenonT(40) DEF CallKinds
  <2>4. engine'.promise = engine.promise
    BY <1>1, <2>1 DEF TearsDown, EngineRecord
  <2>5. DOMAIN calls = 1..Len(calls)
    BY <1>1, QueueNumbers
  <2>6. CASE \E k \in DOMAIN calls : calls[k].current
    <3>1. calls' = Append(Superseded(calls), c)
      BY <2>1, <2>6 DEF TearsDown
    <3> DEFINE r == Superseded(calls)
    <3>2. /\ r \in Seq(CallRecord) /\ Len(r) = Len(calls)
          /\ \A k \in 1..Len(calls) : r[k].kind = calls[k].kind /\ r[k].scope = calls[k].scope
                                      /\ ~r[k].live /\ ~r[k].current
      BY <1>1, SupersededTyped
    <3> HIDE DEF c, r
    <3>3. QueueOfPage(Append(r, c), page', engine')
      BY <1>1, <2>1, <2>2, <2>3, <2>4, <3>2, PushesClear, ZenonT(40)
    <3> QED BY <3>1, <3>3 DEF r
  <2>7. CASE ~\E k \in DOMAIN calls : calls[k].current
    <3> DEFINE r == calls
    <3>1. calls' = Append(r, c)
      BY <2>1, <2>7 DEF TearsDown
    <3>2. /\ r \in Seq(CallRecord) /\ Len(r) = Len(calls)
          /\ \A k \in 1..Len(calls) : r[k].kind = calls[k].kind /\ r[k].scope = calls[k].scope
               /\ (calls[k].kind = "boot" => ~r[k].live) /\ ~r[k].current
      BY <1>1, <2>5, <2>7 DEF QueueOfPage, LiveBoots
    <3> HIDE DEF c, r
    <3>3. QueueOfPage(Append(r, c), page', engine')
      BY <1>1, <2>1, <2>2, <2>3, <2>4, <3>2, PushesClear, ZenonT(40)
    <3> QED BY <3>1, <3>3
  <2> QED BY <2>6, <2>7
<1> QED BY <1>5, <1>6, <1>7, <1>8, <1>9

\* PopKeeps, when the head is all that goes.
LEMMA TailKeeps ==
    ASSUME NEW q \in Seq(CallRecord), NEW p, NEW e, QueueOfPage(q, p, e), q # <<>>, NEW p2, NEW e2,
           p2.scope = p.scope, p2.disposal = p.disposal, p2.booted = p.booted,
           \A k \in DOMAIN q : k > 1 /\ q[k].kind = "boot" =>
             (p2.phase = "error" => e2.promise # "none"),
           \A k, j \in DOMAIN q : k > 1 /\ j > 1 /\ j # k /\ q[k].kind = "boot" /\ q[j].kind = "boot" =>
             e2.promise # "none",
           \A k, j \in DOMAIN q : k > 1 /\ j > k /\ q[k].kind = "boot" /\ q[k].live /\ q[j].kind = "boot" =>
             p2.catalog = "unread",
           p2.phase = "ready" =>
             /\ e2.ready /\ e2.lists = ListsOf(p.scope)
             /\ \A k \in DOMAIN q : k > 1 =>
                  ~q[k].kind = "clear" /\ (q[k].kind = "boot" => p2.catalog = "unread"
                       /\ \A j \in DOMAIN q : j > 1 /\ q[j].kind = "catalog" => j > k),
           \A k \in DOMAIN q : k > 1 /\ q[k].kind = "reload" => p2.phase = "booting",
           \A k \in DOMAIN q : k > 1 /\ q[k].kind = "clear" =>
             /\ p2.phase = "error" => p2.card \in {"idle", "clearing"}
             /\ \A j \in DOMAIN q : j > 1 /\ q[j].kind = "boot" =>
                  e2.promise # "none" /\ (j > k => p2.phase # "error")
    PROVE  QueueOfPage(Tail(q), p2, e2)
<1> DEFINE t == Tail(q)
           n == Len(q) - 1
<1>1. /\ DOMAIN t = 1..n /\ \A k \in 1..(Len(q) - 1) : t[k] = q[k + 1]
      /\ n \in Nat /\ n # Len(q) /\ n \in {Len(q) - 1, Len(q)}
  <2>1. Len(q) \in Nat /\ Len(q) > 0
    BY QueueNumbers
  <2> QED BY <2>1, QueueNumbers
<1> HIDE DEF t, n
<1>2. QueueOfPage(t, p2, e2)
  BY <1>1, PopKeeps
<1> QED BY <1>2 DEF t

\* Nothing changes behind the head but the page and the engine: what is behind it when the
\* head is of this kind.
LEMMA BehindTheHead ==
    ASSUME NEW q \in Seq(CallRecord), NEW p, NEW e, QueueOfPage(q, p, e), q # <<>>
    PROVE  /\ q[1].kind = "boot" =>
                /\ q[1].scope = p.scope
                /\ \A k \in DOMAIN q : q[k].kind # "reload"
                /\ \A k \in DOMAIN q : k > 1 /\ q[k].kind = "boot" =>
                     e.promise # "none" /\ ~q[1].current
                /\ q[1].live => \A k \in DOMAIN q : k > 1 =>
                     /\ q[k].kind # "clear"
                     /\ q[k].kind = "boot" => p.catalog = "unread"
                          /\ \A j \in DOMAIN q : q[j].kind = "catalog" => j > k
                /\ \A k \in DOMAIN q : q[k].kind = "clear" =>
                     /\ ~q[1].current
                     /\ \A j \in DOMAIN q : j > k => q[j].kind # "boot"
           /\ q[1].kind = "reload" =>
                /\ q[1].scope = p.scope
                /\ \A k \in DOMAIN q : q[k].kind \notin {"boot", "clear"}
                                       /\ (k > 1 => q[k].kind # "reload")
           /\ q[1].kind = "catalog" => \A k, j \in DOMAIN q : q[k].kind = "boot" =>
                /\ p.phase # "ready"
                /\ q[k].live /\ q[j].kind = "boot" => ~(j > k)
           /\ q[1].kind = "clear" =>
                /\ q[1].scope = p.scope
                /\ \A k \in DOMAIN q : k > 1 =>
                     /\ q[k].kind \notin {"clear", "catalog"}
                     /\ q[k].kind = "boot" =>
                          /\ p.phase # "error"
                          /\ \A j \in DOMAIN q : q[j].kind = "boot" => j = k
<1>1. Len(q) \in Nat /\ DOMAIN q = 1..Len(q) /\ 1 \in DOMAIN q /\ \A k \in DOMAIN q : k \in Nat /\ ~(1 > k)
  BY QueueNumbers
<1>2. \A k \in DOMAIN q : k = 1 \/ k > 1
  BY <1>1
<1>3. ASSUME q[1].kind = "boot"
      PROVE  /\ q[1].scope = p.scope
             /\ \A k \in DOMAIN q : q[k].kind # "reload"
             /\ \A k \in DOMAIN q : k > 1 /\ q[k].kind = "boot" =>
                  e.promise # "none" /\ ~q[1].current
  <2>1. q[1].scope = p.scope /\ p.scope # "all-lists-streaming"
    BY <1>1, <1>3 DEF QueueOfPage, BootsInv
  <2>2. \A k \in DOMAIN q : q[k].kind # "reload"
    BY <2>1 DEF QueueOfPage, ReloadsInv
  <2>3. ASSUME NEW k \in DOMAIN q, k > 1, q[k].kind = "boot" PROVE e.promise # "none" /\ ~q[1].current
    <3>1. k # 1 /\ ~(k <= 1)
      BY <1>1, <2>3
    <3> QED BY <1>1, <1>3, <2>3, <3>1 DEF QueueOfPage, BootsInv
  <2> QED BY <2>1, <2>2, <2>3
<1>4. ASSUME q[1].kind = "boot", q[1].live, NEW k \in DOMAIN q, k > 1
      PROVE  /\ q[k].kind # "clear"
             /\ q[k].kind = "boot" => p.catalog = "unread"
                  /\ \A j \in DOMAIN q : q[j].kind = "catalog" => j > k
  <2>1. k # 1
    BY <1>1, <1>4
  <2> QED BY <1>1, <1>4, <2>1 DEF QueueOfPage, LiveBoots
<1>5. ASSUME q[1].kind = "boot", NEW k \in DOMAIN q, q[k].kind = "clear"
      PROVE  ~q[1].current /\ \A j \in DOMAIN q : j > k => q[j].kind # "boot"
  <2>1. k > 1
    BY <1>2, <1>5
  <2>2. ~q[1].current
    <3>1. 1 < k
      BY <1>1, <2>1
    <3> QED BY <1>1, <1>5, <3>1 DEF QueueOfPage, ClearsInv
  <2>3. ASSUME NEW j \in DOMAIN q, j > k, q[j].kind = "boot" PROVE FALSE
    <3>1. 1 = j
      BY <1>1, <1>5, <2>3 DEF QueueOfPage, ClearsInv
    <3> QED BY <1>1, <2>1, <2>3, <3>1
  <2> QED BY <2>2, <2>3
<1>6. ASSUME q[1].kind = "reload"
      PROVE  /\ q[1].scope = p.scope
             /\ \A k \in DOMAIN q : q[k].kind \notin {"boot", "clear"}
                                    /\ (k > 1 => q[k].kind # "reload")
  <2>1. q[1].scope = p.scope /\ p.scope = "all-lists-streaming"
    BY <1>1, <1>6 DEF QueueOfPage, ReloadsInv
  <2>2. \A k \in DOMAIN q : q[k].kind # "boot"
    BY <2>1 DEF QueueOfPage, BootsInv
  <2>3. ASSUME NEW k \in DOMAIN q PROVE q[k].kind # "clear" /\ (k > 1 => q[k].kind # "reload")
    <3>1. (q[k].kind = "clear" => k < 1) /\ (q[k].kind = "reload" => k = 1)
      BY <1>1, <1>6 DEF QueueOfPage, ReloadsInv
    <3> QED BY <1>1, <3>1
  <2> QED BY <2>1, <2>2, <2>3
<1>7. ASSUME q[1].kind = "catalog", NEW k \in DOMAIN q, NEW j \in DOMAIN q, q[k].kind = "boot"
      PROVE  p.phase # "ready" /\ (q[k].live /\ q[j].kind = "boot" => ~(j > k))
  <2>1. p.phase # "ready"
    BY <1>1, <1>7 DEF QueueOfPage, ReadyInv
  <2>2. ~(q[k].live /\ q[j].kind = "boot" /\ j > k)
    BY <1>1, <1>7 DEF QueueOfPage, LiveBoots
  <2> QED BY <2>1, <2>2
<1>8. ASSUME q[1].kind = "clear"
      PROVE  /\ q[1].scope = p.scope
             /\ \A k \in DOMAIN q : k > 1 =>
                  /\ q[k].kind \notin {"clear", "catalog"}
                  /\ q[k].kind = "boot" =>
                       p.phase # "error" /\ \A j \in DOMAIN q : q[j].kind = "boot" => j = k
  <2>1. q[1].scope = p.scope
    BY <1>1, <1>8 DEF QueueOfPage, ClearsInv
  <2>2. ASSUME NEW k \in DOMAIN q, k > 1
        PROVE  q[k].kind \notin {"clear", "catalog"}
               /\ (q[k].kind = "boot" =>
                    p.phase # "error" /\ \A j \in DOMAIN q : q[j].kind = "boot" => j = k)
    <3>1. (q[k].kind = "catalog" => k < 1) /\ (q[k].kind = "clear" => k = 1)
      BY <1>1, <1>8 DEF QueueOfPage, ClearsInv
    <3>2. q[k].kind = "boot" => p.phase # "error" /\ \A j \in DOMAIN q : q[j].kind = "boot" => j = k
      BY <1>1, <1>8, <2>2 DEF QueueOfPage, ClearsInv
    <3> QED BY <1>1, <2>2, <3>1, <3>2
  <2> QED BY <2>1, <2>2
<1> QED BY <1>3, <1>4, <1>5, <1>6, <1>7, <1>8

\* A read of the catalog is never current.
LEMMA CatalogCall ==
    ASSUME NEW scope \in Scope
    PROVE  /\ Call("catalog", scope, TRUE) \in CallRecord
           /\ Call("catalog", scope, TRUE).kind = "catalog" /\ ~Call("catalog", scope, TRUE).current
BY CallTyped, ZenonT(40) DEF CallKinds

\* the answer to a boot
LEMMA BootAnswersKeepQueue ==
    ASSUME ScreenTypes, page.alive, QueueOfPage(calls, page, engine), calls # <<>>,
           BootResolves \/ BootRejects
    PROVE  QueueOfPage(calls', page', engine')
<1> DEFINE h == calls[1]
<1>1. calls \in Seq(CallRecord) /\ page \in PageRecord /\ engine \in EngineRecord
  BY DEF ScreenTypes
<1>2. /\ Len(calls) \in Nat /\ Len(calls) > 0 /\ DOMAIN calls = 1..Len(calls) /\ 1 \in DOMAIN calls
      /\ Head(calls) = h /\ h \in CallRecord /\ Tail(calls) \in Seq(CallRecord)
      /\ DOMAIN Tail(calls) = 1..(Len(calls) - 1) /\ Len(Tail(calls)) = Len(calls) - 1
      /\ \A k \in 1..(Len(calls) - 1) : Tail(calls)[k] = calls[k + 1]
  BY <1>1, QueueNumbers
<1>3. h.kind = "boot"
  BY <1>2 DEF BootResolves, BootRejects
<1>4. h.scope = page.scope /\ \A k \in DOMAIN calls : calls[k].kind # "reload"
  BY <1>1, <1>3, BehindTheHead
<1>5. \A k \in DOMAIN calls : k > 1 /\ calls[k].kind = "boot" =>
         engine.promise # "none" /\ ~h.current
  BY <1>1, <1>3, BehindTheHead
<1>6. h.live => \A k \in DOMAIN calls : k > 1 =>
         /\ calls[k].kind # "clear"
         /\ calls[k].kind = "boot" => page.catalog = "unread"
              /\ \A j \in DOMAIN calls : calls[j].kind = "catalog" => j > k
  BY <1>1, <1>3, BehindTheHead
<1>7. \A k \in DOMAIN calls : calls[k].kind = "clear" =>
         /\ ~h.current
         /\ \A j \in DOMAIN calls : j > k => calls[j].kind # "boot"
  BY <1>1, <1>3, BehindTheHead
<1>8. CASE BootResolves
  <2> DEFINE promise == IF h.current /\ engine.promise = "pending" THEN "kept" ELSE engine.promise
             p == [page EXCEPT !.card = "idle"]
             c == Call("catalog", page.scope, TRUE)
             t == Append(Tail(calls), c)
             n == Len(calls)
  <2>1. /\ h.live /\ PhaseIs("ready", p) /\ engine' = Serves(h.scope, promise)
        /\ calls' = t
    BY <1>2, <1>8 DEF BootResolves
  <2>2. p \in PageRecord /\ p.scope = page.scope /\ p.catalog = page.catalog
        /\ p.booted = page.booted /\ p.disposal = page.disposal
    BY <1>1 DEF PageRecord
  <2>3. c \in CallRecord /\ c.kind = "catalog" /\ ~c.current
    <3>1. page.scope \in Scope
      BY <1>1 DEF PageRecord
    <3> QED BY <3>1, CatalogCall
  <2>4. engine.promise # "none" => promise # "none"
    OBVIOUS
  <2> HIDE DEF promise, p, c, h
  <2>5. /\ page'.phase = "ready" /\ page'.scope = page.scope /\ page'.catalog = page.catalog
        /\ page'.booted = page.booted /\ page'.disposal = page.disposal
    BY <2>1, <2>2, PhaseFields
  <2>6. engine'.promise = promise /\ engine'.ready /\ engine'.lists = ListsOf(page.scope)
    BY <1>4, <2>1 DEF Serves
  <2>7. /\ DOMAIN t = 1..(Len(Tail(calls)) + 1) /\ t[Len(Tail(calls)) + 1] = c
        /\ \A k \in 1..Len(Tail(calls)) : t[k] = Tail(calls)[k]
    BY <1>2, <2>3, CallAppended
  <2>8. Len(Tail(calls)) + 1 = n /\ n \in Nat
    BY <1>2
  <2>9. DOMAIN t = 1..n /\ t[n] = c /\ \A k \in 1..(Len(calls) - 1) : t[k] = calls[k + 1]
    BY <1>2, <2>7, <2>8
  <2>10. \A k \in DOMAIN calls : k > 1 => calls[k].kind # "clear" /\ calls[k].kind # "reload"
    BY <1>4, <1>6, <2>1
  <2>11. \A k \in DOMAIN calls : k > 1 /\ calls[k].kind = "boot" =>
           /\ engine'.promise # "none" /\ page'.catalog = "unread"
           /\ \A j \in DOMAIN calls : j > 1 /\ calls[j].kind = "catalog" => j > k
    BY <1>5, <1>6, <2>1, <2>4, <2>5, <2>6
  <2>12. n \in {Len(calls) - 1, Len(calls)} /\ t[n].kind = "catalog" /\ ~t[n].current
    BY <2>3, <2>9
  <2> HIDE DEF t, n
  <2>13. QueueOfPage(t, page', engine')
    BY <1>1, <2>5, <2>6, <2>8, <2>9, <2>10, <2>11, <2>12, PopKeeps
  <2> QED BY <2>1, <2>13
<1>9. CASE BootRejects
  <2>1. PageFails(h.live) /\ calls' = Tail(calls)
    BY <1>2, <1>9 DEF BootRejects
  <2>2. PICK card \in {"offered", "idle"} :
          PhaseIs("error", [page EXCEPT !.card = card]) /\ (card = "offered" => h.live)
    BY <2>1 DEF PageFails
  <2> DEFINE p == [page EXCEPT !.card = card]
  <2>3. p \in PageRecord /\ p.scope = page.scope /\ p.catalog = page.catalog
        /\ p.booted = page.booted /\ p.disposal = page.disposal /\ p.card = card
    BY <1>1 DEF PageRecord
  <2>4. PhaseIs("error", p)
    BY <2>2
  <2> HIDE DEF p
  <2>5. /\ page'.phase = "error" /\ page'.scope = page.scope /\ page'.catalog = page.catalog
        /\ page'.booted = page.booted /\ page'.disposal = page.disposal /\ page'.card = card
    BY <2>3, <2>4, PhaseFields
  <2>6. \A k \in DOMAIN calls : k > 1 /\ calls[k].kind = "boot" => engine'.promise # "none"
    <3> SUFFICES ASSUME NEW k \in DOMAIN calls, k > 1, calls[k].kind = "boot"
                 PROVE  engine'.promise # "none"
      OBVIOUS
    <3>1. engine.promise # "none" /\ ~Head(calls).current
      BY <1>2, <1>5
    <3>2. PICK w \in {engine.warm, TRUE} : engine' = [engine EXCEPT
            !.warm = w, !.config = TRUE,
            !.promise = IF @ = "pending" /\ \A i \in 2..Len(calls) : calls[i].kind # "boot"
                        THEN "rejected" ELSE @]
      BY <1>9, <3>1 DEF BootRejects
    <3>3. engine'.promise = engine.promise \/ engine'.promise = "rejected"
      BY <1>1, <3>2 DEF EngineRecord
    <3> QED BY <3>1, <3>3
  <2>7. \A k, j \in DOMAIN calls : k > 1 /\ j > k /\ calls[k].kind = "boot" /\ calls[k].live
                                  /\ calls[j].kind = "boot" => page'.catalog = "unread"
    BY <2>5 DEF QueueOfPage, LiveBoots
  <2>8. \A k \in DOMAIN calls : k > 1 /\ calls[k].kind = "clear" =>
          /\ page'.card \in {"idle", "clearing"}
          /\ \A j \in DOMAIN calls : j > 1 /\ calls[j].kind = "boot" => ~(j > k)
    BY <1>6, <1>7, <2>2, <2>5
  <2>9. QueueOfPage(Tail(calls), page', engine')
    BY <1>1, <1>4, <2>5, <2>6, <2>7, <2>8, TailKeeps
  <2> QED BY <2>1, <2>9
<1> QED BY <1>8, <1>9

\* the answer to a reload, to a read of the catalog and to a clear
LEMMA OtherAnswersKeepQueue ==
    ASSUME ScreenTypes, page.alive, QueueOfPage(calls, page, engine), calls # <<>>,
           ReloadResolves \/ ReloadRejects \/ (CatalogReads /\ UNCHANGED engine)
             \/ ClearResolves \/ ClearRejects \/ Disposes
    PROVE  QueueOfPage(calls', page', engine')
<1> DEFINE h == calls[1]
<1>1. calls \in Seq(CallRecord) /\ page \in PageRecord /\ engine \in EngineRecord
  BY DEF ScreenTypes
<1>2. /\ 1 \in DOMAIN calls /\ Head(calls) = h /\ Tail(calls) \in Seq(CallRecord)
      /\ \A k \in DOMAIN calls : calls[k].kind \in CallKinds
  <2>1. \A k \in DOMAIN calls : calls[k] \in CallRecord
    BY <1>1
  <2> QED BY <1>1, <2>1, QueueNumbers DEF CallRecord
<1>3. page.disposal = "none" /\ \A k \in DOMAIN calls : calls[k].kind # "dispose"
  BY DEF QueueOfPage, MountInv
<1>4. page.booted
  BY DEF QueueOfPage, MountInv
<1>5. h.kind = "reload" =>
        /\ h.scope = page.scope
        /\ \A k \in DOMAIN calls : calls[k].kind \notin {"boot", "clear"}
                               /\ (k > 1 => calls[k].kind # "reload")
  BY <1>1, BehindTheHead
<1>6. h.kind = "catalog" => \A k, j \in DOMAIN calls : calls[k].kind = "boot" =>
        /\ page.phase # "ready"
        /\ calls[k].live /\ calls[j].kind = "boot" => ~(j > k)
  BY <1>1, BehindTheHead
<1>7. h.kind = "clear" =>
        /\ h.scope = page.scope
        /\ \A k \in DOMAIN calls : k > 1 =>
             /\ calls[k].kind \notin {"clear", "catalog"}
             /\ calls[k].kind = "boot" =>
                  page.phase # "error" /\ \A j \in DOMAIN calls : calls[j].kind = "boot" => j = k
  BY <1>1, BehindTheHead
<1>8. ASSUME NEW card \in {"idle", "offered"}
      PROVE  /\ [page EXCEPT !.card = card] \in PageRecord
             /\ [page EXCEPT !.card = card].scope = page.scope
             /\ [page EXCEPT !.card = card].catalog = page.catalog
             /\ [page EXCEPT !.card = card].booted = page.booted
             /\ [page EXCEPT !.card = card].disposal = page.disposal
             /\ [page EXCEPT !.card = card].card = card
  BY <1>1 DEF PageRecord
<1>9. Gone.promise = "none"
  BY DEF Gone
<1>10. CASE ReloadResolves
  <2> DEFINE p == [page EXCEPT !.card = "idle"]
  <2>1. /\ h.kind = "reload" /\ PhaseIs("ready", p) /\ engine' = Serves(h.scope, "kept")
        /\ calls' = Tail(calls)
    BY <1>2, <1>10 DEF ReloadResolves
  <2>2. engine'.ready /\ engine'.lists = ListsOf(page.scope)
    BY <1>5, <2>1 DEF Serves
  <2>3. p \in PageRecord /\ p.scope = page.scope /\ p.booted = page.booted
        /\ p.disposal = page.disposal
    BY <1>8
  <2> HIDE DEF p
  <2>4. /\ page'.phase = "ready" /\ page'.scope = page.scope
        /\ page'.booted = page.booted /\ page'.disposal = page.disposal
    BY <2>1, <2>3, PhaseFields
  <2>5. \A k \in DOMAIN calls : calls[k].kind \notin {"boot", "clear"}
                               /\ (k > 1 => calls[k].kind # "reload")
    BY <1>5, <2>1
  <2>6. QueueOfPage(Tail(calls), page', engine')
    BY <1>1, <2>2, <2>4, <2>5, TailKeeps
  <2> QED BY <2>1, <2>6
<1>11. CASE ReloadRejects
  <2>1. h.kind = "reload" /\ calls' = Tail(calls)
    BY <1>2, <1>11 DEF ReloadRejects
  <2>2. PICK card \in {"offered", "idle"} : PhaseIs("error", [page EXCEPT !.card = card])
    BY <1>11 DEF ReloadRejects, PageFails
  <2> DEFINE p == [page EXCEPT !.card = card]
  <2>3. p \in PageRecord /\ p.scope = page.scope /\ p.booted = page.booted
        /\ p.disposal = page.disposal
    BY <1>8
  <2>4. PhaseIs("error", p)
    BY <2>2
  <2> HIDE DEF p
  <2>5. /\ page'.phase = "error" /\ page'.scope = page.scope
        /\ page'.booted = page.booted /\ page'.disposal = page.disposal
    BY <2>3, <2>4, PhaseFields
  <2>6. \A k \in DOMAIN calls : calls[k].kind \notin {"boot", "clear"}
                               /\ (k > 1 => calls[k].kind # "reload")
    BY <1>5, <2>1
  <2>7. QueueOfPage(Tail(calls), page', engine')
    BY <1>1, <2>5, <2>6, TailKeeps
  <2> QED BY <2>1, <2>7
<1>12. CASE CatalogReads /\ UNCHANGED engine
  <2>1. PICK answer \in {"read", "null"} : page' = [page EXCEPT !.catalog = answer]
    BY <1>12 DEF CatalogReads
  <2>2. h.kind = "catalog" /\ calls' = Tail(calls) /\ engine' = engine
    BY <1>2, <1>12 DEF CatalogReads
  <2>3. /\ page'.phase = page.phase /\ page'.scope = page.scope /\ page'.card = page.card
        /\ page'.booted = page.booted /\ page'.disposal = page.disposal
    BY <1>1, <2>1 DEF PageRecord
  <2>4. \A k, j \in DOMAIN calls : calls[k].kind = "boot" =>
          /\ page.phase # "ready"
          /\ calls[k].live /\ calls[j].kind = "boot" => ~(j > k)
    BY <1>6, <2>2
  <2>5. \A k \in DOMAIN calls : calls[k].kind = "boot" =>
          /\ page.phase = "error" => engine.promise # "none"
          /\ \A j \in DOMAIN calls : calls[j].kind = "boot" /\ j # k => engine.promise # "none"
    BY DEF QueueOfPage, BootsInv
  <2>6. page.phase = "ready" => engine.ready /\ engine.lists = ListsOf(page.scope)
          /\ \A k \in DOMAIN calls : calls[k].kind # "clear"
    BY DEF QueueOfPage, ReadyInv, ClearsInv
  <2>7. \A k \in DOMAIN calls : calls[k].kind = "reload" => page.phase = "booting"
    BY DEF QueueOfPage, ReloadsInv
  <2>8. \A k \in DOMAIN calls : calls[k].kind = "clear" =>
          /\ page.phase = "error" => page.card \in {"idle", "clearing"}
          /\ \A j \in DOMAIN calls : calls[j].kind = "boot" =>
               engine.promise # "none" /\ (j > k => page.phase # "error")
    BY DEF QueueOfPage, ClearsInv
  <2>9. QueueOfPage(Tail(calls), page', engine)
    BY <1>1, <2>3, <2>4, <2>5, <2>6, <2>7, <2>8, TailKeeps
  <2> QED BY <2>2, <2>9
<1>13. ASSUME h.kind = "clear", NEW p, p.scope = page.scope, p.disposal = page.disposal,
              p.booted = page.booted, p.phase = "booting" \/ p.phase = page.phase
       PROVE  QueueOfPage(Tail(calls), p, Gone)
  <2>1. page.phase # "ready"
    BY <1>2, <1>13 DEF QueueOfPage, ClearsInv
  <2>2. \A k \in DOMAIN calls : calls[k].kind = "reload" => p.phase = "booting"
    BY <1>13 DEF QueueOfPage, ReloadsInv
  <2>3. \A k \in DOMAIN calls : k > 1 =>
          /\ calls[k].kind # "clear"
          /\ calls[k].kind = "boot" =>
               p.phase # "error" /\ \A j \in DOMAIN calls : calls[j].kind = "boot" => j = k
    BY <1>7, <1>13
  <2>4. \A k, j \in DOMAIN calls : k > 1 /\ j > k /\ calls[k].kind = "boot"
                                  => calls[j].kind # "boot"
    <3> SUFFICES ASSUME NEW k \in DOMAIN calls, NEW j \in DOMAIN calls, k > 1, j > k,
                        calls[k].kind = "boot", calls[j].kind = "boot"
                 PROVE  FALSE
      OBVIOUS
    <3>1. j = k
      BY <2>3
    <3>2. k \in Nat
      BY <1>1, QueueNumbers
    <3> QED BY <3>1, <3>2
  <2> QED BY <1>1, <1>13, <2>1, <2>2, <2>3, <2>4, TailKeeps
<1>14. CASE ClearResolves
  <2>1. h.kind = "clear" /\ h.scope = page.scope
    BY <1>2, <1>7, <1>14 DEF ClearResolves
  <2>2. CASE page.scope = "all-lists-streaming"
    <3> DEFINE p == [page EXCEPT !.card = "idle"]
    <3>1. PhaseIs("booting", p) /\ engine' = Gone /\ ReloadsLists(Tail(calls))
      BY <1>2, <1>14, <2>1, <2>2 DEF ClearResolves
    <3>2. p \in PageRecord /\ p.scope = page.scope /\ p.booted = page.booted
          /\ p.disposal = page.disposal
      BY <1>8
    <3> HIDE DEF p
    <3>3. /\ page'.phase = "booting" /\ page'.scope = page.scope
          /\ page'.booted = page.booted /\ page'.disposal = page.disposal
      BY <3>1, <3>2, PhaseFields
    <3>4. QueueOfPage(Tail(calls), page', Gone)
      BY <1>13, <2>1, <3>3
    <3> QED BY <1>2, <1>4, <2>2, <3>1, <3>3, <3>4, ReloadsKeeps
  <2>3. CASE page.scope # "all-lists-streaming"
    <3> DEFINE p == [page EXCEPT !.card = "idle", !.catalog = "unread"]
    <3>1. PhaseIs("booting", p) /\ Boots(Gone, Tail(calls))
      BY <1>2, <1>14, <2>1, <2>3 DEF ClearResolves
    <3>2. p \in PageRecord /\ p.scope = page.scope /\ p.booted = page.booted
          /\ p.disposal = page.disposal /\ p.catalog = "unread"
      BY <1>1 DEF PageRecord
    <3> HIDE DEF p
    <3>3. /\ page'.phase = "booting" /\ page'.scope = page.scope /\ page'.catalog = "unread"
          /\ page'.booted = page.booted /\ page'.disposal = page.disposal
      BY <3>1, <3>2, PhaseFields
    <3>4. QueueOfPage(Tail(calls), page', Gone)
      BY <1>13, <2>1, <3>3
    <3>5. \A k \in DOMAIN Tail(calls) : Tail(calls)[k].kind \notin {"catalog", "clear"}
      <4> SUFFICES ASSUME NEW k \in DOMAIN Tail(calls)
                   PROVE  Tail(calls)[k].kind \notin {"catalog", "clear"}
        OBVIOUS
      <4>1. Len(calls) \in Nat /\ k \in 1..(Len(calls) - 1) /\ Tail(calls)[k] = calls[k + 1]
            /\ DOMAIN calls = 1..Len(calls)
        BY <1>1, QueueNumbers
      <4>2. k + 1 \in DOMAIN calls /\ k + 1 > 1
        BY <4>1
      <4> QED BY <1>7, <2>1, <4>1, <4>2
    <3>6. Gone \in EngineRecord /\ page.scope \in Scope
      BY <1>1 DEF Gone, EngineRecord, PageRecord
    <3> QED BY <1>2, <1>4, <2>3, <3>1, <3>3, <3>4, <3>5, <3>6, BootsKeeps
  <2> QED BY <2>2, <2>3
<1>15. CASE ClearRejects
  <2>1. /\ h.kind = "clear" /\ engine' = Gone /\ calls' = Tail(calls)
        /\ (page' = [page EXCEPT !.card = "offered"] \/ page' = page)
    BY <1>2, <1>15 DEF ClearRejects
  <2>2. /\ page'.phase = page.phase /\ page'.scope = page.scope
        /\ page'.booted = page.booted /\ page'.disposal = page.disposal
    BY <1>1, <2>1 DEF PageRecord
  <2>3. QueueOfPage(Tail(calls), page', Gone)
    BY <1>13, <2>1, <2>2
  <2> QED BY <2>1, <2>3
<1>16. CASE Disposes
  BY <1>2, <1>3, <1>16 DEF Disposes
<1> QED BY <1>10, <1>11, <1>12, <1>14, <1>15, <1>16

-----------------------------------------------------------------------------
\* What was searched for stays what the box asks, as long as the page is not taken to
\* "ready" without a new search, or to another scope.
LEMMA SearchedStays ==
    ASSUME Searched, UNCHANGED <<box, chain, shown, seq>>,
           page'.phase = "ready" /\ box.query # Empty /\ ~timer' =>
             page.phase = "ready" /\ ~timer /\ page'.scope = page.scope
    PROVE  Searched'
<1> SUFFICES ASSUME page'.phase = "ready", box.query # Empty, ~timer'
             PROVE  /\ \A k \in DOMAIN chain : chain[k].n = seq => OfTheBox(chain[k])'
                    /\ (\E k \in DOMAIN chain : chain[k].n = seq) \/ AnswersTheBox'
  BY DEF Searched, OfTheBox
<1>1. page.phase = "ready" /\ ~timer /\ page'.scope = page.scope
  OBVIOUS
<1>2. ListsOf(page'.scope) = ListsOf(page.scope)
  BY <1>1
<1>3. \A s : (s.query = box'.query /\ s.level = box'.level /\ s.lists = ListsOf(page'.scope))
        <=> OfTheBox(s)
  BY <1>2 DEF OfTheBox
<1>4. \A k \in DOMAIN chain : chain[k].n = seq => OfTheBox(chain[k])'
  BY <1>1, <1>3 DEF Searched, OfTheBox
<1>5. AnswersTheBox => AnswersTheBox'
  BY <1>3 DEF AnswersTheBox, OfTheBox
<1> QED BY <1>1, <1>4, <1>5 DEF Searched

\* A change of phase: whoever enters "ready" sets the timer.
LEMMA PhaseSearched ==
    ASSUME ScreenTypes, Searched, NEW phase \in {"booting", "ready", "error"},
           NEW p \in PageRecord, PhaseIs(phase, p), UNCHANGED <<box, chain, shown, seq>>,
           phase # "ready" \/ p.scope = page.scope
    PROVE  Searched'
<1>1. page'.phase = phase /\ page'.scope = p.scope
  BY PhaseFields
<1>2. timer' = IF phase # page.phase THEN phase = "ready" /\ box.query # Empty ELSE timer
  BY DEF PhaseIs
<1>3. page'.phase = "ready" /\ box.query # Empty /\ ~timer' =>
        page.phase = "ready" /\ ~timer /\ page'.scope = page.scope
  BY <1>1, <1>2
<1> QED BY <1>3, SearchedStays

\* the page and its runtime leave the searches alone, but for the timer
LEMMA PageKeepsSearched ==
    ASSUME ScreenTypes, page.alive, QueueOfPage(calls, page, engine), Searched,
           BootEffect \/ OptIn \/ Retry \/ AskToClear \/ ConfirmClear \/ RuntimeAnswers
    PROVE  Searched'
<1>1. page \in PageRecord /\ calls \in Seq(CallRecord)
  BY DEF ScreenTypes
<1>2. UNCHANGED <<box, chain, shown, seq>>
  BY DEF BootEffect, OptIn, Retry, AskToClear, ConfirmClear, RuntimeAnswers
<1>3. ASSUME page'.phase = page.phase, page'.scope = page.scope, timer' = timer
      PROVE  Searched'
  BY <1>2, <1>3, SearchedStays
<1>4. ASSUME NEW card PROVE  /\ [page EXCEPT !.card = card].scope = page.scope
             /\ [page EXCEPT !.card = card].phase = page.phase
  BY <1>1 DEF PageRecord
<1>5. ASSUME NEW card \in {"idle", "offered"} PROVE  [page EXCEPT !.card = card] \in PageRecord
  BY <1>1 DEF PageRecord
<1>6. ASSUME NEW b, PageFails(b) PROVE Searched'
  <2>1. PICK card \in {"idle", "offered"} : PhaseIs("error", [page EXCEPT !.card = card])
    BY <1>6 DEF PageFails
  <2> QED BY <1>2, <1>5, <2>1, PhaseSearched
<1>7. ASSUME IncludeAllLists PROVE Searched'
  <2>1. [page EXCEPT !.scope = "all-lists-streaming"] \in PageRecord
    BY <1>1 DEF PageRecord, Scope
  <2> QED BY <1>2, <1>7, <2>1, PhaseSearched DEF IncludeAllLists
<1>8. ASSUME RetryBoot PROVE Searched'
  <2> DEFINE p == [page EXCEPT !.catalog = "unread", !.booted = TRUE, !.card = "idle"]
             phase == IF engine.promise = "rejected" THEN "error" ELSE "booting"
  <2>1. p \in PageRecord
    BY <1>1 DEF PageRecord
  <2>2. PhaseIs(phase, p)
    BY <1>8 DEF RetryBoot
  <2>3. phase \in {"booting", "ready", "error"} /\ phase # "ready"
    OBVIOUS
  <2> HIDE DEF p, phase
  <2> QED BY <1>2, <2>1, <2>2, <2>3, PhaseSearched
<1>9. CASE BootEffect
  BY <1>1, <1>3, <1>9 DEF BootEffect, PageRecord
<1>10. CASE OptIn
  BY <1>7, <1>10 DEF OptIn
<1>11. CASE Retry
  BY <1>7, <1>8, <1>11 DEF Retry, OnRetry
<1>12. CASE AskToClear
  <2>1. page' = [page EXCEPT !.card = IF @ = "offered" THEN "confirming" ELSE "offered"]
        /\ timer' = timer
    BY <1>12 DEF AskToClear
  <2> QED BY <1>3, <1>4, <2>1
<1>13. CASE ConfirmClear
  <2>1. page' = [page EXCEPT !.card = "clearing"] /\ timer' = timer
    BY <1>13 DEF ConfirmClear
  <2> QED BY <1>3, <1>4, <2>1
<1>14. ASSUME BootResolves \/ ReloadResolves PROVE Searched'
  <2>1. PhaseIs("ready", [page EXCEPT !.card = "idle"])
    BY <1>14 DEF BootResolves, ReloadResolves
  <2> QED BY <1>2, <1>4, <1>5, <2>1, PhaseSearched
<1>15. CASE CatalogReads /\ UNCHANGED timer
  <2>1. PICK answer : page' = [page EXCEPT !.catalog = answer]
    BY <1>15 DEF CatalogReads
  <2>2. page'.phase = page.phase /\ page'.scope = page.scope
    BY <1>1, <2>1 DEF PageRecord
  <2> QED BY <1>3, <1>15, <2>2
<1>16. CASE ClearResolves
  <2>1. \/ PhaseIs("booting", [page EXCEPT !.card = "idle"])
        \/ PhaseIs("booting", [page EXCEPT !.card = "idle", !.catalog = "unread"])
    BY <1>16 DEF ClearResolves
  <2>2. [page EXCEPT !.card = "idle", !.catalog = "unread"] \in PageRecord
    BY <1>1 DEF PageRecord
  <2> QED BY <1>2, <1>5, <2>1, <2>2, PhaseSearched
<1>17. CASE ClearRejects
  <2>1. (page' = [page EXCEPT !.card = "offered"] \/ page' = page) /\ timer' = timer
    BY <1>17 DEF ClearRejects
  <2> QED BY <1>3, <1>4, <2>1
<1>18. CASE Disposes
  BY <1>3, <1>18 DEF Disposes
<1>19. CASE RuntimeAnswers
  <2>1. CatalogReads => UNCHANGED timer
    BY DEF CatalogReads
  <2>2. BootRejects \/ ReloadRejects => \E b : PageFails(b)
    BY DEF BootRejects, ReloadRejects
  <2> QED BY <1>6, <1>14, <1>15, <1>16, <1>17, <1>18, <1>19, <2>1, <2>2 DEF RuntimeAnswers
<1> QED BY <1>9, <1>10, <1>11, <1>12, <1>13, <1>19

\* The search that the debounce starts.
LEMMA SearchIsTyped ==
    ASSUME ScreenTypes, NEW s, s = [n |-> seq + 1, query |-> box.query, level |-> box.level,
                   lists |-> engine.lists, on |-> FALSE], box.query # Empty
    PROVE  s \in SearchRecord /\ s.n = seq + 1
<1>1. /\ seq \in Nat /\ box \in [query: Query \cup {Empty}, level: Level] /\ engine \in EngineRecord
  BY DEF ScreenTypes
<1> QED BY <1>1 DEF SearchRecord, EngineRecord

\* the searches themselves
LEMMA SearchesKeepSearched ==
    ASSUME ScreenTypes, page.alive, QueueOfPage(calls, page, engine), Searched,
           \/ \E q \in Query \cup {Empty} : Type(q)
           \/ \E l \in Level : Choose(l)
           \/ DebounceFires \/ SearchStarts \/ SearchAnswers \/ SearchRejects
    PROVE  Searched'
<1>1. /\ chain \in Seq(SearchRecord) /\ \A k \in DOMAIN chain : chain[k].n <= seq
      /\ seq \in Nat /\ box \in [query: Query \cup {Empty}, level: Level]
  BY DEF ScreenTypes
<1>2. UNCHANGED <<page, engine, calls>>
  BY DEF Type, Choose, DebounceFires, SearchStarts, SearchAnswers, SearchRejects
<1>3. \A k \in DOMAIN chain : chain[k] \in SearchRecord
  BY <1>1
<1>4. ASSUME NEW q \in Query \cup {Empty}, Type(q) PROVE Searched'
  <2>1. box'.query = q
    BY <1>1, <1>4 DEF Type
  <2>2. q # Empty => timer'
    BY <1>4 DEF Type
  <2> QED BY <2>1, <2>2 DEF Searched
<1>5. ASSUME NEW l \in Level, Choose(l) PROVE Searched'
  <2>1. box'.query = box.query
    BY <1>1, <1>5 DEF Choose
  <2>2. timer' <=> box.query # Empty
    BY <1>5 DEF Choose
  <2> QED BY <2>1, <2>2 DEF Searched
<1>6. CASE DebounceFires
  <2> DEFINE s == [n |-> seq + 1, query |-> box.query, level |-> box.level,
                   lists |-> engine.lists, on |-> FALSE]
  <2>1. page.phase = "ready" /\ UNCHANGED <<box, shown>>
    BY <1>6 DEF DebounceFires
  <2>2. engine.ready /\ engine.lists = ListsOf(page.scope)
    BY <2>1 DEF QueueOfPage, ReadyInv
  <2>3. seq' = seq + 1 /\ chain' = Append(chain, s)
    BY <1>6, <2>2 DEF DebounceFires
  <2>4. s \in SearchRecord /\ s.n = seq + 1 /\ OfTheBox(s)
    <3>1. box.query # Empty
      BY <1>6 DEF DebounceFires, ScreenTypes
    <3> QED BY <2>2, <3>1, SearchIsTyped DEF OfTheBox
  <2> HIDE DEF s
  <2>5. /\ Len(chain) \in Nat /\ DOMAIN chain = 1..Len(chain)
        /\ DOMAIN chain' = 1..(Len(chain) + 1) /\ chain'[Len(chain) + 1] = s
        /\ \A k \in 1..Len(chain) : chain'[k] = chain[k]
    BY <1>1, <2>3, <2>4
  <2>6. \A k \in DOMAIN chain' : chain'[k].n = seq' => chain'[k] = s
    <3> SUFFICES ASSUME NEW k \in DOMAIN chain, chain[k].n = seq + 1 PROVE FALSE
      BY <2>3, <2>5
    <3>1. chain[k].n \in Nat /\ chain[k].n <= seq
      BY <1>1, <1>3 DEF SearchRecord
    <3> QED BY <1>1, <3>1
  <2>7. Len(chain) + 1 \in DOMAIN chain'
    BY <2>5
  <2> QED BY <1>2, <2>1, <2>3, <2>4, <2>5, <2>6, <2>7 DEF Searched, OfTheBox
<1>7. ASSUME chain # <<>>
      PROVE  /\ 1 \in DOMAIN chain /\ Head(chain) = chain[1] /\ Len(chain) \in Nat
             /\ DOMAIN chain = 1..Len(chain) /\ DOMAIN Tail(chain) = 1..(Len(chain) - 1)
             /\ \A k \in 1..(Len(chain) - 1) : Tail(chain)[k] = chain[k + 1] /\ k + 1 \in DOMAIN chain
  BY <1>1, <1>7
<1>8. ASSUME chain # <<>>, chain' = Tail(chain), UNCHANGED <<box, timer, seq>>,
             Head(chain).n = seq \/ shown' = shown,
             Head(chain).n = seq /\ page.phase = "ready" /\ box.query # Empty /\ ~timer => AnswersTheBox'
      PROVE  Searched'
  <2> SUFFICES ASSUME page.phase = "ready", box.query # Empty, ~timer
               PROVE  /\ \A k \in DOMAIN chain' : chain'[k].n = seq => OfTheBox(chain'[k])
                      /\ (\E k \in DOMAIN chain' : chain'[k].n = seq) \/ AnswersTheBox'
    BY <1>2, <1>8 DEF Searched, OfTheBox
  <2>1. /\ \A k \in DOMAIN chain : chain[k].n = seq => OfTheBox(chain[k])
        /\ (\E k \in DOMAIN chain : chain[k].n = seq) \/ AnswersTheBox
    BY DEF Searched
  <2>2. \A k \in DOMAIN chain' : chain'[k] = chain[k + 1] /\ k + 1 \in DOMAIN chain
    BY <1>7, <1>8
  <2>3. \A k \in DOMAIN chain' : chain'[k].n = seq => OfTheBox(chain'[k])
    BY <2>1, <2>2
  <2>4. CASE Head(chain).n = seq
    BY <1>8, <2>3, <2>4
  <2>5. CASE Head(chain).n # seq
    <3>1. shown' = shown
      BY <1>8, <2>5
    <3>2. AnswersTheBox => AnswersTheBox'
      BY <1>2, <1>8, <3>1 DEF AnswersTheBox, OfTheBox
    <3>3. ASSUME NEW k \in DOMAIN chain, chain[k].n = seq PROVE \E j \in DOMAIN chain' : chain'[j].n = seq
      <4>1. k # 1
        BY <1>7, <1>8, <2>5, <3>3
      <4>2. k - 1 \in 1..(Len(chain) - 1) /\ (k - 1) + 1 = k
        BY <1>7, <1>8, <4>1
      <4> QED BY <1>7, <1>8, <3>3, <4>2
    <3> QED BY <2>1, <2>3, <3>2, <3>3
  <2> QED BY <2>4, <2>5
<1>9. CASE SearchStarts
  <2>1. chain # <<>> /\ UNCHANGED <<box, timer, shown, seq>>
    BY <1>9 DEF SearchStarts
  <2>2. CASE Head(chain).n # seq
    <3>1. chain' = Tail(chain)
      BY <1>9, <2>2 DEF SearchStarts
    <3> QED BY <1>8, <2>1, <2>2, <3>1
  <2>3. CASE Head(chain).n = seq
    <3> DEFINE s == [chain[1] EXCEPT !.on = TRUE]
    <3>1. chain' = [chain EXCEPT ![1] = s]
      BY <1>9, <2>3 DEF SearchStarts
    <3>2. chain[1] \in SearchRecord
      BY <1>3, <1>7, <2>1
    <3>3. s.n = chain[1].n /\ s.query = chain[1].query /\ s.level = chain[1].level
          /\ s.lists = chain[1].lists
      BY <3>2 DEF SearchRecord
    <3> HIDE DEF s
    <3>4. DOMAIN chain' = DOMAIN chain /\ \A k \in DOMAIN chain :
            /\ chain'[k].n = chain[k].n /\ chain'[k].query = chain[k].query
            /\ chain'[k].level = chain[k].level /\ chain'[k].lists = chain[k].lists
      BY <1>1, <3>1, <3>3
    <3>5. AnswersTheBox => AnswersTheBox'
      BY <1>2, <2>1 DEF AnswersTheBox, OfTheBox
    <3> QED BY <1>2, <2>1, <3>4, <3>5 DEF Searched, OfTheBox
  <2> QED BY <2>2, <2>3
<1>10. ASSUME chain # <<>>, Head(chain).n = seq, page.phase = "ready", box.query # Empty, ~timer
       PROVE  OfTheBox(Head(chain))
  BY <1>7, <1>10 DEF Searched
<1>11. CASE SearchAnswers
  <2> DEFINE s == Head(chain)
             o == [kind |-> "matches", query |-> s.query, level |-> s.level, lists |-> s.lists,
                   none |-> Found(s.query, s.level) \cap s.lists = {}]
  <2>1. chain # <<>> /\ chain' = Tail(chain) /\ UNCHANGED <<box, timer, seq>> /\ Shows(o)
    BY <1>11 DEF SearchAnswers
  <2>2. o.query = s.query /\ o.level = s.level /\ o.lists = s.lists
    OBVIOUS
  <2> HIDE DEF o
  <2>3. ASSUME Head(chain).n = seq, page.phase = "ready", box.query # Empty, ~timer
        PROVE  AnswersTheBox'
    <3>1. OfTheBox(s) /\ shown' = o
      BY <1>10, <2>1, <2>3 DEF Shows
    <3> QED BY <1>2, <2>1, <2>2, <3>1 DEF AnswersTheBox, OfTheBox
  <2>4. Head(chain).n = seq \/ shown' = shown
    BY <2>1 DEF Shows
  <2> QED BY <1>8, <2>1, <2>3, <2>4
<1>12. CASE SearchRejects
  <2> DEFINE o == [kind |-> "error", query |-> Head(chain).query]
  <2>1. chain # <<>> /\ chain' = Tail(chain) /\ UNCHANGED <<box, timer, seq>> /\ Shows(o)
    BY <1>12 DEF SearchRejects
  <2>2. o.query = Head(chain).query /\ o.kind # "matches"
    OBVIOUS
  <2> HIDE DEF o
  <2>3. ASSUME Head(chain).n = seq, page.phase = "ready", box.query # Empty, ~timer
        PROVE  AnswersTheBox'
    <3>1. OfTheBox(Head(chain)) /\ shown' = o
      BY <1>10, <2>1, <2>3 DEF Shows
    <3> QED BY <1>2, <2>1, <2>2, <3>1 DEF AnswersTheBox, OfTheBox
  <2>4. Head(chain).n = seq \/ shown' = shown
    BY <2>1 DEF Shows
  <2> QED BY <1>8, <2>1, <2>3, <2>4
<1> QED BY <1>4, <1>5, <1>6, <1>9, <1>11, <1>12

\* The invariant of the page holds when it is mounted.
LEMMA ScreenInvInit == ASSUME ScreenInit PROVE ScreenInv
<1>1. ScreenTypes
  BY ScreenTypesInit
<1>2. /\ page.phase \in {"booting", "unsupported"} /\ page.scope # "all-lists-streaming"
      /\ page.disposal = "none" /\ calls = <<>> /\ DOMAIN calls = {} /\ box.query = Empty
  BY DEF ScreenInit
<1>3. QueueOfPage(calls, page, engine)
  BY <1>2 DEF QueueOfPage, MountInv, LiveBoots, BootsInv, ReloadsInv, ClearsInv, ReadyInv
<1> QED BY <1>1, <1>2, <1>3 DEF ScreenInv, Searched

\* Every step keeps it while the page is there; a page that was left is not asked.
LEMMA ScreenInvStep == ASSUME ScreenInv, [ScreenNext]_screenVars PROVE ScreenInv'
<1>1. ScreenTypes /\ ScreenTypes'
  BY ScreenTypesStep DEF ScreenInv
<1>2. CASE UNCHANGED screenVars
  <2>1. page' = page /\ calls' = calls /\ engine' = engine
    BY <1>2 DEF screenVars
  <2>2. Searched' <=> Searched
    BY <1>2 DEF screenVars, Searched, AnswersTheBox, OfTheBox
  <2>3. page'.alive => QueueOfPage(calls', page', engine') /\ Searched'
    BY <2>1, <2>2 DEF ScreenInv
  <2> QED BY <1>1, <2>3 DEF ScreenInv
<1>3. CASE ScreenNext
  <2> SUFFICES ASSUME page'.alive PROVE QueueOfPage(calls', page', engine') /\ Searched'
    BY <1>1 DEF ScreenInv
  <2>1. ~Unmount
    BY <1>1 DEF Unmount, ScreenTypes, PageRecord
  <2>2. page.alive
    <3>1. page \in PageRecord
      BY <1>1 DEF ScreenTypes
    <3>2. CASE DisposalFires
      BY <3>1, <3>2 DEF DisposalFires, PageRecord
    <3>3. CASE RuntimeAnswers
      BY <3>1, <3>3 DEF RuntimeAnswers, BootResolves, ReloadResolves, BootRejects, ReloadRejects,
           PageFails, CatalogReads, ClearResolves, ClearRejects, Disposes, PhaseIs, PageRecord
    <3>4. CASE ~DisposalFires /\ ~RuntimeAnswers
      BY <1>3, <2>1, <3>4 DEF ScreenNext, BootEffect, OptIn, Retry, AskToClear, ConfirmClear,
           Type, Choose, DebounceFires, SearchStarts, SearchAnswers, SearchRejects
    <3> QED BY <3>2, <3>3, <3>4
  <2>3. QueueOfPage(calls, page, engine) /\ Searched
    BY <2>2 DEF ScreenInv
  <2>4. ~DisposalFires
    BY <2>3 DEF DisposalFires, QueueOfPage, MountInv
  <2>5. CASE BootEffect \/ OptIn \/ Retry \/ AskToClear \/ ConfirmClear
    BY <1>1, <2>2, <2>3, <2>5, ButtonsKeepQueue, PageKeepsSearched
  <2>6. CASE RuntimeAnswers
    <3>1. calls # <<>> /\ (CatalogReads => UNCHANGED engine)
      BY <2>6 DEF RuntimeAnswers, CatalogReads
    <3>2. QueueOfPage(calls', page', engine')
      BY <1>1, <2>2, <2>3, <2>6, <3>1, BootAnswersKeepQueue, OtherAnswersKeepQueue DEF RuntimeAnswers
    <3> QED BY <1>1, <2>2, <2>3, <2>6, <3>2, PageKeepsSearched
  <2>7. CASE \/ \E q \in Query \cup {Empty} : Type(q)
             \/ \E l \in Level : Choose(l)
             \/ DebounceFires \/ SearchStarts \/ SearchAnswers \/ SearchRejects
    <3>1. UNCHANGED <<page, engine, calls>>
      BY <2>7 DEF Type, Choose, DebounceFires, SearchStarts, SearchAnswers, SearchRejects
    <3>2. QueueOfPage(calls', page', engine')
      BY <2>3, <3>1
    <3> QED BY <1>1, <2>2, <2>3, <2>7, <3>2, SearchesKeepSearched
  <2> QED BY <1>3, <2>1, <2>4, <2>5, <2>6, <2>7 DEF ScreenNext
<1> QED BY <1>2, <1>3

\* So it holds all along.
LEMMA ScreenInvHolds == ScreenSpec => []ScreenInv
BY ScreenInvInit, ScreenInvStep, PTL DEF ScreenSpec

\* At rest nothing is in the chain, so what is shown answers the box.
LEMMA RestFollows == ASSUME ScreenInv PROVE DisplayComesToRest
<1> SUFFICES ASSUME page.alive, page.phase = "ready", engine.ready, box.query # Empty, ~timer,
                    chain = <<>>, calls = <<>>, shown # NoAnswer
             PROVE  /\ shown.query = box.query
                    /\ shown.kind = "matches" => /\ shown.level = box.level
                                                 /\ shown.lists = ListsOf(page.scope)
  BY DEF DisplayComesToRest
<1>1. Searched /\ DOMAIN chain = {}
  BY DEF ScreenInv
<1>2. AnswersTheBox
  BY <1>1 DEF Searched
<1> QED BY <1>2 DEF AnswersTheBox, OfTheBox

\* ScreenPage.tsx runSearch and its effect: once nothing is under way, what is on display
\* answers the box as it stands, over the lists the page says it covers, for any queries,
\* lists and levels, and whatever was typed, reloaded, cleared or superseded on the way.
THEOREM DisplayRests == ScreenSpec => []DisplayComesToRest
BY ScreenInvHolds, RestFollows, PTL
=============================================================================
