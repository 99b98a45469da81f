------------------------------ MODULE StoreBoot ------------------------------
(* How a page gets at its database: the thin client (db/client.ts), the      *)
(* worker that owns the pool of file handles (db/worker.ts), the bounded     *)
(* acquisition of that pool (db/acquire.ts) and the migrations               *)
(* (db/schema.ts).  The pool admits one worker of one tab, and a page that   *)
(* is left releases its handles a while later.  A unit of time is the first  *)
(* backoff, 50 ms.                                                           *)
EXTENDS Naturals, Sequences

CONSTANTS Tab, NoTab,
          SchemaVersion, \* SCHEMA_VERSION
          MaxAttempts,   \* POOL_ACQUIRE_MAX_ATTEMPTS
          InitialDelay, MaxDelay,  \* the first backoff and its ceiling
          ReleaseTime,   \* how long the handles of a page that is gone may stay taken
          MaxWorkers, MaxPosts   \* bounds: workers spawned, requests of one client

ASSUME StoreBootAssumption ==
  /\ NoTab \notin Tab
  /\ SchemaVersion \in Nat \ {0} /\ MaxAttempts \in Nat \ {0}
  /\ InitialDelay \in Nat \ {0} /\ MaxDelay \in Nat /\ ReleaseTime \in Nat \ {0}
  /\ MaxWorkers \in Nat

VARIABLES memo,   \* handlePromise of a tab's page: the worker behind it, 0 for none
          worker, \* the workers spawned, each with the client in front of it
          pool,   \* the exclusive file handles: their worker, and the time to release
          disk,   \* the version that schema_migrations of the file has reached
          ranAt   \* the lowest schema a request has run on

bootVars == <<memo, worker, pool, disk, ranAt>>

Workers == 1..MaxWorkers
NotLost == [tab |-> NoTab, releasing |-> FALSE]
Unborn == [tab |-> NoTab, live |-> FALSE, pending |-> {}, next |-> 0, inbox |-> <<>>,
           open |-> "none", attempt |-> 0, delay |-> 0, wait |-> 0, waiters |-> {},
           database |-> FALSE, guarded |-> FALSE, usable |-> FALSE, lostTo |-> NotLost]

BootInit ==
  /\ memo = [t \in Tab |-> 0] /\ worker = [k \in Workers |-> Unborn]
  /\ pool = [by |-> 0, release |-> 0] /\ disk = 0 /\ ranAt = SchemaVersion

-----------------------------------------------------------------------------
(* The client.                                                               *)

Posted(w, kind) ==
  [w EXCEPT !.next = @ + 1, !.pending = @ \cup {w.next + 1},
            !.inbox = Append(@, [id |-> w.next + 1, kind |-> kind])]

\* workstation(): the first to ask spawns a worker and posts the open, the rest share it
Spawns(t, k) ==
  /\ memo[t] = 0 /\ worker[k] = Unborn /\ \A j \in 1..(k-1) : worker[j] # Unborn
  /\ memo' = [memo EXCEPT ![t] = k]
  /\ worker' = [worker EXCEPT ![k] = Posted([Unborn EXCEPT !.tab = t, !.live = TRUE], "open")]
  /\ UNCHANGED <<pool, disk, ranAt>>

\* the handle is handed out when its open has resolved (build): then anybody posts
Posts(k, kind) ==
  /\ worker[k].live /\ worker[k].usable /\ worker[k].next < MaxPosts
  /\ worker' = [worker EXCEPT ![k] = Posted(@, kind)]
  /\ UNCHANGED <<memo, pool, disk, ranAt>>

Released(k) == pool' = IF pool.by = k THEN [pool EXCEPT !.release = ReleaseTime] ELSE pool
Stopped(w) == [Unborn EXCEPT !.tab = w.tab, !.lostTo = w.lostTo]

\* terminate rejects what is pending, and nothing is posted after it
Terminates(k) ==
  /\ worker[k].live /\ memo[worker[k].tab] = k
  /\ worker' = [worker EXCEPT ![k] = Stopped(@)]
  /\ memo' = [memo EXCEPT ![worker[k].tab] = 0]
  /\ Released(k) /\ UNCHANGED <<disk, ranAt>>

\* a full-page navigation, a reload or a crash: every worker of the page goes with it
Navigates(t) ==
  /\ memo[t] # 0
  /\ memo' = [memo EXCEPT ![t] = 0]
  /\ worker' = [k \in Workers |-> IF worker[k].tab = t THEN Stopped(worker[k]) ELSE worker[k]]
  /\ IF pool.by = 0 \/ pool.release # 0 THEN UNCHANGED pool
     ELSE IF worker[pool.by].tab = t THEN Released(pool.by) ELSE UNCHANGED pool
  /\ UNCHANGED <<disk, ranAt>>

-----------------------------------------------------------------------------
(* The worker.                                                               *)

\* Mutant of NextDelay: the wait does not grow.
NextDelayConstant(d) == d
\* the wait after each failed attempt doubles up to the ceiling
NextDelay(d) == IF 2 * d > MaxDelay THEN MaxDelay ELSE 2 * d

\* every open that shares the attempt settles with its outcome (#onMessage: answers come
\* in the order they were posted, so posting and delivery are one step here); a rejected
\* open clears the page's memo and leaves the worker running
Settles(k, w, ok) ==
  /\ worker' = [worker EXCEPT ![k] = [w EXCEPT !.waiters = {}, !.usable = @ \/ ok,
                                               !.pending = @ \ w.waiters]]
  /\ memo' = [memo EXCEPT ![w.tab] = IF ~ok /\ @ = k THEN 0 ELSE @]

\* execute: an open shares the acquisition in flight; anything else needs the database
Receives(k) ==
  /\ worker[k].live /\ worker[k].inbox # <<>>
  /\ worker[k].open = "held" => worker[k].waiters = {}
  /\ LET w == [worker[k] EXCEPT !.inbox = Tail(@)]
         r == Head(worker[k].inbox)
         v == IF w.guarded THEN disk ELSE 0
     IN IF r.kind = "open"
        THEN /\ worker' = [worker EXCEPT ![k] =
                  [w EXCEPT !.waiters = @ \cup {r.id},
                            !.open = IF @ = "none" THEN "trying" ELSE @,
                            !.attempt = IF w.open = "none" THEN 1 ELSE @,
                            !.delay = IF w.open = "none" THEN InitialDelay ELSE @]]
             /\ UNCHANGED ranAt
        ELSE /\ worker' = [worker EXCEPT ![k] =
                  [w EXCEPT !.pending = @ \ {r.id}]]
             /\ ranAt' = IF w.database /\ v < ranAt THEN v ELSE ranAt
  /\ UNCHANGED <<memo, pool, disk>>

Trying(k) == worker[k].live /\ worker[k].open = "trying" /\ worker[k].wait = 0
Contended(k) == pool.by \notin {0, k} \/ pool.release # 0

\* openPersistentDatabase: the pool is ours, and the file honours the privacy settings
Acquires(k) ==
  /\ Trying(k) /\ ~Contended(k)
  /\ pool' = [pool EXCEPT !.by = k]
  /\ worker' = [worker EXCEPT ![k].open = "held", ![k].database = TRUE]
  /\ UNCHANGED <<memo, disk, ranAt>>

\* a failure that is no contention (quota, corruption, a journal that cannot be changed)
\* is not retried; the pool may already be this worker's, and stays so
FailsToOpen(k) ==
  /\ Trying(k) /\ ~Contended(k)
  /\ \E by \in {pool.by, k} : pool' = [pool EXCEPT !.by = by]
  /\ Settles(k, [worker[k] EXCEPT !.open = "none"], FALSE)
  /\ UNCHANGED <<disk, ranAt>>

\* lost the race for the handles: wait and try again, up to the budget
BacksOff(k) ==
  /\ Trying(k) /\ Contended(k) /\ worker[k].attempt < MaxAttempts
  /\ worker' = [worker EXCEPT ![k].attempt = @ + 1, ![k].wait = worker[k].delay,
                                ![k].delay = NextDelay(@)]
  /\ UNCHANGED <<memo, pool, disk, ranAt>>

\* "is the workstation already open in another tab?"
GivesUp(k) ==
  /\ Trying(k) /\ Contended(k) /\ worker[k].attempt >= MaxAttempts
  /\ LET to == [tab |-> worker[pool.by].tab, releasing |-> pool.release # 0] IN
       Settles(k, [worker[k] EXCEPT !.open = "none", !.lostTo = to], FALSE)
  /\ UNCHANGED <<pool, disk, ranAt>>

Migrating(k) == worker[k].live /\ worker[k].open = "held" /\ worker[k].waiters # {}

\* migrate, first the settings of the connection
Guards(k) ==
  /\ Migrating(k) /\ ~worker[k].guarded
  /\ worker' = [worker EXCEPT ![k].guarded = TRUE]
  /\ UNCHANGED <<memo, pool, disk, ranAt>>
\* then one version after the other, each in a transaction of its own
MigratesOne(k) ==
  /\ Migrating(k) /\ worker[k].guarded /\ disk < SchemaVersion
  /\ disk' = disk + 1 /\ UNCHANGED <<memo, worker, pool, ranAt>>
\* Mutant of Opens: the open is answered before the last version is applied.
OpensBeforeMigration(k) ==
  /\ Migrating(k) /\ worker[k].guarded
  /\ Settles(k, worker[k], TRUE)
  /\ UNCHANGED <<pool, disk, ranAt>>
Opens(k) ==
  /\ Migrating(k) /\ worker[k].guarded /\ disk >= SchemaVersion
  /\ Settles(k, worker[k], TRUE)
  /\ UNCHANGED <<pool, disk, ranAt>>
\* recursive triggers that did not take, a step that is refused: the open is rejected
MigrationFails(k) ==
  /\ Migrating(k) /\ (worker[k].guarded => disk < SchemaVersion)
  /\ Settles(k, worker[k], FALSE)
  /\ UNCHANGED <<pool, disk, ranAt>>

WorkerStep(k) ==
  \/ Receives(k) \/ Acquires(k) \/ FailsToOpen(k) \/ BacksOff(k)
  \/ GivesUp(k) \/ Guards(k) \/ MigratesOne(k) \/ Opens(k) \/ MigrationFails(k)

\* time passes only when no worker has something to do at once
Tick ==
  /\ \A k \in Workers : worker[k].live =>
       /\ worker[k].inbox = <<>> /\ ~Trying(k) /\ ~Migrating(k)
  /\ pool.release # 0 \/ \E k \in Workers : worker[k].wait # 0
  /\ worker' = [k \in Workers |-> [worker[k] EXCEPT !.wait = IF @ = 0 THEN 0 ELSE @ - 1]]
  /\ pool' = CASE pool.release = 0 -> pool
               [] pool.release = 1 -> [by |-> 0, release |-> 0]
               [] OTHER            -> [pool EXCEPT !.release = @ - 1]
  /\ UNCHANGED <<memo, disk, ranAt>>

BootNext ==
  \/ \E t \in Tab : Navigates(t) \/ \E k \in Workers : Spawns(t, k)
  \/ \E k \in Workers :
       WorkerStep(k) \/ Terminates(k) \/ \E kind \in {"open", "request"} : Posts(k, kind)
  \/ Tick

BootFairness == WF_bootVars(Tick) /\ \A k \in Workers : WF_bootVars(WorkerStep(k))
BootSpec == BootInit /\ [][BootNext]_bootVars /\ BootFairness

-----------------------------------------------------------------------------
(* Properties.                                                               *)

BootTypeOK ==
  /\ memo \in [Tab -> {0} \cup Workers] /\ pool.by \in {0} \cup Workers
  /\ disk \in 0..SchemaVersion /\ ranAt \in 0..SchemaVersion
  /\ \A k \in Workers : worker[k].waiters \subseteq worker[k].pending

\* acquire.ts:56-60: "already open in another tab?" is never said of this tab's own past:
\* the handles that the page before is still releasing are always outwaited. (The budget
\* may also be lost to a worker of this tab whose open failed with the pool in its hands:
\* that one is not being released.)
BusyIsNotOurPast ==
  \A k \in Workers : ~(worker[k].lostTo.releasing /\ worker[k].lostTo.tab = worker[k].tab)

\* No request runs on a file below the schema this code was written for, or on a
\* connection whose append-only triggers can be bypassed.
RequestsSeeTheSchema == ranAt = SchemaVersion

\* Every request is answered or rejected, or its page is gone: with MaxPosts requests
\* to a client, a moment without a pending request always comes.
NoRequestPending == \A k \in Workers : worker[k].pending = {}
StoreCallsSettle == []<>NoRequestPending
=============================================================================
