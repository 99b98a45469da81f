---------------------------- MODULE Publication ----------------------------
(***************************************************************************)
(* The release pipeline and the browsers that follow it.                   *)
(*                                                                         *)
(* A run of either kind builds a signed bundle out of what the upstream    *)
(* feeds answer and, for a list whose feed fails, out of the copy that is  *)
(* live; uploads it with the app; checks what is live; and rolls back to   *)
(* the deployment it found when the check is red.  Visitors sync with what *)
(* is live, behind the fence of the highest pointer they accepted.         *)
(*                                                                         *)
(* Time is counted in ticks, TicksPerDay to a UTC day.  The revision of a  *)
(* list is the tick of the last change upstream.                           *)
(***************************************************************************)
EXTENDS ReleaseQueue

CONSTANTS List, Visitor, None,
          TicksPerDay,
          CarryDays,     \* --max-carried-age-days, --carry-ceiling-days
          FallbackDays,  \* FALLBACK_DAYS of a code deploy
          RefreshTicks,  \* DEFAULT_MAX_AGE_HOURS of the live smoke
          RollbackWorks, \* whether Cloudflare ever does the rollback it is asked for
          Daily,         \* whether releases are at most one a day
          MaxTick, MaxCommit, MaxSequence

ASSUME PublicationAssumption ==
  /\ TicksPerDay \in Nat \ {0}
  /\ {CarryDays, FallbackDays, RefreshTicks, MaxTick, MaxCommit, MaxSequence} \subseteq Nat
  /\ {RollbackWorks, Daily} \subseteq BOOLEAN
  /\ 0 \notin Run

VARIABLES
  now, upstream, head,  \* the clock, the feeds, the newest green commit
  job,                  \* what the write job of every run holds
  live,                 \* the deployment production serves
  past,                 \* history: deployments that passed, or were left by a lost job
  seen, catalog, page   \* of a browser: the fence, the catalog being opened, the lists in use

world  == <<now, upstream, head>>
visits == <<seen, catalog, page>>
vars   == <<status, world, job, live, past, visits>>

Day(t) == t \div TicksPerDay

Kinds == {"code", "watchlist"}
Copies == [rev : 0..MaxTick, fetched : 0..MaxTick, version : Nat, stale : BOOLEAN]
Bundles == [seq : Nat, by : Run \cup {0}, made : 0..MaxTick, lists : [List -> Copies]]
Deployments == [run : Run \cup {0}, app : 0..MaxCommit, bundle : Bundles]

NewJob(kind, sha) == [kind |-> kind, sha |-> sha, phase |-> "idle", seq |-> 0,
                      next |-> None, target |-> None]

\* Every list is complete and non-empty in whatever is built or live, a run
\* that holds an artifact holds a whole one, and a page shows whole lists.
TypeOK ==
  /\ QueueTypeOK
  /\ now \in 0..MaxTick /\ head \in 0..MaxCommit
  /\ upstream \in [List -> 0..MaxTick]
  /\ live \in Deployments
  /\ \A r \in Run :
       /\ job[r].phase \in {"idle", "building", "built", "uploaded"}
       /\ job[r].phase \in {"built", "uploaded"} => job[r].next \in Deployments
  /\ \A v \in Visitor : page[v] = None \/ page[v] \in [List -> Copies]

Pointer == [seq |-> live.bundle.seq, by |-> live.bundle.by]

Init ==
  /\ QueueInit
  /\ now = 0 /\ head = 0 /\ upstream = [l \in List |-> 0]
  /\ job = [r \in Run |-> NewJob(None, 0)]
  /\ live = [run |-> 0, app |-> 0,
             bundle |-> [seq |-> 1, by |-> 0, made |-> 0,
                         lists |-> [l \in List |-> [rev |-> 0, fetched |-> 0,
                                                    version |-> 0, stale |-> FALSE]]]]
  /\ past = [checked |-> {live}, abandoned |-> {}]
  /\ seen = [v \in Visitor |-> None]
  /\ catalog = [v \in Visitor |-> None]
  /\ page = [v \in Visitor |-> None]

-----------------------------------------------------------------------------
(* The outside world *)

Tick == /\ now < MaxTick /\ now' = now + 1
        /\ UNCHANGED <<status, upstream, head, job, live, past, visits>>

Revises(l) == /\ upstream[l] < now
              /\ upstream' = [upstream EXCEPT ![l] = now]
              /\ UNCHANGED <<status, now, head, job, live, past, visits>>

Commits == /\ head < MaxCommit /\ head' = head + 1
           /\ UNCHANGED <<status, now, upstream, job, live, past, visits>>

\* The CI runs of two commits may end in either order.
Requested(r) ==
  /\ Triggered(r)
  /\ \E k \in Kinds, sha \in 0..head :
       job' = [job EXCEPT ![r] = NewJob(k, sha)]
  /\ UNCHANGED <<world, live, past, visits>>

Waits(r) == (Queues(r) \/ Rerun(r)) /\ UNCHANGED <<world, job, live, past, visits>>

-----------------------------------------------------------------------------
(* The write job of a run *)

At(r, phase) == status[r] = "running" /\ job[r].phase = phase

Ends(r) == Completes(r) /\ job' = [job EXCEPT ![r] = NewJob(job[r].kind, job[r].sha)]

\* Mutant of SequenceAfterLive: a re-published list keeps the live sequence.
SequenceOfLive == live.bundle.seq

SequenceAfterLive == live.bundle.seq + 1

\* Mutant of Starts: the release is of the commit the run was triggered for.
StartsUnmatched(r) ==
  /\ At(r, "idle")
  /\ SequenceAfterLive <= MaxSequence
  /\ job' = [job EXCEPT ![r].phase = "building", ![r].seq = SequenceAfterLive]
  /\ UNCHANGED <<status, world, live, past, visits>>

\* The release is of the newest green commit; the sequence is one above live.
Starts(r) ==
  /\ At(r, "idle")
  /\ job[r].sha = head /\ SequenceAfterLive <= MaxSequence
  /\ job' = [job EXCEPT ![r].phase = "building", ![r].seq = SequenceAfterLive]
  /\ UNCHANGED <<status, world, live, past, visits>>

Fetched(l) == [rev |-> upstream[l], fetched |-> now, version |-> Day(now), stale |-> FALSE]

\* Mutant of Carried: the copy bears the time of the build that carries it.
CarriedRestamped(l) == [live.bundle.lists[l] EXCEPT !.stale = TRUE, !.fetched = now]

\* The live copy of a list, with its own age, and its age in whole days.
Carried(l)   == [live.bundle.lists[l] EXCEPT !.stale = TRUE]
Carriable(l) == Day(now - live.bundle.lists[l].fetched) <= CarryDays

\* Each list is fetched, or carried forward when its feed fails.
Assembled(failing) ==
  [l \in List |-> IF l \in failing THEN Carried(l) ELSE Fetched(l)]

\* The new app with this bundle, and the deployment to go back to.
Built(r, bundle) ==
  job' = [job EXCEPT ![r].phase = "built", ![r].target = live,
            ![r].next = [run |-> r, app |-> job[r].sha, bundle |-> bundle]]

Builds(r) ==
  /\ At(r, "building")
  /\ Daily => Day(now) # Day(live.bundle.made)
  /\ \E failing \in SUBSET List :
       /\ \A l \in failing : Carriable(l)
       /\ Built(r, [seq |-> job[r].seq, by |-> r, made |-> now,
                    lists |-> Assembled(failing)])
  /\ UNCHANGED <<status, world, live, past, visits>>

\* A code deploy whose build failed takes along the bundle that is live.
Mirrors(r) ==
  /\ At(r, "building")
  /\ job[r].kind = "code"
  /\ Day(now) - Day(live.bundle.made) <= FallbackDays
  /\ Built(r, live.bundle)
  /\ UNCHANGED <<status, world, live, past, visits>>

\* Mutant of Uploads: the deployment to go back to is read after the upload.
UploadsThenAsks(r) ==
  /\ At(r, "built")
  /\ live' = job[r].next
  /\ job' = [job EXCEPT ![r].phase = "uploaded", ![r].target = live']
  /\ UNCHANGED <<status, world, past, visits>>

Uploads(r) ==
  /\ At(r, "built")
  /\ live' = job[r].next
  /\ job' = [job EXCEPT ![r].phase = "uploaded"]
  /\ UNCHANGED <<status, world, past, visits>>

\* What the live smoke asks of the catalog: a list that could be refreshed is
\* held to the daily ceiling, one that was carried to the carry ceiling.
FreshEnough(bundle) ==
  /\ now - bundle.made <= RefreshTicks
  /\ \A l \in List :
       now - bundle.lists[l].fetched <=
         IF bundle.lists[l].stale THEN CarryDays * TicksPerDay ELSE RefreshTicks

Passes(r) ==
  /\ At(r, "uploaded")
  /\ FreshEnough(live.bundle)
  /\ past' = [past EXCEPT !.checked = @ \cup {live}]
  /\ Ends(r)
  /\ UNCHANGED <<world, live, visits>>

\* The smoke is red, for the age of a list or for anything else.
RollsBack(r) ==
  /\ At(r, "uploaded")
  /\ RollbackWorks
  /\ live' = job[r].target
  /\ Ends(r)
  /\ UNCHANGED <<world, past, visits>>

\* The rollback is refused, or the job is killed after its upload.
Lost(r) ==
  /\ At(r, "uploaded")
  /\ past' = [past EXCEPT !.abandoned = @ \cup {live}]
  /\ Ends(r)
  /\ UNCHANGED <<world, live, visits>>

\* Anything that fails before the upload ends the job with nothing written.
Fails(r) ==
  /\ \E phase \in {"idle", "building", "built"} : At(r, phase)
  /\ Ends(r)
  /\ UNCHANGED <<world, live, past, visits>>

Works(r) == Starts(r) \/ Builds(r) \/ Mirrors(r) \/ Uploads(r) \/ Passes(r)
            \/ RollsBack(r) \/ Lost(r) \/ Fails(r)

-----------------------------------------------------------------------------
(* The browsers *)

Stamps(lists) == [l \in List |-> lists[l].version]

\* The fence: a lower sequence, or the same one for other bytes, is refused.
Refuses(v) == seen[v] # None /\ live.bundle.seq <= seen[v].seq /\ Pointer # seen[v]

Synced(v) == ~Refuses(v) /\ seen' = [seen EXCEPT ![v] = Pointer]

\* First phase of opening the bundle: the pointer and the catalog.
Opens(v) ==
  /\ page[v] = None /\ catalog[v] = None
  /\ Synced(v)
  /\ catalog' = [catalog EXCEPT ![v] = Stamps(live.bundle.lists)]
  /\ UNCHANGED <<status, world, job, live, past, page>>

\* Second phase: the lists, which must bear the versions of that catalog.
Loads(v) ==
  /\ catalog[v] # None
  /\ catalog' = [catalog EXCEPT ![v] = None]
  /\ IF Refuses(v) THEN UNCHANGED seen ELSE Synced(v)
  /\ page' = IF Refuses(v) \/ Stamps(live.bundle.lists) # catalog[v]
               THEN page ELSE [page EXCEPT ![v] = live.bundle.lists]
  /\ UNCHANGED <<status, world, job, live, past>>

\* Mutant of Polls: the poll takes note of the pointer and keeps the engine.
PollsQuietly(v) ==
  /\ page[v] # None
  /\ Synced(v)
  /\ UNCHANGED <<status, world, job, live, past, catalog, page>>

\* The poll syncs the catalog alone; another stamp reloads the engine.
Polls(v) ==
  /\ page[v] # None
  /\ Synced(v)
  /\ page' = IF Stamps(live.bundle.lists) # Stamps(page[v])
               THEN [page EXCEPT ![v] = None] ELSE page
  /\ UNCHANGED <<status, world, job, live, past, catalog>>

\* The way out of a refused sync: the cached lists go, and the fence with them.
ClearsCache(v) ==
  /\ page[v] = None /\ catalog[v] = None /\ Refuses(v)
  /\ seen' = [seen EXCEPT ![v] = None]
  /\ UNCHANGED <<status, world, job, live, past, catalog, page>>

Closes(v) ==
  /\ page[v] # None
  /\ page' = [page EXCEPT ![v] = None]
  /\ UNCHANGED <<status, world, job, live, past, seen, catalog>>

Visits(v) == Opens(v) \/ Loads(v) \/ Polls(v) \/ ClearsCache(v) \/ Closes(v)

-----------------------------------------------------------------------------

Next == \/ Tick \/ Commits
        \/ \E l \in List : Revises(l)
        \/ \E r \in Run : Requested(r) \/ Waits(r) \/ Works(r)
        \/ \E v \in Visitor : Visits(v)

Spec == Init /\ [][Next]_vars

\* A page that is open finishes what it began and polls every half hour; the
\* visitor comes back.  Nothing is asked of the pipeline.
FairSpec == Spec /\ \A v \in Visitor : /\ WF_vars(Opens(v))
                                       /\ WF_vars(Loads(v))
                                       /\ WF_vars(Polls(v))

-----------------------------------------------------------------------------
(* Properties *)

\* The age a copy states is true however often it is carried or mirrored, live
\* and on every page: each revision made before its "fetched" is in it
\* (carryForwardList.ts keeps the age of the copy it re-serves).
Honest(lists) == \A l \in List : upstream[l] < lists[l].fetched => lists[l].rev = upstream[l]
StatedAgeIsTrue ==
  Honest(live.bundle.lists) /\ \A v \in Visitor : page[v] # None => Honest(page[v])

\* With no job at work, what is live has passed the checks after its upload or
\* is what a job that was lost after its upload left (main.py:463-470 records
\* the target of the rollback before the upload).
LiveWasVerified ==
  GroupIsFree => live \in past.checked \cup past.abandoned

\* The app goes back to an older commit only when the job that deployed the
\* newer one rolls back, although old CI runs may end late and old runs may be
\* run again (main.py:558-561).
CodeNeverRegresses ==
  [][live'.app < live.app =>
       \E r \in Run : At(r, "uploaded") /\ live.run = r /\ live' = job[r].target]_vars

\* A sequence stands for one bundle (docs/DEPLOY.md:141-142: "the signed `latest` pointer's
\* repository-wide monotonic `sequence`") among those that production kept or serves now,
\* whatever was lost, mirrored, rolled back or run again: one is given again only in place of
\* a bundle that a rollback took back.
Kept == {d.bundle : d \in past.checked \cup past.abandoned \cup {live}}
SequenceNamesOneBundle ==
  \A b, c \in Kept : b.seq = c.seq => b = c

\* What a build carries is within the ceiling that the smoke of its release holds it to, "the
\* same ceiling the publisher enforces" (checkPublishedFreshness.ts:127-128), at the instant of
\* the build. Violated: the publisher counts whole days (Carriable).
OneCarryCeiling ==
  \A r \in Run : At(r, "built") /\ job[r].next.bundle.by = r =>
    \A l \in List : LET copy == job[r].next.bundle.lists[l] IN
      copy.stale => job[r].next.bundle.made - copy.fetched <= CarryDays * TicksPerDay

\* Every visitor ends up with a page that screens against what is live
\* (docs/DEPLOY.md:148: "clients converge on their own").
Current(v) == \A l \in List : page[v][l].rev = live.bundle.lists[l].rev
VisitorsConverge ==
  \A v \in Visitor : <>[](page[v] # None => Current(v)) /\ []<>(page[v] # None)
=============================================================================
