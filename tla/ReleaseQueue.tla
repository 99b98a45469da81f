---------------------------- MODULE ReleaseQueue ----------------------------
(***************************************************************************)
(* Who may write production, and when.  Every deploy and every watchlist   *)
(* publish is one GitHub run.  A run first waits at the turnstile          *)
(* (.dagger/src/aml_filter/queue.py) until every older run of either       *)
(* workflow has completed, and only then asks for the concurrency group    *)
(* "deploy-aml-filter-com", which lets one run write at a time, keeps at   *)
(* most one pending, and cancels the pending one when another arrives.     *)
(*                                                                         *)
(* Run ids grow with the time of creation.  A run that is re-run keeps its *)
(* id, so that it goes through the turnstile ahead of younger ones.        *)
(***************************************************************************)
EXTENDS Naturals

CONSTANTS Run,       \* the ids of the runs
          Rerunnable \* those that somebody may run again after they ended

ASSUME RunAssumption == Run \subseteq Nat /\ Rerunnable \subseteq Run

VARIABLE status     \* the life of every run

Statuses == {"absent", "waiting", "granted", "pending", "running",
             "completed", "cancelled"}
Alive    == {"waiting", "granted", "pending", "running"}

QueueTypeOK == status \in [Run -> Statuses]

\* Mutant of Ahead: an older run counts once it writes.
AheadWriting(r) == {q \in Run : q < r /\ status[q] = "running"}

\* The older runs that have not completed: what the turnstile waits for.
Ahead(r) == {q \in Run : q < r /\ status[q] \in Alive}

GroupIsFree == \A q \in Run : status[q] # "running"

QueueInit == status = [r \in Run |-> "absent"]

Becomes(r, s) == status' = [status EXCEPT ![r] = s]

\* GitHub creates runs one after the other, with growing ids.
Triggered(r) == /\ status[r] = "absent"
                /\ \A q \in Run : q < r => status[q] # "absent"
                /\ Becomes(r, "waiting")

TakesTurn(r) == /\ status[r] = "waiting"
                /\ Ahead(r) = {}
                /\ Becomes(r, "granted")

\* The wait ran out, or GitHub could not be asked: the run fails.
GivesUp(r) == status[r] = "waiting" /\ Becomes(r, "completed")

\* The write job asks for the group: it runs, or it is the one pending.
Enters(r) == /\ status[r] = "granted"
             /\ IF GroupIsFree
                  THEN Becomes(r, "running")
                  ELSE status' = [q \in Run |->
                         IF q = r THEN "pending"
                         ELSE IF status[q] = "pending" THEN "cancelled"
                         ELSE status[q]]

Promoted(r) == status[r] = "pending" /\ GroupIsFree /\ Becomes(r, "running")

Completes(r) == status[r] = "running" /\ Becomes(r, "completed")

Rerun(r) == /\ r \in Rerunnable
            /\ status[r] \in {"completed", "cancelled"}
            /\ Becomes(r, "waiting")

\* What happens to a run outside its write job.
Queues(r) == TakesTurn(r) \/ GivesUp(r) \/ Enters(r) \/ Promoted(r)

QueueNext == \E r \in Run : Triggered(r) \/ Queues(r) \/ Completes(r) \/ Rerun(r)

QueueSpec == QueueInit /\ [][QueueNext]_status

-----------------------------------------------------------------------------
(* One production write at a time, and none waiting in the group where a  *)
(* newcomer could cancel it (queue.py:6-8 and the comment of both          *)
(* workflows: "Nothing is ever pending here to be cancelled").             *)
NothingPending ==
  /\ \A r \in Run : status[r] \notin {"pending", "cancelled"}
  /\ \A q, r \in Run : status[q] = "running" /\ status[r] \in {"granted", "running"} => q = r
=============================================================================
