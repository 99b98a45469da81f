------------------------------ MODULE AlertIssue ------------------------------
(* The one GitHub issue that says which production workflows fail            *)
(* (.dagger alert.py).  The job that ends a run reads the open issue, plans  *)
(* one change of it and makes it with a request or two.  The issue itself is *)
(* all there is of state, nothing locks it, and the alert jobs of different  *)
(* workflows run side by side.                                               *)
EXTENDS Naturals, Sequences, FiniteSets, FiniteSetsExt

CONSTANTS Watched,   \* WATCHED_WORKFLOWS
          Scheduled, \* those of them that a cron starts: all but deploy.yml
          AlertJob,  \* the alert jobs that may be under way at once
          Flips,     \* bound: how often a workflow breaks or recovers
          Faults,    \* bound: requests that fail or whose answer is lost
          Overlaps   \* bound: alert jobs that begin while another is under way

\* An alert job is of a workflow: <<workflow, n>>.
ASSUME AlertAssumption ==
  Scheduled \subseteq Watched /\ AlertJob \subseteq Watched \X Nat /\ {Flips, Faults, Overlaps} \subseteq Nat

VARIABLES failing,  \* the workflows whose next run fails
          flips, faults, overlaps,
          issues,   \* the alert issues, in the order of their numbers
          job,      \* where each alert job is
          told      \* history: for every workflow, what its last report said, and whether it
                    \* is sure: made by a job that was alone, got every answer
                    \* and found no more than one alert open

alertVars == <<failing, flips, faults, overlaps, issues, job, told>>

Workflow(j) == j[1]
NoPlan == [phase |-> "idle", red |-> FALSE, alone |-> FALSE, issue |-> 0, list |-> {}]

AlertInit ==
  /\ failing = {} /\ flips = 0 /\ faults = 0 /\ overlaps = 0 /\ issues = <<>>
  /\ job = [j \in AlertJob |-> NoPlan] /\ told = [w \in Watched |-> [red |-> FALSE, sure |-> TRUE]]

AlertTypeOK ==
  /\ failing \subseteq Watched /\ flips \in 0..Flips /\ faults \in 0..Faults /\ overlaps \in 0..Overlaps
  /\ \A n \in DOMAIN issues : issues[n].open \in BOOLEAN /\ issues[n].list \subseteq Watched
  /\ \A j \in AlertJob :
       /\ job[j].phase \in {"idle", "listing", "labelling", "creating", "commenting", "updating"}
       /\ job[j].issue \in 0..Len(issues) /\ job[j].list \subseteq Watched
  /\ told \in [Watched -> [red : BOOLEAN, sure : BOOLEAN]]

-----------------------------------------------------------------------------
UnderWay(j) == job[j].phase # "idle"
AtRest == \A j \in AlertJob : ~UnderWay(j)
OpenIssues == {n \in DOMAIN issues : issues[n].open}

Breaks(w) ==
  /\ flips < Flips /\ flips' = flips + 1
  /\ failing' = IF w \in failing THEN failing \ {w} ELSE failing \cup {w}
  /\ UNCHANGED <<faults, overlaps, issues, job, told>>

\* A run ends, and its alert job begins. A job that is not alone is marked, and so are
\* those it meets.
Reports(j) ==
  /\ ~UnderWay(j)
  /\ IF AtRest THEN UNCHANGED overlaps ELSE overlaps < Overlaps /\ overlaps' = overlaps + 1
  /\ job' = [k \in AlertJob |->
       IF k = j THEN [NoPlan EXCEPT !.phase = "listing", !.red = Workflow(j) \in failing,
                                    !.alone = AtRest]
                ELSE [job[k] EXCEPT !.alone = FALSE]]
  /\ UNCHANGED <<failing, flips, faults, issues, told>>

\* Mutant of Changed: the body is rendered of this run alone.
ChangedAlone(list, w, red) == IF red THEN {w} ELSE list \ {w}

\* What a report changes in the list: a red run puts its workflow on, a green one takes
\* it off.
Changed(list, w, red) == IF red THEN list \cup {w} ELSE list \ {w}

Ends(j, answered) ==
  /\ job' = [job EXCEPT ![j] = NoPlan]
  /\ told' = [told EXCEPT ![Workflow(j)] =
       [red |-> job[j].red, sure |-> answered /\ job[j].alone /\ Cardinality(OpenIssues) <= 1]]

Goes(j, phase) == job' = [job EXCEPT ![j].phase = phase] /\ UNCHANGED told

\* _open_issue: of several open alerts the one with the least number.
Current(open) == IF open = {} THEN 0 ELSE Min(open)

\* plan_alert: nothing to write for a green run that is not on the list.
Lists(j) ==
  LET n == Current(OpenIssues)
      list == IF n = 0 THEN {} ELSE issues[n].list
      w == Workflow(j)
  IN /\ job[j].phase = "listing"
     /\ IF ~job[j].red /\ w \notin list THEN Ends(j, TRUE)
        ELSE /\ job' = [job EXCEPT ![j].phase = IF n = 0 THEN "labelling" ELSE "commenting",
                                   ![j].issue = n, ![j].list = Changed(list, w, job[j].red)]
             /\ UNCHANGED told
     /\ UNCHANGED <<failing, flips, faults, overlaps, issues>>

\* A label that is there already is as good.
Labels(j) == job[j].phase = "labelling" /\ Goes(j, "creating") /\ UNCHANGED <<failing, flips, faults, overlaps, issues>>

Opened(list) == issues' = Append(issues, [open |-> TRUE, list |-> list])
Creates(j) ==
  job[j].phase = "creating" /\ Opened(job[j].list) /\ Ends(j, TRUE) /\ UNCHANGED <<failing, flips, faults, overlaps>>

Comments(j) == job[j].phase = "commenting" /\ Goes(j, "updating") /\ UNCHANGED <<failing, flips, faults, overlaps, issues>>

\* Mutant of Written: the list is written, and never closed.
WrittenOpen(issue, list, red) == [issue EXCEPT !.list = list]

\* The body is written, and the issue closed when a green run leaves nothing on the list;
\* one that was closed meanwhile stays closed.
Written(issue, list, red) == [open |-> issue.open /\ (red \/ list # {}), list |-> list]
Updates(j) ==
  /\ job[j].phase = "updating" /\ Ends(j, TRUE)
  /\ issues' = [issues EXCEPT ![job[j].issue] = Written(@, job[j].list, job[j].red)]
  /\ UNCHANGED <<failing, flips, faults, overlaps>>

\* A request is refused or not answered in time, and the alert job goes red; a write may
\* have been made all the same.
Faulted == faults < Faults /\ faults' = faults + 1 /\ UNCHANGED <<failing, flips, overlaps>>
RequestFailed(j) == UnderWay(j) /\ Ends(j, FALSE) /\ Faulted /\ UNCHANGED issues
AnswerLost(j) ==
  /\ Ends(j, FALSE) /\ Faulted
  /\ \/ job[j].phase = "creating" /\ Opened(job[j].list)
     \/ /\ job[j].phase = "updating"
        /\ issues' = [issues EXCEPT ![job[j].issue] = Written(@, job[j].list, job[j].red)]

AlertStep(j) == Lists(j) \/ Labels(j) \/ Creates(j) \/ Comments(j) \/ Updates(j)

AlertNext == \/ \E w \in Watched : Breaks(w)
             \/ \E j \in AlertJob : Reports(j) \/ AlertStep(j) \/ RequestFailed(j) \/ AnswerLost(j)
AlertSpec == AlertInit /\ [][AlertNext]_alertVars

\* The schedules go on, at times of their own, and an alert job that has begun comes to an end.
\* Nothing makes a workflow without a schedule run again.
AlertFairness ==
  \A j \in AlertJob : /\ Workflow(j) \in Scheduled => SF_alertVars(Reports(j))
                      /\ WF_alertVars(AlertStep(j))
FairAlertSpec == AlertSpec /\ AlertFairness

-----------------------------------------------------------------------------
Listed(w) == \E n \in OpenIssues : w \in issues[n].list

\* Between alert jobs, a workflow is on the list of an open alert if and only if its last
\* report was of a failure, if that was made by a job that was alone, got its answers and found
\* no second alert open, whatever jobs overlapped or failed before and since; and an open alert
\* always lists a workflow, whose green run can close it (alert.py:3-6).
AlertSaysWhatFailed ==
  /\ AtRest => \A w \in Watched : told[w].sure => (Listed(w) <=> told[w].red)
  /\ \A n \in OpenIssues : issues[n].list # {}

\* What the alert lists that the next report is written into.
Shown == IF OpenIssues = {} THEN {} ELSE issues[Current(OpenIssues)].list

\* The workflow reports again and again.
ReportsOn(w) == []<>(\E j \in AlertJob : Workflow(j) = w /\ UnderWay(j))

\* When a workflow neither breaks nor recovers and no two jobs overlap any more, the alert comes
\* to list it if and only if it fails, whatever was lost before: always for a workflow with a
\* schedule, and for the deploys, which nothing but a push or a hand starts (deploy.yml:4-9), if
\* they go on. When those go on and nothing fails, every alert is closed (alert.py:3-6, "closes
\* the issue once nothing is failing").
AlertComesTrue ==
  /\ \A w \in Watched : w \in Scheduled \/ ReportsOn(w) =>
       /\ <>[](w \in failing) => <>[](w \in Shown)
       /\ <>[](w \notin failing) => <>[](w \notin Shown)
  /\ (\A w \in Watched \ Scheduled : ReportsOn(w)) /\ <>[](failing = {}) => <>[](OpenIssues = {})

\* What the documentation says, "The body lists every workflow that is still failing"
\* (docs/DEPLOY.md:98): between alert jobs, whenever the last report of a workflow was of a
\* failure. It is violated where two alert jobs overlap, though no request fails.
StillFailingIsListed == AtRest /\ faults = 0 => \A w \in Watched : told[w].red => Listed(w)
=============================================================================
