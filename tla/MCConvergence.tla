--------------------------- MODULE MCConvergence ---------------------------
(* What is to come right by itself, for TLC: the board of a tab and the     *)
(* alert issue of production.  They share no variable, so a behaviour moves *)
(* one of them, chosen at the start, and the run explores the sum of their  *)
(* state spaces.                                                            *)
EXTENDS MCScreening, MCAlert

VARIABLE part

convergenceVars == <<part, vars, alertVars>>
InBoard == part = "board" /\ UNCHANGED <<part, alertVars>>
InAlert == part = "alert" /\ UNCHANGED <<part, vars>>

\* what does not move stays in one initial state
ConvergenceInit ==
  /\ part \in {"board", "alert"} /\ Init /\ AlertInit
  /\ part # "board" => \A c \in Customer : ~Known(c)

ConvergenceNext ==
  \/ InBoard /\ Next
  \/ InAlert /\ AlertNext

\* The fairness of each, in the behaviours that move it: with no page ever opened, none of
\* what Fairness speaks of is there to be done.
ConvergenceFairness ==
  /\ Fairness
  /\ \A j \in AlertJob : /\ Workflow(j) \in Scheduled => SF_alertVars(InAlert /\ Reports(j))
                         /\ WF_alertVars(InAlert /\ AlertStep(j))

ConvergenceSpec == ConvergenceInit /\ [][ConvergenceNext]_convergenceVars /\ ConvergenceFairness
=============================================================================
