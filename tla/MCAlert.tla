------------------------------- MODULE MCAlert -------------------------------
(* The alert issue for TLC: two workflows, one of which may have two alert     *)
(* jobs at once (a release that gives up its turn reports while an older one   *)
(* does).                                                                      *)
EXTENDS AlertIssue

Workflows == {"deploy", "smoke"}
ThreeJobs == {<<"deploy", 1>>, <<"deploy", 2>>, <<"smoke", 1>>}
TwoJobs == {<<"deploy", 1>>, <<"smoke", 1>>}
=============================================================================
