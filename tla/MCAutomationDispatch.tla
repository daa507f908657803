------------------------ MODULE MCAutomationDispatch ------------------------
(* One Spec (or Issue) and the Pull Request of its sub-issues.             *)
EXTENDS AutomationDispatch, TLC

CONSTANTS s1, p1

MCIssues == {s1}
MCPullRequests == {p1}
MCSharedPR == (s1 :> p1)
\* An Issue never has agent:to-tickets together with another trigger.
MCStarts ==
  {<<s1 :> {"implement"} @@ p1 :> {}, s1 :> 2>>,
   <<s1 :> {"to-tickets"} @@ p1 :> {}, s1 :> 0>>,
   <<s1 :> {"queued"} @@ p1 :> {}, s1 :> 0>>,
   <<s1 :> {} @@ p1 :> {"review", "update-branch"}, s1 :> 0>>}
MCWishes == {<<p1, "implement">>}
=============================================================================
