------------------------ MODULE MCFailoverSupervisor ------------------------
(***************************************************************************)
(* FailoverSupervisor with two providers and at most MaxDisturbances       *)
(* failures, pinned scans and calls of close.                              *)
(***************************************************************************)
EXTENDS FailoverSupervisor

CONSTANTS primary, fallback, MaxDisturbances

VARIABLE disturbed

MCProviderIds == <<primary, fallback>>

MCInit == Init /\ disturbed = 0

MCNext ==
  \/ Microtasks /\ UNCHANGED disturbed
  \/ Calm /\ (Settling \/ Working \/ Calls) /\ UNCHANGED disturbed
  \/ Calm /\ Disturbances /\ disturbed < MaxDisturbances /\ disturbed' = disturbed + 1

MCSpec == MCInit /\ [][MCNext]_<<vars, disturbed>> /\ Fairness

=============================================================================
